# A TLA+ model of the XM media recorder

The repository is a native screen and camera recorder for Android: an application
puts RGBA pictures, an encoder thread turns them into H.264 packets with ffmpeg,
and a mux thread writes the packets to an mp4 file. All of its own code is in
`src/xmrecorder/xm_media_recorder/`; ffmpeg, libyuv and ijkplayer (the message
queue and `SDL_Thread`) are outside. The code is short and its difficulty is
entirely in its concurrency: four kinds of threads, two flags that no lock
protects, two queues with an abort flag, and joins under a mutex.

File names below without a path are in that directory.

## The system

| part | code | state | operations |
|---|---|---|---|
| recorder | `xm_media_recorder.c`, `xmmr_msg_def.h` | `mr_state`, `start_mux`, `mutex`, `msg_queue`, references | create, prepareAsync, start, stop, put, glMapBufferRange_put, setConfigParams, release |
| message thread | `xmmr_get_msg`, `message_loop_n` (JNI) | - | takes a message, changes the state, starts or stops the rest, posts an event to Java |
| encoder interface | `xm_iencoder.c`, `xm_encoder_factory.c` | table of functions | handleRun, startAsync, stop, enqueue, wait; the factory has no audio encoder |
| thread wrapper | `xm_thread.c` | `mRunning` | startAsync, startThread, wait |
| video encoder | `xm_video_encoder.c` | `abort`, `frame_num`, `cur_pts`, `last_time`, config | enqueue, stop, prepare, encode, flush |
| frame queue | `xm_rgba_queue.c` | list, count, `mAbortRequest`, mutex, condition variable | put, get, size, flush, abort, start |
| packet queue | `xm_packet_queue.c` | the same | the same, and notify |
| muxer | `xm_media_muxer.c` | `abort_muxer`, `mRunning`, config, the file | startAsync, mux_thread, write_frame, abort, wait, stop |
| JNI glue | `xm_media_recorder_jni.c` | the Java field with the recorder | native methods, references, release |
| pictures | `xm_rgba_data.c`, `xm_rgba_process.h`, `*/xm_memcpy_neon*` | buffers | free, rotate, flip, copy |

How they interact. The application's threads call prepareAsync, start, stop
(which set the state under `mutex` and post a request) and put (which reads the
state without a lock, copies the picture and calls `VEncoder_enqueue`). The
message thread takes requests one by one and starts or stops the encoder and the
muxer while it holds `mutex`. The encoder thread takes frames and puts packets in
`videoq`; the mux thread, which the first accepted frame creates
(`xmmr_encoder_enqueue`), takes them. Both threads post STARTED and ERROR to
`msg_queue`, and the message thread turns them into states and Java events.

A stop is meant to drain: it sets a flag, and whoever finds the queue empty with
the flag set aborts the queue, which makes the blocking `get` fail and ends the
loop. Then the thread is joined, but only if `mRunning` says it runs.

What is hard, and what makes each part correct:

* *encoder*: a stop must not lose its abort between the flag and the blocking
  get; it must drain what was accepted; every error path must free a frame once;
* *muxer*: the same protocol, in another order; packets must not be dropped at
  the end of a file, nor left out in its middle;
* *recorder*: states are changed by the application, by requests and by late
  messages; put acts on a state that may have changed; threads are created twice
  or outlive a stop; when STOPPED is told nothing may be left, and the file must
  be complete;
* *queues*: what the list under its mutex does must look atomic, and one signal
  must be enough;
* *lifetime, configuration, time stamps*: references against joins, strings that
  are shared and freed, time stamps that several putters change.

`PROJECT.json` lists each hazard at its line, with the properties aimed at it.

## The modules

| module | models |
|---|---|
| `VideoEncoder` | the encoder thread, `VEncoder_enqueue`, `IEncoder_stop` |
| `MediaMuxer` | the mux thread, `muxer_stop`, and an arbitrary stream of packets |
| `MediaRecorder` | the recorder's state machine, message thread and calls, over instances of the two above |
| `RecorderLifetime` | the references, the Java field, `release`, what the last reference does, and the strings of the configuration, over every action of `MediaRecorder` |
| `FrameClock` | the time stamps: `cur_pts`, `last_time` and `CFR` under several putters, `prepareAsync` and the clock |
| `RgbaProcess` | the copy of rows, the rotation and the flips, as functions, and by coordinates what they ought to give |
| `Frames` | a frame in the queue, with its stamp from `FrameClock` and its picture from `RgbaProcess` |
| `AbortableQueue` | the specification of both queues: calls that take effect in one step |
| `XMQueue` | their code, with the heap, the mutex and the condition variable; implements `AbortableQueue` |
| `QueueLemmas` | facts on `Range` and `IsInjective` of sequences that grow and shrink |
| `VideoEncoderProofs`, `MediaMuxerProofs`, `MediaRecorderProofs`, `MediaRecorderPatientProofs`, `RecorderLifetimeProofs`, `FrameProofs`, `XMQueueProofs` | the theorems |
| `MC*` | values of constants, and symmetry where it is used, for TLC |

`MediaRecorder` instantiates `VideoEncoder` and `MediaMuxer` over one set of
variables: they meet in `videoq`, where the encoder appends and the mux thread
takes, and in `msgq`. `RecorderLifetime` extends it: each of its steps is a step
of the recorder by a thread that holds a reference, or a step on references that
the recorder does not see. `FrameClock` is apart, since nothing else reads a
stamp: it has its own small session with the places where the stamps are written.

**Grain.** A step is one access to shared state. A flag that no lock protects is
read in one step and acted on in the next; a call of a queue is one step, which
`XMQueue` justifies; a thread exists from the call that creates it, and sets
`mRunning` in a step of its own. In `MediaRecorder` a critical section of
`mr->mutex` is one step guarded by `MutexFree`, except for those of the message
thread that join or create threads, during which it holds the mutex over steps.

**Variables.** `abort`, `frameNum`, `vRunning`, `abortMuxer`, `mRunning`, `state`,
`startMux` are the fields of the code; `encPc`, `stopPc`, `muxPc`, `mstopPc`,
`loopPc`, `ctlPc`, `putPc`, `call` say where each thread is, and `strays` and
`muxStrays` where older threads are; `live` is the set of picture buffers that are
allocated. `owed`, `owedPackets`, `accepted`, `told` and `prepared` are history: what
the program has promised so far.

**Actions.** Each action is named for what the code does there, and its comment
names the function; the `map` of `PROJECT.json` gives its lines. The actions of a
loop follow the text: `LoopTop`, `LoopSize`, `LoopAbortQueue`, `GetFrame` or
`GetAborted`, `Encode*` are lines 319 to 344 of `xm_video_encoder.c`.

**Data.** A frame is a number in the order of allocation and a packet is the
frame it was made from. The codec is a FIFO queue: it may keep a frame, give its
oldest one, or fail (`max_b_frames` is 0 by default). A file is `created`,
`headed` or `complete`. The failures that may happen are the constants `Faults`
and `MuxFaults`.

**Outside the source.** The message queue is ijkplayer's: FIFO, aborted until
`msg_queue_start`, which posts FLUSH, and dropping what is posted before.
`SDL_WaitThread` returns when the thread has. Attaching a thread to the Java VM
and creating a thread succeed. `MR_MSG_STATE_CHANGED`, which nobody acts on, and
`MR_MSG_COMPLETED`, which nobody posts, are left out.

**Two threads of a kind.** The code creates an encoder thread at every start and
a mux thread at every claim of `start_mux`, whether or not one is alive
(`HandleStartAgain`, `CreateMuxAgain`). The new one takes the handle, which is all
that a stop can join, and the old one becomes a stray: it takes the same steps on
the same fields (`Stray(s)!EncoderStep`, `MuxStray(s)!MuxStep`), so that one thread
clears the abort the other was to see, sets its `mRunning`, or flushes and re-arms
its queue. In the code two threads in one codec or one file are undefined
behaviour; here each leaves what one of them alone may leave. The invariant
`NoClash` says for which application there are never two.

**Lifetime.** `refCount` is the code's; `ref` says which Java thread has taken a
reference and whether it has used it for its call, `loop` is the message thread
around `xmmr_get_msg`, and `lastPc` is the thread that dropped the last reference
on its way through `stop_l` and `freep_l`. One thread, `Control`, calls everything
but put, and releases; others put at the same time. `strings`, `encStrings` and
`muxStrings` are the configurations whose strings the recorder, the encoder and
the muxer point to: a pointer dangles when it is not `strings` and not NULL.

**Time stamps.** The clock may advance at every step and be set back once in a
session. `quirks` records what has disturbed the stamps (two puts overlapped, a
put overlapped prepareAsync, prepareAsync was refused, the clock was set back),
and each property says which of them it does without; so one run shows both what
holds in order and what the racing putters leave intact. The elapsed time is divided
in `float` (line 196 of `xm_video_encoder.c`): the two operands and the quotient are
each rounded, by at most one part in 2^24, and the result may be any integer that a
quotient right to one part in `Precision` is truncated to (`FloatQuotient`). In the
code `Precision` may be taken as 2^22; it is 8 in the run, so that a gap between two
frames is long enough to lose a unit, or to gain one.

**Pictures.** `RgbaProcess` has no state: a buffer is a function from indices to
pixels, and every place of a picture that is put holds another one, so that a
picture that comes out right came out right for a reason. `Frames` states the
result of a frame in the queue, whichever picture of `Pictures` it holds.

## The runs

The application of `MediaRecorder` keeps to the rules in the constant `Client`:
it waits for the event that answers a call (`awaits`), its calls do not overlap
(`serial`), it puts only after STARTED (`puts_late`), it leaves new threads the
time to come up (`settles`) and it calls prepareAsync only where that is accepted
(`in_order`). `{}` is an application that calls anything at any time.

| run | instance | shows |
|---|---|---|
| `video_encoder` | 2 putters, 3 frames, 2 starts, every failure | no lost abort, draining, one owner per buffer, and the inductive invariant |
| `media_muxer` | 5 packets, 2 files, every failure | draining to the file, no gap, its inductive invariant, and that an abort seen in the loop ends the thread |
| `media_recorder` | 1 putter, 4 frames, two sessions, all five rules | quiet when stopped, no second thread, file a suffix of what was accepted, no ERROR, no encoder started unprepared |
| `media_recorder_hasty` | 2 putters, 2 frames, 3 calls, limit 0, failures of open and memory; `puts_late` | buffers have one owner and the queue is bounded, also with two encoder threads at work |
| `media_recorder_live` | two sessions, failures of codec, size, memory, file | start is answered, the encoder's stop ends, a failing muxer is told |
| `recorder_lifetime` | 1 putter, 1 frame, 5 calls, 2 configurations; `awaits`, `serial`, `settles` | the last reference is alone, `weak_thiz` outlives the message thread, workers end before they lose what they use, no freed string is read, a stopped recorder is freed, release returns |
| `frames` | 2 putters, 3 puts, 2 sessions, clock 0..2 with 3 ticks a second, 2 frames a second, time base 1/4; 32 pictures of 2x2 and 4x2 | films go forward, a constant rate is exact, racing putters are never late, a variable rate keeps to real time as far as `float` does, pictures are turned as asked |
| `xm_queue` | 4 threads, 2 list nodes, 3 items | list consistent, no missed signal, implements `AbortableQueue` |

*Bounds.* Two putters are enough for every race between putters and the two other
threads, since putters meet only in the queue and in unlocked flags. Three frames let
the queue, the encoder and the codec hold one each. Two starts, and two files, reach
everything a first session leaves behind: the encoder ends with `abort` set, which a
second start finds. In `media_recorder` six calls are two whole sessions. In
`media_recorder_hasty` three calls are prepareAsync and two starts, which make two
encoder threads over one queue, or one start and a stop; with a limit of 0 two putters
pass the test together and go over it. `puts_late` keeps the putters out until the
first STARTED, and the constraint `MuxIdle` follows a mux thread no further than its
creation, since its steps touch neither the buffers nor the frame queue; both only
keep the run small, and the theorems `BuffersOwned` and `QueueIsBounded` do without
them. In `recorder_lifetime` five calls are a session, a second prepareAsync and one
that is refused, with the strings changed in between. In `frames` three puts are a
first frame, one with an interval and one that was given its stamp by the other
putter; 3 ticks are no multiple of the 4 units of a second, so that the truncation
happens. Two list nodes make the heap reuse a node at once, and make malloc fail when
both are taken. Putters are symmetric in `video_encoder` and `frames`, which check no
liveness.

*Fairness.* Weak fairness of each thread that is inside a call or runs: the scheduler
of the system lets every runnable thread go on, and the code holds no lock that
another thread needs for ever, except where it joins. A stray is as fair as any
thread. In `recorder_lifetime` only the message thread and the thread in release are
fair, which is all that `ReleaseReturns` needs. The application is never assumed to
call again, packets are never assumed to come, and failures are never assumed to
happen or not to happen. Deadlock is not checked: the system rightly stops where the
application calls nothing more, and behaviours end where a bound is used up. That a
thread does not block for ever is stated by the invariants `NoLostAbort` and
`NoMissedSignal` and by the liveness properties.

### What the code does not do

Four runs look for something the code or the README says and find it violated.

* `video_encoder_stop`: `VEncoder_prepare` clears `abort` on the encoder thread
  (line 106), so a stop that came first is forgotten and the join never returns;
  in the recorder the message thread then holds `mr->mutex` for ever.
* `media_muxer_stop`: `muxer_abort` reads the size of the queue before it sets
  `abort_muxer` (lines 114-123). The mux thread can take the last packet, see no
  abort and block between the two. `VEncoder_stop` has the right order, which is
  what the theorem `AbortNeverLost` is about.
* `media_recorder_stopped`: without `settles`, `muxer_wait` or `XMThread_wait`
  finds `mRunning` false because the thread has not run yet, and STOPPED is told
  of a session whose thread lives.
* `media_recorder_file`: `muxer_start` flushes `videoq` on the mux thread, and
  with it the packets that the encoder was faster to put, the first key frame
  among them. `FileIsSuffix` says that nothing else is lost.

What else the models show, and no run is spent on:

* start sets REQ_START in any state and the check that "expects prepared" accepts
  it. `StartNeedsPrepared` holds of an application that waits for events, and of
  no other.
* A refused prepareAsync has already called `IEncoder_init`: `frame_num` is 0 in
  the middle of a recording, so that the codec may not be flushed at the end
  (`FileIsSuffix` needs `in_order`), and the stamps start again, with a variable
  rate (`refused` in `FrameClock`).
* put lets one frame per putter more than `XMMR_MAX_QUEUE_SIZES` into the queue
  (`QueueBounded`), and `glMapBufferRange_put` any number.
* A second start makes a second encoder thread, which clears the `abort` that a stop
  has set for the first and un-aborts its queue. If it then fails to open the codec,
  the first sleeps in `get` with nobody to wake it, after STOPPED was told. No
  property says otherwise: `NoLostAbort` is about one thread at a time, and `NoClash`
  says for whom there is one.
* Racing putters give two frames one stamp; when both find `last_time` unset, a
  variable rate jumps. A constant rate counts a frame the queue could not take.
* Two frames within a unit of the time base have the same stamp.
* A recorder whose last reference is dropped in ASYNC_PREPARING, PREPARED or
  STARTED is not freed (`LastKeep`). `StoppedIsFreed` says that one which was told
  STOPPED is, although late messages set the state.
* release aborts the message queue: a request that is queued is never handled. A
  release while REQ_START is being handled frees the encoder under a thread that
  has not set `mRunning`; `settles` leaves that out. Nothing says that freeing
  ends, since the stop of the muxer in it may hang as in `media_muxer_stop`.
* After a turn by 90 or 270 degrees the flips and the codec still use the old
  width: `PictureRight` is stated for square pictures then.
* A packet that cannot be written and a codec that fails are not reported
  (`WriteFails`, `EncodeFails`), and PREPARED is told even when it is refused
  (`HandlePrepared`).

## What is proved

The theorems hold for every number of threads, putters, frames, packets, starts,
files and calls. Those about the encoder, the muxer, the queues and frames, and
those of `MediaRecorderProofs`, hold for every set of failures and every application;
those of `MediaRecorderPatientProofs`, and three of `RecorderLifetimeProofs`, for an
application and failures as `Patient` says (below). All use the assumptions on the
constants, which give these their types and say no more than that: sets of
threads are finite, `Control` is not a putter, bounds and rates are naturals and
a rate is not 0 (`EncoderAssumption`, `MuxerAssumption`, `RecorderAssumption`,
`LifetimeAssumption`, `ClockAssumption`, `QueueAssumption`). TLC checks the
invariants before anything is proved of them. The proofs go by one lemma per group
of actions, with the facts on sequences in `QueueLemmas`.

`VideoEncoderProofs`:

* `TypeCorrect`: `TypeOK` is not inductive alone, because the frame the thread or
  a putter appends has to be a frame and not 0; with `Holding`, which says
  where a frame is in hand, it is.
* `AbortNeverLost`: `NoLostAbort` is inductive given the types. The point of the
  proof is the order in `VEncoder_stop`: a thread in `get` on an empty queue
  came from a loop head that saw no abort (one that saw it and found frames still
  has them to take). If `abort` is set now, it was set since, and the thread in
  `VEncoder_stop` has not looked at the queue yet and will find it empty.
* `DrainInvariant`, `StopDrains`, `OneOwner`: `DrainOnStop` needs to know where
  an owed frame is (`WhereOwed`), that the queue is aborted only when no owed
  frame is in it (`QueueAbortedAfterDrain`), and that `frame_num` is at least
  the number of frames in the codec, so that the codec is flushed
  (`CodecCounted`). Owed frames and owners interlock: a frame is taken off
  `owed` once because it is in one place, so `FrameOwnership`, `OwedIsPut` and
  `RunningTracksThread` are parts of the same invariant, `DrainInv`.

`MediaMuxerProofs`:

* `MuxTypeCorrect`, `MuxDrainInvariant` and `MuxDrains`, along the same lines with
  `MuxDrainInv`. Its part `AbortedByStop` carries the argument: only a thread in
  `muxer_stop` makes the flags true while the mux thread writes.
* `FileHasNoGap`: `LineInv` says it in pieces, each of which one step extends at
  one end. What is written and what is queued are runs of numbers; the queue ends
  with the last packet that was put, and begins where the file, or the packet in
  hand, ends. That a file begins empty keeps the flush of `muxer_start` out of
  its middle.

`MediaRecorderProofs`, for every application, `Client = {}` included:

* `BuffersOwned`. The theorem on the encoder alone does not give this: the
  recorder also resets `frame_num`, refuses frames before it is configured, counts
  frames it had no memory for, and has several encoder threads take from one queue.
  `EncInv` numbers them: 0 is the latest and s is the one that was the s-th to
  start, so that a step of any of them is dealt with once. `Numbered` says that the
  place a thread goes to when it loses its handle is free, `WhoHolds` who has a
  frame between two operations of the queue, and `Owned` is `FramesOwned`, frame by
  frame and thread by thread.
* `RecorderTypeCorrect`, which needs the same invariant: what is appended to
  `accepted` is the frame in the putter's hand.
* `QueueIsBounded`, if every frame comes by put. `QueueBounded` counts, with the
  frames in the queue, the putters that have passed the test of the size (`Passed`),
  each of which adds one frame; so it is inductive given the types. That a putter enqueues only within
  its call (`PutCalls`) makes the two ways of counting them agree.

`MediaRecorderPatientProofs`, under `Patient`: the application keeps to all rules of
`ClientKind` but `in_order`, and what fails, if anything does, is a packet that the
queue refuses or a flush of the codec, of which nobody is told. Another failure posts
an ERROR that nobody asked for; it may overtake the answer to a request, the
application calls again, and two requests are under way. What then still holds is in
`MediaRecorderProofs`. `media_recorder_stopped` shows what comes of an application
without `settles`, and `NoClash` needs `puts_late`: a put that begins before `ArmMux`
and ends after it finds `start_mux` set while the mux thread of the last session may
still close its file.

* That there are no strays (`NoStrays`) is proved along with all of the following.
* `ThreadsNeverClash`, `StoppedIsQuiet`, `PatientSeesNoError` and `StartsArePrepared`,
  from `PatientInv`. The argument is that one thing is under way at a time, and that
  the state says what: `Flow` lists for every state the message that is queued or in
  hand, the step the message thread is in, and what the application was told last.
  `EncoderUp` and `MuxerUp` then say where the two threads can be in each state,
  `EncoderStopped` and `MuxerStopped` that an abort comes from a stop and that the
  stop ends when the thread has, `OnePut` that at most one put is under way, in
  STARTED, and is accepted, and `NothingLeft` that no frame or packet outlives its
  session. No part is inductive without the others: that the mux thread is joined
  at the stop, for instance, needs that the application let it come up (`settles`),
  that `start_mux` is cleared before it is created (`OnePut`), and that no other
  message is taken in between (`Flow`).
* `FileHoldsSuffix`, under `Reliable`, which adds `in_order` and that nothing fails.
  Frames are numbered in the order of allocation, and one put at a time makes that
  the order of acceptance. `FileInv` says that the file, the packet in hand, `videoq`,
  the codec, the frame in hand and the frame queue hold adjoining runs of
  consecutive numbers, the last of which is the last that was accepted; the lemmas
  `Run*` say how a run grows and shrinks. When STOPPED is told all but the file are
  empty.

`RecorderLifetimeProofs`: `LifeInvariant`, `LastReferenceIsAlone` and
`WeakReferenceOutlivesLoop`. The invariant `LifeInv` is the count, `RefsCounted`
(`ref_count` is the number of threads with a reference, and one each for the Java
field and the message thread), and what ties the count to control: who is in a
call holds a reference (`UsersHold`), the field is cleared by `Control` alone and
last (`ReleaseOrder`), and the message thread ends before `weak_thiz` goes
(`LoopOrder`). A count of 0 then means that nobody is anywhere. These three hold for
every application with one controlling thread, and for every set of failures.

The others, `JoinedBeforeFreed`, `NoStringDangles` and `StoppedLeavesNothing`, are for
a patient application. Release may come at any time that `settles` leaves it: while
prepareAsync or stop is not answered, in a recording, during a put. `EndInv` has two
halves. Until release has aborted the message queue, every step is one of the
recorder's, and `PatientInv` holds (`Before`). From then on `PatientInv` is false,
since a queued message is never taken; but nothing starts any more (`After`,
`Winding`), the message in hand is the only one that still has an effect, and what
runs, which no stray does, is joined by the stop in hand or by the last reference
(`Joined`). A recorder that is recording when it is released is left out of `Winding`:
it is kept, and its threads with it. `Given` says that the strings that were handed on
are not freed while the recorder is in use. The run `recorder_lifetime` checks the
same properties without `puts_late`, with one frame, of which no second mux thread can
come.

`FrameProofs`: `ClockTypeCorrect`, `ClockInvariant`, and from it
`FilmGoesForward`, `RateIsConstant`, `NeverTooLate` and `KeepsRealTime`. The parts
of `ClockInv` weaken step by step with what has happened: before the first stamp
the clock is as `VEncoder_init` left it (`FreshClock`), the rate is the session's
(`RateKept`), one put is under way (`OnePut`); `Steady`, `Timely` and `Climbing`
say where the last stamp is while a put is between its steps. `RateIsConstant`
also needs that the interval rescaled by `av_rescale` is `Multiple` exactly, and
`KeepsRealTime` that a quotient in `float` is out by at most one part in `Precision`
and its truncation by less than one unit more per frame; that stamps do not go back
(`FilmGoesForward`) needs only that it is not negative when the time is not.

`PicturesComeOutRight`, in the same module, is about pictures of every size and padding.
An index is a row times a width and a column; `Places` says that the division gives
both back, and that the index is in the buffer. From there on `At` hides the products:
each transformation is a lemma on rows and columns, and the flips and the turn of
`RgbaProcess` compose to `Origin`, which undoes them in the opposite order.

`XMQueueProofs`:

* `QueueTypeCorrect`, `ListConsistent` and `QueueImplementsAtomic`, for any number
  of putters and getters and a heap of any finite size. The model has no list, only
  nodes that point to each other: `List` is the sequence of nodes that begins at
  `mFirst` and follows `next` (`IsChain`). The lemmas on chains show that there is at
  most one, and what appending a node, taking the first and a write outside of it do
  to it. `QueueInv` then says that there is one at every step (`HasList`), with
  no node twice; that it and the nodes in the hands of threads share nothing and
  are the whole heap (`Apart`); and where `mLast` and `mNumbers` lag behind it,
  between two lines of a put, a get or a flush (`Linked`). With the mutex free
  nothing lags, which is `Consistent`. For `AtomicSpec` every step is one of the
  atomic queue's, at the line where the list changes or the answer is fixed, or
  changes nothing that queue has; a flush takes effect at its first line.
* `SignalSuffices`, if one thread gets. `SignalDue` says that while the getter sleeps
  although there is an item or an abort, somebody is between what they did and
  their signal; the mutex, in `Exclusive`, keeps everybody else out. With two
  consumers it is false, since `pthread_cond_signal` wakes one.

*Only model-checked*: liveness, which is out of the reach of the prover, as
ENABLED is.

## What is left

* Proofs with more than one thing under way, as `Patient` excludes it. Without
  `puts_late` there may be two mux threads on one file, of which `MediaRecorder` has
  the steps and no theorem says anything but the types.
* More than one controlling thread: a release from two threads, or concurrent with
  prepareAsync, and `native_setup` called twice.

## Not modelled

* The conversion of colours and the NEON copy: arithmetic on pixels without state.
  Paddings are whole pixels.
* ffmpeg's options, and the numbers of the configuration that are handed on to it.
* The audio encoder, which the factory does not have; `audioq` is always empty.
* Functions that nobody calls: `*_waitOnNotify`, `XMThread_start`, `IEncoder_start`,
  `rgba_data_creare`, `rgba_data_fill`.
* What follows a thread that cannot be created or attached to the Java VM: the
  code uses freed memory or a null pointer at once, so there is no next state to
  reason about.
* The marshalling of arguments in the JNI glue, the logging and the build files.
