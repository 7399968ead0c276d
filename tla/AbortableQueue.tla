--------------------------- MODULE AbortableQueue ---------------------------
(***************************************************************************)
(* What RgbaQueue and XMPacketQueue promise: a FIFO queue with an abort    *)
(* flag.  Each call takes effect in one step between its start and its     *)
(* return, and answers as that step says.  VideoEncoder and MediaMuxer     *)
(* take this for granted; XMQueue implements it.                           *)
(***************************************************************************)
EXTENDS Sequences

CONSTANTS
    Threads,
    Ops,      \* Ops[t] is the set of the calls thread t makes
    Items     \* what is put

VARIABLES
    queue,    \* the items put and not yet got, oldest first
    aborted,  \* the abort flag
    op,       \* the call each thread is in
    answer    \* its answer

vars == <<queue, aborted, op, answer>>

Idle    == <<"none">>
Pending == <<"none">>
Done    == <<"done">>
Failed  == <<"failed">>

Init ==
    /\ queue = <<>>
    /\ aborted \in BOOLEAN
    /\ op = [t \in Threads |-> Idle]
    /\ answer = [t \in Threads |-> Pending]

\* Only put has an argument.
Call(t) ==
    /\ op[t] = Idle
    /\ \E name \in Ops[t] :
         \E arg \in IF name = "put" THEN {<<v>> : v \in Items} ELSE {<<>>} :
            op' = [op EXCEPT ![t] = <<name>> \o arg]
    /\ UNCHANGED <<queue, aborted, answer>>

\* The step at which the call of t takes effect.
Effect(t, name, result) ==
    /\ op[t] # Idle
    /\ op[t][1] = name
    /\ answer[t] = Pending
    /\ answer' = [answer EXCEPT ![t] = result]
    /\ UNCHANGED op

Put(t) ==
    /\ Effect(t, "put", Done)
    /\ queue' = Append(queue, op[t][2])
    /\ UNCHANGED aborted

PutFails(t) ==
    /\ Effect(t, "put", Failed)
    /\ UNCHANGED <<queue, aborted>>

\* get gives the oldest item, or fails when the queue is aborted, whatever it
\* holds; it waits otherwise.
Get(t) ==
    /\ ~aborted
    /\ queue # <<>>
    /\ Effect(t, "get", <<"item", Head(queue)>>)
    /\ queue' = Tail(queue)
    /\ UNCHANGED aborted

GetFails(t) ==
    /\ aborted
    /\ Effect(t, "get", Failed)
    /\ UNCHANGED <<queue, aborted>>

Size(t) ==
    /\ Effect(t, "size", <<"size", Len(queue)>>)
    /\ UNCHANGED <<queue, aborted>>

Flush(t) ==
    /\ Effect(t, "flush", Done)
    /\ queue' = <<>>
    /\ UNCHANGED aborted

Abort(t) ==
    /\ Effect(t, "abort", Done)
    /\ aborted' = TRUE
    /\ UNCHANGED queue

Start(t) ==
    /\ Effect(t, "start", Done)
    /\ aborted' = FALSE
    /\ UNCHANGED queue

Notify(t) ==
    /\ Effect(t, "notify", Done)
    /\ UNCHANGED <<queue, aborted>>

Return(t) ==
    /\ answer[t] # Pending
    /\ op' = [op EXCEPT ![t] = Idle]
    /\ answer' = [answer EXCEPT ![t] = Pending]
    /\ UNCHANGED <<queue, aborted>>

Next ==
    \E t \in Threads :
        \/ Call(t) \/ Put(t) \/ PutFails(t) \/ Get(t) \/ GetFails(t) \/ Size(t)
        \/ Flush(t) \/ Abort(t) \/ Start(t) \/ Notify(t) \/ Return(t)

Spec == Init /\ [][Next]_vars
=============================================================================
