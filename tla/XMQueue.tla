------------------------------ MODULE XMQueue ------------------------------
(***************************************************************************)
(* RgbaQueue and XMPacketQueue (xm_rgba_queue.c, xm_packet_queue.c): a     *)
(* linked list of malloc'ed nodes under a mutex, with one condition        *)
(* variable that every put, abort, start and notify signals.  The two are  *)
(* the same code over another payload, except that the packet queue is     *)
(* born aborted (InitAborted) and has notify.                              *)
(*                                                                         *)
(* One step is one lock, one change of a pointer or one unlock, so that    *)
(* what other threads see between them is explored; malloc and free are    *)
(* steps on a heap whose nodes are used again.                             *)
(***************************************************************************)
EXTENDS Naturals, Sequences, FiniteSets, SequencesExt

CONSTANTS
    Threads,
    Ops,          \* Ops[t] is the set of the calls thread t makes
    Nodes,        \* the heap
    Nil,          \* the null pointer
    Free,         \* no thread
    MaxItems,     \* bound on the items ever put
    InitAborted   \* packet_queue_init sets mAbortRequest, rgba_queue_create not

OpNames == {"put", "get", "size", "flush", "abort", "start", "notify"}

ASSUME QueueAssumption ==
    /\ Ops \in [Threads -> SUBSET OpNames]
    /\ IsFiniteSet(Nodes) /\ Nil \notin Nodes
    /\ Free \notin Threads
    /\ MaxItems \in Nat
    /\ InitAborted \in BOOLEAN

VARIABLES
    mFirst, mLast, mNumbers, mAbortRequest,  \* the fields of the queue
    lock,      \* who holds mLock
    waiting,   \* who waits on mCondition
    heap,      \* the nodes malloc'ed
    next,      \* next[n]
    item,      \* the payload of node n
    pc, op, answer,
    node,      \* the local pointer of each thread
    nextItem   \* the next item to put

listVars == <<mFirst, mLast, mNumbers>>
heapVars == <<heap, next, item>>
callVars == <<op, nextItem>>
vars == <<listVars, mAbortRequest, lock, waiting, heapVars, pc, answer, node,
          callVars>>

Idle    == <<"none">>
Pending == <<"none">>
Done    == <<"done">>
Failed  == <<"failed">>

Init ==
    /\ mFirst = Nil /\ mLast = Nil
    /\ mNumbers = 0
    /\ mAbortRequest = InitAborted
    /\ lock = Free
    /\ waiting = {}
    /\ heap = {}
    /\ next = [n \in Nodes |-> Nil]
    /\ item = [n \in Nodes |-> 0]
    /\ pc = [t \in Threads |-> "idle"]
    /\ op = [t \in Threads |-> Idle]
    /\ answer = [t \in Threads |-> Pending]
    /\ node = [t \in Threads |-> Nil]
    /\ nextItem = 1

Go(t, label) == pc' = [pc EXCEPT ![t] = label]
Answer(t, a) == answer' = [answer EXCEPT ![t] = a]
In(t, name) == pc[t] = "enter" /\ op[t][1] = name
Unlock == lock' = Free

\* pthread_cond_signal wakes one waiter, if there is one.
Wake == IF waiting = {} THEN UNCHANGED waiting
                        ELSE \E t \in waiting : waiting' = waiting \ {t}
-----------------------------------------------------------------------------
(* Calls. *)

Call(t) ==
    /\ pc[t] = "idle"
    /\ \E name \in Ops[t] :
         IF name = "put"
         THEN /\ nextItem <= MaxItems
              /\ nextItem' = nextItem + 1
              /\ op' = [op EXCEPT ![t] = <<"put", nextItem>>]
              /\ Go(t, "malloc")
         ELSE /\ op' = [op EXCEPT ![t] = <<name>>]
              /\ Go(t, "lock")
              /\ UNCHANGED nextItem
    /\ UNCHANGED <<listVars, mAbortRequest, lock, waiting, heapVars, answer, node>>

Return(t) ==
    /\ pc[t] = "return"
    /\ Go(t, "idle")
    /\ op' = [op EXCEPT ![t] = Idle]
    /\ Answer(t, Pending)
    /\ UNCHANGED <<listVars, mAbortRequest, lock, waiting, heapVars, node, nextItem>>

\* The mutex is taken by a call that begins, and again by one that was woken.
Acquire(t) ==
    /\ pc[t] = "lock"
    /\ t \notin waiting
    /\ lock = Free
    /\ lock' = t
    /\ Go(t, "enter")
    /\ UNCHANGED <<listVars, mAbortRequest, waiting, heapVars, answer, node, callVars>>

\* pthread_cond_wait may return without a signal.
SpuriousWakeup(t) ==
    /\ t \in waiting
    /\ waiting' = waiting \ {t}
    /\ UNCHANGED <<listVars, mAbortRequest, lock, heapVars, pc, answer, node, callVars>>

\* Mutant: nobody is signalled.
UnlockOnly(t) ==
    /\ pc[t] = "signal"
    /\ Unlock
    /\ Go(t, "return")
    /\ UNCHANGED <<listVars, mAbortRequest, waiting, heapVars, answer, node, callVars>>

\* The end of put, abort, start and notify.
SignalAndUnlock(t) ==
    /\ pc[t] = "signal"
    /\ Wake
    /\ Unlock
    /\ Go(t, "return")
    /\ UNCHANGED <<listVars, mAbortRequest, heapVars, answer, node, callVars>>
-----------------------------------------------------------------------------
(* put: the node is made before the mutex is taken. *)

Malloc(t) ==
    /\ pc[t] = "malloc"
    /\ \E n \in Nodes \ heap :
         /\ heap' = heap \cup {n}
         /\ next' = [next EXCEPT ![n] = Nil]
         /\ item' = [item EXCEPT ![n] = op[t][2]]
         /\ node' = [node EXCEPT ![t] = n]
    /\ Go(t, "lock")
    /\ UNCHANGED <<listVars, mAbortRequest, lock, waiting, answer, callVars>>

MallocFails(t) ==
    /\ pc[t] = "malloc"
    /\ Answer(t, Failed)
    /\ Go(t, "return")
    /\ UNCHANGED <<listVars, mAbortRequest, lock, waiting, heapVars, node, callVars>>

Link(t) ==
    /\ In(t, "put")
    /\ IF mLast = Nil
       THEN mFirst' = node[t] /\ UNCHANGED next
       ELSE next' = [next EXCEPT ![mLast] = node[t]] /\ UNCHANGED mFirst
    /\ Answer(t, Done)
    /\ Go(t, "last")
    /\ UNCHANGED <<mLast, mNumbers, mAbortRequest, lock, waiting, heap, item, node,
                   callVars>>

SetLast(t) ==
    /\ pc[t] = "last"
    /\ mLast' = node[t]
    /\ mNumbers' = mNumbers + 1
    /\ node' = [node EXCEPT ![t] = Nil]
    /\ Go(t, "signal")
    /\ UNCHANGED <<mFirst, mAbortRequest, lock, waiting, heapVars, answer, callVars>>
-----------------------------------------------------------------------------
(* get, with block = true as every caller has it. *)

GetAborted(t) ==
    /\ In(t, "get")
    /\ mAbortRequest
    /\ Answer(t, Failed)
    /\ Unlock
    /\ Go(t, "return")
    /\ UNCHANGED <<listVars, mAbortRequest, waiting, heapVars, node, callVars>>

\* Mutant: an aborted queue still gives its items.
UnlinkAnyway(t) ==
    /\ In(t, "get")
    /\ mFirst # Nil
    /\ mFirst' = next[mFirst]
    /\ node' = [node EXCEPT ![t] = mFirst]
    /\ Answer(t, <<"item", item[mFirst]>>)
    /\ Go(t, "free")
    /\ UNCHANGED <<mLast, mNumbers, mAbortRequest, lock, waiting, heapVars, callVars>>

Unlink(t) ==
    /\ In(t, "get")
    /\ ~mAbortRequest
    /\ mFirst # Nil
    /\ mFirst' = next[mFirst]
    /\ node' = [node EXCEPT ![t] = mFirst]
    /\ Answer(t, <<"item", item[mFirst]>>)
    /\ Go(t, "free")
    /\ UNCHANGED <<mLast, mNumbers, mAbortRequest, lock, waiting, heapVars, callVars>>

\* Mutant: mLast is left pointing to the last node when that is freed.
FreeNodeKeepsLast(t) ==
    /\ pc[t] = "free"
    /\ mNumbers' = mNumbers - 1
    /\ heap' = heap \ {node[t]}
    /\ node' = [node EXCEPT ![t] = Nil]
    /\ Unlock
    /\ Go(t, "return")
    /\ UNCHANGED <<mFirst, mLast, mAbortRequest, waiting, next, item, answer, callVars>>

FreeNode(t) ==
    /\ pc[t] = "free"
    /\ mLast' = IF mFirst = Nil THEN Nil ELSE mLast
    /\ mNumbers' = mNumbers - 1
    /\ heap' = heap \ {node[t]}
    /\ node' = [node EXCEPT ![t] = Nil]
    /\ Unlock
    /\ Go(t, "return")
    /\ UNCHANGED <<mFirst, mAbortRequest, waiting, next, item, answer, callVars>>

Wait(t) ==
    /\ In(t, "get")
    /\ ~mAbortRequest
    /\ mFirst = Nil
    /\ waiting' = waiting \cup {t}
    /\ Unlock
    /\ Go(t, "lock")
    /\ UNCHANGED <<listVars, mAbortRequest, heapVars, answer, node, callVars>>
-----------------------------------------------------------------------------
(* The other calls. *)

Size(t) ==
    /\ In(t, "size")
    /\ Answer(t, <<"size", mNumbers>>)
    /\ Unlock
    /\ Go(t, "return")
    /\ UNCHANGED <<listVars, mAbortRequest, waiting, heapVars, node, callVars>>

FlushBegin(t) ==
    /\ In(t, "flush")
    /\ node' = [node EXCEPT ![t] = mFirst]
    /\ Answer(t, Done)
    /\ Go(t, "flush")
    /\ UNCHANGED <<listVars, mAbortRequest, lock, waiting, heapVars, callVars>>

\* next is read before the node is freed, and mFirst dangles meanwhile.
FlushNode(t) ==
    /\ pc[t] = "flush"
    /\ node[t] # Nil
    /\ heap' = heap \ {node[t]}
    /\ node' = [node EXCEPT ![t] = next[node[t]]]
    /\ UNCHANGED <<listVars, mAbortRequest, lock, waiting, next, item, pc, answer,
                   callVars>>

\* Mutant: flush leaves the count as it was.
FlushEndKeepsCount(t) ==
    /\ pc[t] = "flush"
    /\ node[t] = Nil
    /\ mFirst' = Nil /\ mLast' = Nil
    /\ Unlock
    /\ Go(t, "return")
    /\ UNCHANGED <<mNumbers, mAbortRequest, waiting, heapVars, answer, node, callVars>>

FlushEnd(t) ==
    /\ pc[t] = "flush"
    /\ node[t] = Nil
    /\ mFirst' = Nil /\ mLast' = Nil
    /\ mNumbers' = 0
    /\ Unlock
    /\ Go(t, "return")
    /\ UNCHANGED <<mAbortRequest, waiting, heapVars, answer, node, callVars>>

Abort(t) ==
    /\ In(t, "abort")
    /\ mAbortRequest' = TRUE
    /\ Answer(t, Done)
    /\ Go(t, "signal")
    /\ UNCHANGED <<listVars, lock, waiting, heapVars, node, callVars>>

Start(t) ==
    /\ In(t, "start")
    /\ mAbortRequest' = FALSE
    /\ Answer(t, Done)
    /\ Go(t, "signal")
    /\ UNCHANGED <<listVars, lock, waiting, heapVars, node, callVars>>

Notify(t) ==
    /\ In(t, "notify")
    /\ Answer(t, Done)
    /\ Go(t, "signal")
    /\ UNCHANGED <<listVars, mAbortRequest, lock, waiting, heapVars, node, callVars>>

Step(t) ==
    \/ Call(t) \/ Return(t) \/ Acquire(t) \/ SpuriousWakeup(t) \/ SignalAndUnlock(t)
    \/ Malloc(t) \/ MallocFails(t) \/ Link(t) \/ SetLast(t)
    \/ GetAborted(t) \/ Unlink(t) \/ FreeNode(t) \/ Wait(t)
    \/ Size(t) \/ FlushBegin(t) \/ FlushNode(t) \/ FlushEnd(t)
    \/ Abort(t) \/ Start(t) \/ Notify(t)

Next == \E t \in Threads : Step(t)

Spec == Init /\ [][Next]_vars
-----------------------------------------------------------------------------
(* Properties. *)

\* The i-th node of a list, or Nil beyond its end.
At(list, i) == IF i \in 1..Len(list) THEN list[i] ELSE Nil

\* The list that begins at a node and ends where the links do.
IsChain(first, links, list) ==
    /\ first = At(list, 1)
    /\ \A i \in 1..Len(list) : links[list[i]] = At(list, i + 1)

\* The nodes from mFirst on; none once a flush has begun.
List ==
    IF \E t \in Threads : pc[t] = "flush" THEN <<>>
    ELSE CHOOSE list \in SeqOf(Nodes, Cardinality(Nodes)) : IsChain(mFirst, next, list)

ItemList == [i \in 1..Len(List) |-> item[List[i]]]

\* The fields have the types of the code's, and mNumbers stays within the heap.
TypeOK ==
    /\ {mFirst, mLast} \subseteq Nodes \cup {Nil}
    /\ mNumbers \in 0..Cardinality(Nodes)
    /\ mAbortRequest \in BOOLEAN
    /\ lock \in Threads \cup {Free}
    /\ waiting \subseteq Threads
    /\ heap \subseteq Nodes
    /\ next \in [Nodes -> Nodes \cup {Nil}]
    /\ item \in [Nodes -> 0..MaxItems]
    /\ pc \in [Threads -> {"idle", "malloc", "lock", "enter", "last", "signal",
                           "free", "flush", "return"}]
    /\ node \in [Threads -> Nodes \cup {Nil}]
    /\ nextItem \in 1..MaxItems + 1

\* Whenever nobody is inside, the fields agree with the list, every node of the
\* list is allocated, and every other allocated node belongs to one thread that
\* is putting: nothing leaks, dangles or is freed twice.
Consistent ==
    lock = Free =>
        /\ mNumbers = Len(List)
        /\ mLast = At(List, Len(List))
        /\ LET listed == {List[i] : i \in 1..Len(List)}
               held == {node[t] : t \in Threads} \ {Nil}
           IN  heap = listed \cup held /\ listed \cap held = {}

\* The getter is not left asleep while there is an item for it or the queue is
\* aborted: signal, which wakes one, is enough for the one thread that gets.
NoMissedSignal ==
    lock = Free /\ (mFirst # Nil \/ mAbortRequest) => waiting = {}

Atomic == INSTANCE AbortableQueue
            WITH queue <- ItemList, aborted <- mAbortRequest, Items <- 1..MaxItems

\* The linked list implements the queue whose calls are atomic: every call takes
\* effect in one step, get is first in first out and fails exactly when the
\* queue is aborted (xm_rgba_queue.c:24-142, xm_packet_queue.c:19-155).
AtomicSpec == Atomic!Spec
=============================================================================
