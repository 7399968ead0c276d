--------------------------- MODULE XMQueueProofs ---------------------------
(***************************************************************************)
(* Three theorems about the linked list, for any threads, heap and items:  *)
(* its pointers, count and nodes agree, so that nothing leaks, dangles or  *)
(* is freed twice; it implements the queue whose calls are atomic; and     *)
(* pthread_cond_signal, which wakes one thread, is enough for one getter.  *)
(***************************************************************************)
EXTENDS XMQueue, QueueLemmas, FiniteSetTheorems, TLAPS

USE QueueAssumption
-----------------------------------------------------------------------------
(* The list.  IsChain defines it by its links, from which it is unique.    *)

\* A list is empty exactly when it begins nowhere.
LEMMA ChainFirst ==
    ASSUME NEW first, NEW links, NEW s \in Seq(Nodes), IsChain(first, links, s)
    PROVE  /\ first = Nil <=> s = <<>>
           /\ s # <<>> => first = Head(s) /\ first \in Range(s) /\ first \in Nodes
<1>1. CASE s = <<>>
    BY <1>1 DEF IsChain, At
<1>2. CASE s # <<>>
    <2>1. Len(s) \in Nat \ {0} /\ Head(s) = s[1] /\ DOMAIN s = 1..Len(s)
        BY <1>2
    <2>2. first = s[1]
        BY <2>1 DEF IsChain, At
    <2> QED BY <1>2, <2>1, <2>2 DEF Range
<1> QED BY <1>1, <1>2

\* Without its first node it begins at the second.
LEMMA ChainTail ==
    ASSUME NEW first, NEW links, NEW s \in Seq(Nodes), IsChain(first, links, s),
           s # <<>>
    PROVE  IsChain(links[first], links, Tail(s))
<1> DEFINE r == Tail(s)
<1>1. /\ Len(s) \in Nat \ {0} /\ Len(r) = Len(s) - 1
      /\ \A i \in 1..Len(r) : r[i] = s[i + 1]
    OBVIOUS
<1>2. first = s[1]
    BY <1>1 DEF IsChain, At
<1>3. \A i \in Nat \ {0} : At(r, i) = At(s, i + 1)
    BY <1>1 DEF At
<1>4. links[first] = At(r, 1)
    <2>1. 1 \in 1..Len(s) /\ 1 \in Nat \ {0} /\ 1 + 1 = 2
        BY <1>1
    <2>2. links[s[1]] = At(s, 2)
        BY <2>1 DEF IsChain
    <2> QED BY <1>2, <1>3, <2>1, <2>2
<1>5. ASSUME NEW i \in 1..Len(r) PROVE links[r[i]] = At(r, i + 1)
    <2>1. i + 1 \in 1..Len(s) /\ i + 1 \in Nat \ {0} /\ r[i] = s[i + 1]
        BY <1>1
    <2>2. links[s[i + 1]] = At(s, (i + 1) + 1)
        BY <2>1 DEF IsChain
    <2> QED BY <1>3, <2>1, <2>2
<1> HIDE DEF r
<1>6. IsChain(links[first], links, r)
    BY <1>4, <1>5 DEF IsChain
<1> QED BY <1>6 DEF r

\* A node that ends is a list of its own.
LEMMA ChainSingle ==
    ASSUME NEW links, NEW n \in Nodes, links[n] = Nil
    PROVE  IsChain(n, links, Append(<<>>, n))
    BY DEF IsChain, At

\* A node that ends is linked behind the last one.
LEMMA ChainAppend ==
    ASSUME NEW first, NEW links \in [Nodes -> Nodes \cup {Nil}],
           NEW s \in Seq(Nodes), IsChain(first, links, s), s # <<>>, IsInjective(s),
           NEW n \in Nodes, n \notin Range(s), links[n] = Nil
    PROVE  IsChain(first, [links EXCEPT ![s[Len(s)]] = n], Append(s, n))
<1> DEFINE r == Append(s, n)
           l == [links EXCEPT ![s[Len(s)]] = n]
<1>1. /\ Len(s) \in Nat \ {0} /\ Len(r) = Len(s) + 1 /\ DOMAIN s = 1..Len(s)
      /\ \A i \in 1..Len(s) : r[i] = s[i] /\ s[i] \in Nodes
      /\ r[Len(s) + 1] = n
    OBVIOUS
<1>2. \A i, j \in 1..Len(s) : s[i] = s[j] => i = j
    BY <1>1 DEF IsInjective
<1>3. \A i \in 1..Len(s) : s[i] # n
    BY <1>1 DEF Range
<1>4. first = At(r, 1)
    BY <1>1 DEF IsChain, At
<1>5. ASSUME NEW i \in 1..Len(r) PROVE l[r[i]] = At(r, i + 1)
    <2>1. CASE i < Len(s)
        <3>1. i \in 1..Len(s) /\ i + 1 \in 1..Len(s) /\ Len(s) \in 1..Len(s)
              /\ i + 1 \in 1..Len(r)
            BY <1>1, <2>1
        <3>2. r[i] = s[i] /\ s[i] # s[Len(s)] /\ s[i] \in Nodes
            BY <1>1, <1>2, <2>1, <3>1
        <3>3. l[r[i]] = links[s[i]]
            BY <3>2
        <3>4. links[s[i]] = s[i + 1]
            BY <3>1 DEF IsChain, At
        <3> QED BY <1>1, <3>1, <3>3, <3>4 DEF At
    <2>2. CASE i = Len(s)
        <3>1. r[i] = s[Len(s)] /\ s[Len(s)] \in Nodes /\ i + 1 \in 1..Len(r)
            BY <1>1, <2>2
        <3>2. l[r[i]] = n
            BY <3>1
        <3> QED BY <1>1, <2>2, <3>1, <3>2 DEF At
    <2>3. CASE i = Len(s) + 1
        <3>1. r[i] = n /\ s[Len(s)] # n /\ i + 1 \notin 1..Len(r)
            BY <1>1, <1>3, <2>3
        <3>2. l[r[i]] = Nil
            BY <3>1
        <3> QED BY <3>1, <3>2 DEF At
    <2>4. i \in 1..Len(s) + 1 /\ Len(s) \in Nat
        BY <1>1
    <2>5. i < Len(s) \/ i = Len(s) \/ i = Len(s) + 1
        BY <2>4
    <2> QED BY <2>1, <2>2, <2>3, <2>5
<1> HIDE DEF r, l
<1>6. IsChain(first, l, r)
    BY <1>4, <1>5 DEF IsChain
<1> QED BY <1>6 DEF r, l

\* Links of other nodes do not matter.
LEMMA ChainFrame ==
    ASSUME NEW first, NEW links, NEW other, NEW s \in Seq(Nodes),
           IsChain(first, links, s), \A n \in Range(s) : other[n] = links[n]
    PROVE  IsChain(first, other, s)
<1>1. DOMAIN s = 1..Len(s)
    OBVIOUS
<1> QED BY <1>1 DEF IsChain, Range

\* The links determine the list: the first place where two differ has none
\* before it to tell them apart.
LEMMA ChainUnique ==
    ASSUME NEW first, NEW links, NEW s \in Seq(Nodes), NEW r \in Seq(Nodes),
           IsChain(first, links, s), IsChain(first, links, r)
    PROVE  s = r
<1> DEFINE D == {i \in Nat : i # 0 /\ At(s, i) # At(r, i)}
<1>1. Len(s) \in Nat /\ Len(r) \in Nat
    OBVIOUS
<1>2. D = {}
    <2> SUFFICES ASSUME D # {} PROVE FALSE
        OBVIOUS
    <2>1. PICK x \in D : \A y \in D : ~(<<y, x>> \in OpToRel(<, Nat))
        <3> HIDE DEF D
        <3>1. D \subseteq Nat
            BY DEF D
        <3> QED BY <3>1, NatLessThanWellFounded, WFMin
    <2>2. x \in Nat /\ x # 0 /\ At(s, x) # At(r, x)
        OBVIOUS
    <2>3. x # 1
        BY <2>2 DEF IsChain
    <2>4. x - 1 \in Nat /\ x - 1 # 0 /\ (x - 1) + 1 = x
        BY <2>2, <2>3
    <2>5. At(s, x - 1) = At(r, x - 1)
        <3>1. <<x - 1, x>> \in OpToRel(<, Nat)
            BY <2>2, <2>4 DEF OpToRel
        <3>2. x - 1 \notin D
            BY <2>1, <3>1
        <3> QED BY <2>4, <3>2
    <2>6. x - 1 \in 1..Len(s) <=> x - 1 \in 1..Len(r)
        BY <1>1, <2>5 DEF At
    <2>7. CASE x - 1 \in 1..Len(s)
        <3>1. s[x - 1] = r[x - 1]
            BY <2>5, <2>6, <2>7 DEF At
        <3>2. links[s[x - 1]] = At(s, x) /\ links[r[x - 1]] = At(r, x)
            BY <2>4, <2>6, <2>7 DEF IsChain
        <3> QED BY <2>2, <3>1, <3>2
    <2>8. CASE x - 1 \notin 1..Len(s)
        BY <1>1, <2>2, <2>4, <2>6, <2>8 DEF At
    <2> QED BY <2>7, <2>8
<1>3. \A i \in Nat \ {0} : At(s, i) = At(r, i)
    BY <1>2
<1>4. Len(s) = Len(r)
    <2>1. \A i \in Nat \ {0} : i \in 1..Len(s) <=> i \in 1..Len(r)
        BY <1>1, <1>3 DEF At
    <2>2. Len(s) # 0 => Len(s) \in 1..Len(r)
        BY <1>1, <2>1
    <2>3. Len(r) # 0 => Len(r) \in 1..Len(s)
        BY <1>1, <2>1
    <2> QED BY <1>1, <2>2, <2>3
<1>5. \A i \in 1..Len(s) : s[i] = r[i]
    BY <1>1, <1>3, <1>4 DEF At
<1> QED BY <1>4, <1>5

\* Without a node twice it is no longer than the heap.
LEMMA ListBounded ==
    ASSUME NEW s \in Seq(Nodes), IsInjective(s)
    PROVE  /\ Cardinality(Nodes) \in Nat
           /\ Len(s) <= Cardinality(Nodes)
           /\ s \in SeqOf(Nodes, Cardinality(Nodes))
<1>1. Len(s) \in Nat /\ DOMAIN s = 1..Len(s) /\ s \in [1..Len(s) -> Nodes]
    OBVIOUS
<1>2. Cardinality(Nodes) \in Nat
    BY FS_CardinalityType
<1>3. s \in Injection(1..Len(s), Nodes)
    BY <1>1 DEF IsInjective, Injection
<1>4. Cardinality(1..Len(s)) = Len(s)
    <2> DEFINE n == Len(s)
    <2>1. n \in Int /\ 1 \in Int
        BY <1>1
    <2> HIDE DEF n
    <2>2. Cardinality(1..n) = IF 1 > n THEN 0 ELSE n - 1 + 1
        BY <2>1, FS_Interval
    <2> QED BY <1>1, <2>2 DEF n
<1>5. Cardinality(1..Len(s)) <= Cardinality(Nodes)
    BY <1>3, FS_Injection
<1>6. Len(s) <= Cardinality(Nodes)
    BY <1>4, <1>5
<1>7. Len(s) \in 0..Cardinality(Nodes)
    BY <1>1, <1>2, <1>6
<1> QED BY <1>1, <1>2, <1>6, <1>7 DEF SeqOf

\* What List chooses, when there is a list.
LEMMA ListChosen ==
    ASSUME NEW first, NEW links, NEW s \in Seq(Nodes), IsInjective(s),
           IsChain(first, links, s)
    PROVE  (CHOOSE list \in SeqOf(Nodes, Cardinality(Nodes)) :
                IsChain(first, links, list)) = s
<1> DEFINE r == CHOOSE list \in SeqOf(Nodes, Cardinality(Nodes)) :
                    IsChain(first, links, list)
<1>1. s \in SeqOf(Nodes, Cardinality(Nodes))
    BY ListBounded
<1>2. r \in SeqOf(Nodes, Cardinality(Nodes)) /\ IsChain(first, links, r)
    BY <1>1
<1> HIDE DEF r
<1>3. r \in Seq(Nodes)
    <2>1. PICK m \in 0..Cardinality(Nodes) : r \in [1..m -> Nodes]
        BY <1>2 DEF SeqOf
    <2>2. m \in Nat
        BY <2>1, FS_CardinalityType
    <2> QED BY <2>1, <2>2
<1>4. r = s
    BY <1>2, <1>3, ChainUnique
<1> QED BY <1>4 DEF r
-----------------------------------------------------------------------------
Pcs == {"idle", "malloc", "lock", "enter", "last", "signal", "free", "flush",
        "return"}
Holding == {"enter", "last", "signal", "free", "flush"}
Signals == {"last", "signal"}

\* The mutex is held between Acquire and the unlock, by one thread.
Exclusive ==
    /\ pc \in [Threads -> Pcs]
    /\ \A t \in Threads : pc[t] \in Holding <=> lock = t

-----------------------------------------------------------------------------
(* The invariant of the linked list.                                       *)

\* A node of the thread's own: made by put and not yet linked, or unlinked by
\* get and not yet freed.
Alone(t) == pc[t] \in {"lock", "enter", "free"} /\ node[t] # Nil
IsPut(t) == op[t][1] = "put"

\* What a thread is doing is told by its call, its answer and its pointer.
Progress(t) ==
    /\ pc[t] = "idle" => op[t] = Idle
    /\ pc[t] = "malloc" => IsPut(t)
    /\ pc[t] \in {"idle", "malloc", "lock", "enter"} <=> answer[t] = Pending
    /\ pc[t] \in {"idle", "malloc", "signal", "return"} => node[t] = Nil
    /\ pc[t] \in {"lock", "enter"} => (node[t] # Nil <=> IsPut(t))
    /\ pc[t] \in {"last", "free"} => node[t] # Nil

CallNames == OpNames \ {"put"}
Calls ==
    /\ op \in [Threads -> {Idle} \cup {<<n>> : n \in CallNames}
                          \cup {<<"put", i>> : i \in 1..MaxItems}]
    /\ DOMAIN answer = Threads
    /\ \A t \in Threads : Progress(t)

\* The nodes linked, the list s, and those the threads hold: no node twice, and
\* what put holds carries its item and ends the list once it is linked.
Apart(s) ==
    /\ heap = Range(s) \cup {node[t] : t \in {u \in Threads : Alone(u)}}
    /\ \A t \in Threads : Alone(t) => node[t] \notin Range(s)
    /\ \A t, u \in Threads : Alone(t) /\ Alone(u) /\ node[t] = node[u] => t = u
    /\ \A t \in Threads : Alone(t) /\ pc[t] # "free"
                              => item[node[t]] = op[t][2] /\ next[node[t]] = Nil

\* The list begins at mFirst, or where a flush has come to; mLast and mNumbers
\* follow it a step behind.
Linked(s) ==
    /\ (\A t \in Threads : pc[t] # "flush") => IsChain(mFirst, next, s)
    /\ \A t \in Threads : pc[t] = "flush" => IsChain(node[t], next, s)
    /\ (\A t \in Threads : pc[t] \notin {"last", "free", "flush"})
            => mNumbers = Len(s) /\ mLast = At(s, Len(s))
    /\ \A t \in Threads : pc[t] = "last"
            => s # <<>> /\ node[t] = s[Len(s)] /\ mNumbers = Len(s) - 1
    /\ \A t \in Threads : pc[t] = "free"
            => mNumbers = Len(s) + 1 /\ (s # <<>> => mLast = s[Len(s)])

\* There is such a list, and no node is in it twice.
HasList == \E s \in Seq(Nodes) : IsInjective(s) /\ Apart(s) /\ Linked(s)

QueueInv == TypeOK /\ Exclusive /\ Calls /\ HasList

LEMMA QueueInit == Init => QueueInv
<1> SUFFICES ASSUME Init PROVE QueueInv
    OBVIOUS
<1>1. TypeOK
    <2>1. Cardinality(Nodes) \in Nat
        BY FS_CardinalityType
    <2> QED BY <2>1 DEF Init, TypeOK
<1>2. Exclusive
    BY DEF Init, Exclusive, Pcs, Holding
<1>3. Calls
    BY DEF Init, Calls, Progress, IsPut, Idle, Pending
<1>4. \A t \in Threads : ~Alone(t) /\ pc[t] = "idle"
    BY DEF Init, Alone
<1>5. HasList
    <2>1. <<>> \in Seq(Nodes) /\ IsInjective(<<>>) /\ Range(<<>>) = {} /\ Len(<<>>) = 0
        BY RangeEmpty, InjectiveEmpty
    <2>2. Apart(<<>>)
        BY <1>4, <2>1 DEF Apart, Init
    <2>3. Linked(<<>>)
        BY <1>4, <2>1 DEF Linked, Init, IsChain, At
    <2> QED BY <2>1, <2>2, <2>3 DEF HasList
<1> QED BY <1>1, <1>2, <1>3, <1>5 DEF QueueInv

\* A step of one thread leaves the others where they are.
Local(t) ==
    /\ pc' \in [Threads -> Pcs]
    /\ DOMAIN answer' = Threads
    /\ \A u \in Threads \ {t} : UNCHANGED <<pc[u], op[u], answer[u], node[u]>>

LEMMA StepLocal ==
    ASSUME QueueInv, NEW t \in Threads, Step(t)
    PROVE  Local(t)
<1> USE DEF Go, Answer, listVars, heapVars, callVars
<1>1. /\ pc \in [Threads -> Pcs] /\ DOMAIN answer = Threads
      /\ DOMAIN op = Threads /\ DOMAIN node = Threads
    BY DEF QueueInv, Exclusive, Calls, TypeOK
<1> USE <1>1 DEF Local, Pcs
<1>2. CASE Call(t) \/ Return(t) \/ Acquire(t) \/ SpuriousWakeup(t) \/ SignalAndUnlock(t)
    BY <1>2 DEF Call, Return, Acquire, SpuriousWakeup, SignalAndUnlock
<1>3. CASE Malloc(t) \/ MallocFails(t) \/ Link(t) \/ SetLast(t)
    BY <1>3 DEF Malloc, MallocFails, Link, SetLast
<1>4. CASE GetAborted(t) \/ Unlink(t) \/ FreeNode(t) \/ Wait(t) \/ Size(t)
    BY <1>4 DEF GetAborted, Unlink, FreeNode, Wait, Size
<1>5. CASE FlushBegin(t) \/ FlushNode(t) \/ FlushEnd(t) \/ Abort(t) \/ Start(t) \/ Notify(t)
    BY <1>5 DEF FlushBegin, FlushNode, FlushEnd, Abort, Start, Notify
<1> QED BY <1>2, <1>3, <1>4, <1>5 DEF Step

LEMMA ExclusiveStep ==
    ASSUME QueueInv, NEW t \in Threads, Step(t)
    PROVE  Exclusive'
<1>1. Local(t) /\ Exclusive
    BY StepLocal DEF QueueInv
<1>2. \/ lock' = lock /\ (pc[t] \in Holding <=> pc'[t] \in Holding)
      \/ lock = Free /\ lock' = t /\ pc'[t] \in Holding
      \/ lock = t /\ lock' = Free /\ pc'[t] \notin Holding
    <2> USE <1>1 DEF Go, Unlock, In, Exclusive, Holding, Pcs
    <2>1. CASE Call(t) \/ Return(t) \/ Acquire(t) \/ SpuriousWakeup(t) \/ SignalAndUnlock(t)
        BY <2>1 DEF Call, Return, Acquire, SpuriousWakeup, SignalAndUnlock
    <2>2. CASE Malloc(t) \/ MallocFails(t) \/ Link(t) \/ SetLast(t)
        BY <2>2 DEF Malloc, MallocFails, Link, SetLast
    <2>3. CASE GetAborted(t) \/ Unlink(t) \/ FreeNode(t) \/ Wait(t) \/ Size(t)
        BY <2>3 DEF GetAborted, Unlink, FreeNode, Wait, Size
    <2>4. CASE FlushBegin(t) \/ FlushNode(t) \/ FlushEnd(t) \/ Abort(t) \/ Start(t) \/ Notify(t)
        BY <2>4 DEF FlushBegin, FlushNode, FlushEnd, Abort, Start, Notify
    <2> QED BY <2>1, <2>2, <2>3, <2>4 DEF Step
<1> QED BY <1>1, <1>2 DEF Local, Exclusive

LEMMA CallsStep ==
    ASSUME QueueInv, NEW t \in Threads, Step(t)
    PROVE  Calls'
<1>1. Local(t) /\ Calls /\ Progress(t) /\ pc \in [Threads -> Pcs]
    BY StepLocal DEF QueueInv, Calls, Exclusive
<1>2. \A u \in Threads \ {t} : Progress(u)'
    BY <1>1 DEF Local, Calls, Progress, IsPut
<1>3. op' \in [Threads -> {Idle} \cup {<<n>> : n \in CallNames}
                          \cup {<<"put", i>> : i \in 1..MaxItems}]
      /\ Progress(t)'
    <2> DEFINE Ops1 == {Idle} \cup {<<n>> : n \in CallNames}
                       \cup {<<"put", i>> : i \in 1..MaxItems}
    <2>1. op \in [Threads -> Ops1] /\ DOMAIN answer = Threads /\ pc \in [Threads -> Pcs]
          /\ node \in [Threads -> Nodes \cup {Nil}] /\ nextItem \in Nat /\ nextItem # 0
        BY <1>1 DEF Calls, QueueInv, TypeOK
    <2>2. CASE Call(t)
        <3>1. PICK name \in Ops[t] : 
                 IF name = "put"
                 THEN /\ nextItem <= MaxItems
                      /\ op' = [op EXCEPT ![t] = <<"put", nextItem>>]
                      /\ Go(t, "malloc")
                 ELSE /\ op' = [op EXCEPT ![t] = <<name>>]
                      /\ Go(t, "lock")
            BY <2>2 DEF Call
        <3>2. name \in OpNames
            OBVIOUS
        <3>3. UNCHANGED <<answer, node>> /\ pc[t] = "idle"
            BY <2>2 DEF Call
        <3>4. CASE name = "put"
            <4>1. op' \in [Threads -> Ops1] /\ op'[t][1] = "put"
                BY <2>1, <3>1, <3>4
            <4>2. pc'[t] = "malloc"
                BY <2>1, <3>1, <3>4 DEF Go
            <4>3. Progress(t)'
                BY <1>1, <3>3, <4>1, <4>2 DEF Progress, IsPut
            <4> QED BY <4>1, <4>3
        <3>5. CASE name # "put"
            <4>1. name \in CallNames
                BY <3>2, <3>5 DEF CallNames
            <4>2. op' \in [Threads -> Ops1] /\ op'[t][1] # "put"
                BY <2>1, <3>1, <3>5, <4>1
            <4>3. pc'[t] = "lock"
                BY <2>1, <3>1, <3>5 DEF Go
            <4>4. Progress(t)'
                BY <1>1, <3>3, <4>2, <4>3 DEF Progress, IsPut
            <4> QED BY <4>2, <4>4
        <3> QED BY <3>4, <3>5
    <2> HIDE DEF Ops1
    <2>3. CASE Return(t)
        <3>1. op' \in [Threads -> Ops1] /\ op'[t] = Idle
            BY <2>1, <2>3 DEF Return, Ops1
        <3> QED BY <1>1, <2>1, <2>3, <3>1 DEF Return, Progress, IsPut, Go, Answer, Ops1
    <2>4. CASE ~Call(t) /\ ~Return(t)
        <3>1. op' = op
            BY <2>4 DEF Step, Acquire, SpuriousWakeup, SignalAndUnlock, Malloc, MallocFails,
               Link, SetLast, GetAborted, Unlink, FreeNode, Wait, Size, FlushBegin,
               FlushNode, FlushEnd, Abort, Start, Notify, callVars
        <3>2. Progress(t)'
            <4> USE <1>1, <2>1, <3>1 DEF Progress, IsPut, Go, Answer, In, Pending, Done,
                Failed, listVars, heapVars, callVars
            <4>1. CASE Acquire(t) \/ SpuriousWakeup(t) \/ SignalAndUnlock(t)
                BY <4>1 DEF Acquire, SpuriousWakeup, SignalAndUnlock
            <4>2. CASE Malloc(t) \/ MallocFails(t)
                BY <4>2 DEF Malloc, MallocFails
            <4>3. CASE Link(t) \/ SetLast(t)
                BY <4>3 DEF Link, SetLast
            <4>4. CASE GetAborted(t) \/ Unlink(t)
                BY <4>4 DEF GetAborted, Unlink
            <4>5. CASE FreeNode(t) \/ Wait(t) \/ Size(t)
                BY <4>5 DEF FreeNode, Wait, Size
            <4>6. CASE FlushBegin(t) \/ FlushNode(t) \/ FlushEnd(t)
                BY <4>6 DEF FlushBegin, FlushNode, FlushEnd
            <4>7. CASE Abort(t) \/ Start(t) \/ Notify(t)
                BY <4>7 DEF Abort, Start, Notify
            <4> QED BY <2>4, <4>1, <4>2, <4>3, <4>4, <4>5, <4>6, <4>7 DEF Step
        <3> QED BY <2>1, <3>1, <3>2 DEF Ops1
    <2> QED BY <2>2, <2>3, <2>4 DEF Ops1
<1> QED BY <1>1, <1>2, <1>3 DEF Calls, Local

\* What a list is.
IsList(s) == s \in Seq(Nodes) /\ IsInjective(s) /\ Apart(s) /\ Linked(s)

\* A thread with the mutex is alone inside.
LEMMA Inside ==
    ASSUME QueueInv, NEW t \in Threads, pc[t] \in Holding, NEW u \in Threads \ {t}
    PROVE  pc[u] \notin Holding
    BY DEF QueueInv, Exclusive

\* The steps that leave the list, the heap and the threads' pointers alone.
Quiet(t) ==
    \/ Call(t) \/ Return(t) \/ Acquire(t) \/ SignalAndUnlock(t) \/ MallocFails(t)
    \/ GetAborted(t) \/ Wait(t) \/ Size(t)
    \/ Abort(t) \/ Start(t) \/ Notify(t)

LEMMA WokenStep ==
    ASSUME QueueInv, NEW s, IsList(s),
           UNCHANGED <<listVars, heapVars, node, pc, op>>
    PROVE  IsList(s)'
    BY DEF IsList, Apart, Alone, Linked, listVars, heapVars

LEMMA QuietStep ==
    ASSUME QueueInv, NEW s, IsList(s), NEW t \in Threads, Quiet(t)
    PROVE  IsList(s)' /\ UNCHANGED <<listVars, heapVars>>
           /\ pc[t] # "flush" /\ pc'[t] # "flush"
<1>1. Local(t) /\ Progress(t) /\ Calls /\ pc \in [Threads -> Pcs]
    BY StepLocal DEF QueueInv, Calls, Exclusive, Step, Quiet
<1>2. UNCHANGED <<listVars, heapVars, node>>
    BY DEF Quiet, Call, Return, Acquire, SignalAndUnlock, MallocFails, GetAborted,
       Wait, Size, Abort, Start, Notify
<1>3. /\ pc[t] \notin {"last", "free", "flush"}
      /\ pc'[t] \notin {"last", "free", "flush"}
      /\ Alone(t)' <=> Alone(t)
      /\ Alone(t) => op'[t] = op[t]
    <2> USE <1>1, <1>2 DEF Go, In, Alone, Progress, IsPut, listVars, heapVars, callVars
    <2>1. CASE Call(t) \/ Return(t)
        BY <2>1 DEF Call, Return
    <2>2. CASE Acquire(t)
        BY <2>2 DEF Acquire
    <2>3. CASE SignalAndUnlock(t) \/ MallocFails(t)
        BY <2>3 DEF SignalAndUnlock, MallocFails
    <2>4. CASE GetAborted(t) \/ Wait(t) \/ Size(t)
        BY <2>4 DEF GetAborted, Wait, Size
    <2>5. CASE Abort(t) \/ Start(t) \/ Notify(t)
        BY <2>5 DEF Abort, Start, Notify
    <2> QED BY <2>1, <2>2, <2>3, <2>4, <2>5 DEF Quiet
<1>4. \A u \in Threads \ {t} : pc'[u] = pc[u] /\ op'[u] = op[u] /\ (Alone(u)' <=> Alone(u))
    BY <1>1, <1>2 DEF Local, Alone
<1>5. Apart(s)'
    BY <1>2, <1>3, <1>4 DEF IsList, Apart, Alone, heapVars
<1>6. Linked(s)'
    BY <1>2, <1>3, <1>4 DEF IsList, Linked, listVars, heapVars
<1> QED BY <1>2, <1>3, <1>5, <1>6 DEF IsList

LEMMA MallocStep ==
    ASSUME QueueInv, NEW s, IsList(s), NEW t \in Threads, Malloc(t)
    PROVE  IsList(s)' /\ UNCHANGED listVars /\ (\A n \in Range(s) : item'[n] = item[n])
<1>1. Local(t) /\ Progress(t) /\ pc \in [Threads -> Pcs]
    BY StepLocal DEF QueueInv, Calls, Exclusive, Step
<1>2. PICK n \in Nodes \ heap :
         /\ heap' = heap \cup {n}
         /\ next' = [next EXCEPT ![n] = Nil]
         /\ item' = [item EXCEPT ![n] = op[t][2]]
         /\ node' = [node EXCEPT ![t] = n]
    BY DEF Malloc
<1>3. /\ pc[t] = "malloc" /\ pc'[t] = "lock" /\ node'[t] = n /\ op'[t] = op[t]
      /\ UNCHANGED listVars
      /\ next'[n] = Nil /\ item'[n] = op[t][2]
      /\ \A m \in Nodes \ {n} : next'[m] = next[m] /\ item'[m] = item[m]
    BY <1>1, <1>2 DEF Malloc, Go, QueueInv, TypeOK, callVars
<1>4. n # Nil /\ Alone(t)' /\ ~Alone(t)
    BY <1>3 DEF Alone
<1>5. \A u \in Threads \ {t} : pc'[u] = pc[u] /\ op'[u] = op[u] /\ node'[u] = node[u]
                               /\ (Alone(u)' <=> Alone(u))
    BY <1>1 DEF Local, Alone
<1>6. /\ \A u \in Threads : Alone(u) => node[u] \in heap
      /\ Range(s) \subseteq heap
      /\ heap \subseteq Nodes
    BY DEF IsList, Apart, QueueInv, TypeOK
<1>7. Apart(s)'
    <2>1. heap' = Range(s) \cup {node'[u] : u \in {u \in Threads : Alone(u)'}}
        BY <1>2, <1>3, <1>4, <1>5 DEF IsList, Apart
    <2>2. \A u \in Threads : Alone(u)' => node'[u] \notin Range(s)
        BY <1>2, <1>3, <1>5, <1>6 DEF IsList, Apart
    <2>3. \A u, v \in Threads : Alone(u)' /\ Alone(v)' /\ node'[u] = node'[v] => u = v
        BY <1>2, <1>3, <1>5, <1>6 DEF IsList, Apart
    <2>4. \A u \in Threads : Alone(u)' /\ pc'[u] # "free"
                                => item'[node'[u]] = op'[u][2] /\ next'[node'[u]] = Nil
        BY <1>2, <1>3, <1>5, <1>6 DEF IsList, Apart
    <2> QED BY <2>1, <2>2, <2>3, <2>4 DEF Apart
<1>8. \A m \in Range(s) : next'[m] = next[m] /\ item'[m] = item[m]
    BY <1>2, <1>3, <1>6
<1>9. Linked(s)'
    <2>1. IsChain(mFirst, next, s) => IsChain(mFirst, next', s)
        BY <1>8, ChainFrame DEF IsList
    <2>2. \A u \in Threads : IsChain(node[u], next, s) => IsChain(node[u], next', s)
        BY <1>8, ChainFrame DEF IsList
    <2> QED BY <1>3, <1>5, <2>1, <2>2 DEF IsList, Linked, listVars
<1> QED BY <1>3, <1>7, <1>8, <1>9 DEF IsList

LEMMA LinkStep ==
    ASSUME QueueInv, NEW s, IsList(s), NEW t \in Threads, Link(t),
           NEW n, n = node[t]
    PROVE  /\ IsList(Append(s, n))' /\ n \in Nodes /\ item[n] = op[t][2]
           /\ mNumbers' = Len(s) /\ pc'[t] = "last" /\ pc[t] = "enter" /\ item' = item
<1> DEFINE r == Append(s, n)
<1>1. Local(t) /\ Progress(t) /\ pc \in [Threads -> Pcs]
    BY StepLocal DEF QueueInv, Calls, Exclusive, Step
<1>2. /\ pc[t] = "enter" /\ pc'[t] = "last" /\ op[t][1] = "put"
      /\ UNCHANGED <<mLast, mNumbers, heap, item, node, op>>
    BY <1>1 DEF Link, In, Go, callVars
<1>3. /\ n \in Nodes /\ n # Nil /\ Alone(t) /\ ~Alone(t)'
      /\ next \in [Nodes -> Nodes \cup {Nil}]
    BY <1>1, <1>2 DEF Progress, IsPut, Alone, QueueInv, TypeOK
<1>4. /\ n \notin Range(s) /\ next[n] = Nil /\ item[n] = op[t][2]
    BY <1>2, <1>3 DEF IsList, Apart
<1>5. \A u \in Threads \ {t} : /\ pc[u] \notin Holding /\ pc'[u] = pc[u]
                               /\ op'[u] = op[u] /\ (Alone(u)' <=> Alone(u))
    BY <1>1, <1>2, Inside DEF Local, Alone, Holding
<1>6. /\ IsChain(mFirst, next, s) /\ mNumbers = Len(s) /\ mLast = At(s, Len(s))
    BY <1>2, <1>5 DEF IsList, Linked, Holding
<1>7. /\ r \in Seq(Nodes) /\ IsInjective(r) /\ r # <<>> /\ Len(r) = Len(s) + 1
      /\ Range(r) = Range(s) \cup {n} /\ r[Len(r)] = n
    BY <1>3, <1>4, RangeAppend, InjectiveAppend DEF IsList
<1> HIDE DEF r
<1>8. IsChain(mFirst', next', r) /\ \A m \in Nodes \ Range(s) : next'[m] = next[m]
    <2>1. CASE s = <<>>
        <3>1. mLast = Nil
            BY <1>6, <2>1 DEF At
        <3>2. mFirst' = n /\ next' = next
            BY <3>1 DEF Link
        <3> QED BY <1>3, <1>4, <2>1, <3>2, ChainSingle DEF r
    <2>2. CASE s # <<>>
        <3>1. Len(s) \in 1..Len(s) /\ s[Len(s)] \in Nodes /\ DOMAIN s = 1..Len(s)
            BY <2>2 DEF IsList
        <3>2. mLast = s[Len(s)] /\ mLast # Nil
            BY <1>6, <3>1 DEF At
        <3>3. mFirst' = mFirst /\ next' = [next EXCEPT ![s[Len(s)]] = n]
            BY <3>2 DEF Link
        <3>4. IsChain(mFirst, [next EXCEPT ![s[Len(s)]] = n], r)
            BY <1>3, <1>4, <1>6, <2>2, ChainAppend DEF r, IsList
        <3>5. s[Len(s)] \in Range(s)
            BY <3>1 DEF Range
        <3> QED BY <1>3, <3>3, <3>4, <3>5
    <2> QED BY <2>1, <2>2
<1>9. Apart(r)'
    <2>1. /\ \A u \in Threads : Alone(u) => node[u] \in Nodes \ Range(s)
          /\ \A u, v \in Threads : Alone(u) /\ Alone(v) /\ node[u] = node[v] => u = v
        BY DEF IsList, Apart, QueueInv, TypeOK, Alone
    <2>2. heap' = Range(r) \cup {node'[u] : u \in {u \in Threads : Alone(u)'}}
        BY <1>2, <1>3, <1>5, <1>7 DEF IsList, Apart
    <2>3. \A u \in Threads : Alone(u)' => node'[u] \notin Range(r)
        BY <1>2, <1>3, <1>5, <1>7, <2>1
    <2>4. \A u, v \in Threads : Alone(u)' /\ Alone(v)' /\ node'[u] = node'[v] => u = v
        BY <1>2, <1>3, <1>5, <2>1
    <2>5. \A u \in Threads : Alone(u)' /\ pc'[u] # "free"
                                => item'[node'[u]] = op'[u][2] /\ next'[node'[u]] = Nil
        BY <1>2, <1>3, <1>5, <1>8, <2>1 DEF IsList, Apart
    <2> QED BY <2>2, <2>3, <2>4, <2>5 DEF Apart
<1>10. Linked(r)'
    <2>1. mNumbers' = Len(r) - 1
        BY <1>2, <1>6, <1>7 DEF IsList
    <2> QED BY <1>2, <1>5, <1>7, <1>8, <2>1 DEF Linked, Holding
<1>11. IsList(r)'
    BY <1>7, <1>9, <1>10 DEF IsList
<1> QED BY <1>2, <1>3, <1>4, <1>6, <1>11 DEF r

LEMMA SetLastStep ==
    ASSUME QueueInv, NEW s, IsList(s), NEW t \in Threads, SetLast(t)
    PROVE  /\ IsList(s)' /\ mNumbers' = Len(s)
           /\ pc[t] = "last" /\ pc'[t] = "signal" /\ UNCHANGED <<item, mFirst>>
<1>1. Local(t) /\ Progress(t) /\ pc \in [Threads -> Pcs]
    BY StepLocal DEF QueueInv, Calls, Exclusive, Step
<1>2. /\ pc[t] = "last" /\ pc'[t] = "signal" /\ UNCHANGED <<mFirst, heapVars, op>>
      /\ mLast' = node[t] /\ mNumbers' = mNumbers + 1
    BY <1>1 DEF SetLast, Go, callVars
<1>3. ~Alone(t) /\ ~Alone(t)'
    BY <1>2 DEF Alone
<1>4. \A u \in Threads \ {t} : /\ pc[u] \notin Holding /\ pc'[u] = pc[u]
                               /\ op'[u] = op[u] /\ node'[u] = node[u]
                               /\ (Alone(u)' <=> Alone(u))
    BY <1>1, <1>2, Inside DEF Local, Alone, Holding
<1>5. /\ s # <<>> /\ node[t] = s[Len(s)] /\ mNumbers = Len(s) - 1
      /\ IsChain(mFirst, next, s) /\ Len(s) \in Nat /\ Len(s) # 0
    BY <1>2, <1>4 DEF IsList, Linked, Holding
<1>6. mNumbers' = Len(s) /\ mLast' = At(s, Len(s))
    BY <1>2, <1>5 DEF At
<1>7. Apart(s)'
    BY <1>2, <1>3, <1>4 DEF IsList, Apart, heapVars
<1>8. Linked(s)'
    BY <1>2, <1>4, <1>5, <1>6 DEF Linked, Holding, heapVars
<1> QED BY <1>2, <1>6, <1>7, <1>8 DEF IsList, heapVars

LEMMA UnlinkStep ==
    ASSUME QueueInv, NEW s, IsList(s), NEW t \in Threads, Unlink(t)
    PROVE  /\ IsList(Tail(s))' /\ s # <<>> /\ mFirst = Head(s) /\ item' = item
           /\ pc[t] = "enter" /\ pc'[t] = "free" /\ mNumbers' = mNumbers
<1> DEFINE r == Tail(s)
<1>1. Local(t) /\ Progress(t) /\ pc \in [Threads -> Pcs]
    BY StepLocal DEF QueueInv, Calls, Exclusive, Step
<1>2. /\ pc[t] = "enter" /\ pc'[t] = "free" /\ op[t][1] = "get"
      /\ UNCHANGED <<mLast, mNumbers, heapVars, op>>
      /\ mFirst # Nil /\ mFirst' = next[mFirst] /\ node'[t] = mFirst
    BY <1>1 DEF Unlink, In, Go, callVars, QueueInv, TypeOK
<1>3. ~Alone(t) /\ Alone(t)'
    BY <1>1, <1>2 DEF Progress, IsPut, Alone
<1>4. \A u \in Threads \ {t} : /\ pc[u] \notin Holding /\ pc'[u] = pc[u]
                               /\ op'[u] = op[u] /\ node'[u] = node[u]
                               /\ (Alone(u)' <=> Alone(u))
    BY <1>1, <1>2, Inside DEF Local, Alone, Holding
<1>5. /\ IsChain(mFirst, next, s) /\ mNumbers = Len(s) /\ mLast = At(s, Len(s))
    BY <1>2, <1>4 DEF IsList, Linked, Holding
<1>6. s # <<>> /\ mFirst = Head(s)
    BY <1>2, <1>5, ChainFirst DEF IsList
<1>7. /\ r \in Seq(Nodes) /\ IsInjective(r) /\ Len(r) = Len(s) - 1
      /\ Range(s) = Range(r) \cup {Head(s)} /\ Head(s) \notin Range(r)
    BY <1>6, RangeTail, InjectiveTail DEF IsList
<1>8. r # <<>> => r[Len(r)] = s[Len(s)]
    BY <1>6 DEF IsList
<1>9. IsChain(mFirst', next', r)
    BY <1>2, <1>5, <1>6, ChainTail DEF IsList, heapVars
<1> HIDE DEF r
<1>10. Apart(r)'
    <2>1. heap' = Range(r) \cup {node'[u] : u \in {u \in Threads : Alone(u)'}}
        BY <1>2, <1>3, <1>4, <1>6, <1>7 DEF IsList, Apart, heapVars
    <2>2. \A u \in Threads : Alone(u)' => node'[u] \notin Range(r)
        BY <1>2, <1>4, <1>6, <1>7 DEF IsList, Apart
    <2>3. \A u, v \in Threads : Alone(u)' /\ Alone(v)' /\ node'[u] = node'[v] => u = v
        BY <1>2, <1>4, <1>6, <1>7 DEF IsList, Apart
    <2>4. \A u \in Threads : Alone(u)' /\ pc'[u] # "free"
                                => item'[node'[u]] = op'[u][2] /\ next'[node'[u]] = Nil
        BY <1>2, <1>4 DEF IsList, Apart, heapVars
    <2> QED BY <2>1, <2>2, <2>3, <2>4 DEF Apart
<1>11. Linked(r)'
    <2>1. Len(s) \in Nat \ {0}
        BY <1>6 DEF IsList
    <2>2. mNumbers' = Len(r) + 1
        BY <1>2, <1>5, <1>7, <2>1
    <2>3. r # <<>> => mLast' = r[Len(r)]
        BY <1>2, <1>5, <1>8, <2>1 DEF At
    <2> QED BY <1>2, <1>4, <1>9, <2>2, <2>3 DEF Linked, Holding
<1>12. IsList(r)'
    BY <1>7, <1>10, <1>11 DEF IsList
<1> QED BY <1>2, <1>6, <1>12 DEF r, heapVars

LEMMA FreeNodeStep ==
    ASSUME QueueInv, NEW s, IsList(s), NEW t \in Threads, FreeNode(t)
    PROVE  /\ IsList(s)' /\ UNCHANGED <<item, mFirst>> /\ mNumbers' = Len(s)
           /\ pc[t] = "free" /\ pc'[t] = "return"
<1>1. Local(t) /\ Progress(t) /\ pc \in [Threads -> Pcs]
    BY StepLocal DEF QueueInv, Calls, Exclusive, Step
<1>2. /\ pc[t] = "free" /\ pc'[t] = "return" /\ UNCHANGED <<mFirst, next, item, op>>
      /\ mLast' = IF mFirst = Nil THEN Nil ELSE mLast
      /\ mNumbers' = mNumbers - 1
      /\ heap' = heap \ {node[t]}
    BY <1>1 DEF FreeNode, Go, callVars
<1>3. Alone(t) /\ ~Alone(t)'
    BY <1>1, <1>2 DEF Progress, Alone
<1>4. \A u \in Threads \ {t} : /\ pc[u] \notin Holding /\ pc'[u] = pc[u]
                               /\ op'[u] = op[u] /\ node'[u] = node[u]
                               /\ (Alone(u)' <=> Alone(u))
    BY <1>1, <1>2, Inside DEF Local, Alone, Holding
<1>5. /\ IsChain(mFirst, next, s) /\ mNumbers = Len(s) + 1 /\ Len(s) \in Nat
      /\ s # <<>> => mLast = s[Len(s)]
    BY <1>2, <1>4 DEF IsList, Linked, Holding
<1>6. mNumbers' = Len(s) /\ mLast' = At(s, Len(s))
    <2>1. mFirst = Nil <=> s = <<>>
        BY <1>5, ChainFirst DEF IsList
    <2>2. s # <<>> => Len(s) \in 1..Len(s)
        BY DEF IsList
    <2>3. s = <<>> => Len(s) \notin 1..Len(s)
        OBVIOUS
    <2> QED BY <1>2, <1>5, <2>1, <2>2, <2>3 DEF At
<1>7. Apart(s)'
    <2>1. heap' = Range(s) \cup {node'[u] : u \in {u \in Threads : Alone(u)'}}
        BY <1>2, <1>3, <1>4 DEF IsList, Apart
    <2> QED BY <1>2, <1>3, <1>4, <2>1 DEF IsList, Apart
<1>8. Linked(s)'
    BY <1>2, <1>4, <1>5, <1>6 DEF Linked, Holding
<1> QED BY <1>2, <1>6, <1>7, <1>8 DEF IsList

LEMMA FlushBeginStep ==
    ASSUME QueueInv, NEW s, IsList(s), NEW t \in Threads, FlushBegin(t)
    PROVE  /\ IsList(s)' /\ UNCHANGED <<item, listVars>>
           /\ pc[t] = "enter" /\ pc'[t] = "flush"
<1>1. Local(t) /\ Progress(t) /\ pc \in [Threads -> Pcs]
    BY StepLocal DEF QueueInv, Calls, Exclusive, Step
<1>2. /\ pc[t] = "enter" /\ pc'[t] = "flush" /\ op[t][1] = "flush"
      /\ UNCHANGED <<listVars, heapVars, op>> /\ node'[t] = mFirst
    BY <1>1 DEF FlushBegin, In, Go, callVars, QueueInv, TypeOK
<1>3. ~Alone(t) /\ ~Alone(t)'
    BY <1>1, <1>2 DEF Progress, IsPut, Alone
<1>4. \A u \in Threads \ {t} : /\ pc[u] \notin Holding /\ pc'[u] = pc[u]
                               /\ op'[u] = op[u] /\ node'[u] = node[u]
                               /\ (Alone(u)' <=> Alone(u))
    BY <1>1, <1>2, Inside DEF Local, Alone, Holding
<1>5. IsChain(mFirst, next, s)
    BY <1>2, <1>4 DEF IsList, Linked, Holding
<1>6. Apart(s)'
    BY <1>2, <1>3, <1>4 DEF IsList, Apart, heapVars
<1>7. Linked(s)'
    BY <1>2, <1>4, <1>5 DEF Linked, Holding, heapVars
<1> QED BY <1>2, <1>6, <1>7 DEF IsList, heapVars

LEMMA FlushNodeStep ==
    ASSUME QueueInv, NEW s, IsList(s), NEW t \in Threads, FlushNode(t)
    PROVE  /\ IsList(Tail(s))' /\ UNCHANGED <<item, listVars, pc>> /\ pc[t] = "flush"
<1> DEFINE r == Tail(s)
<1>1. Local(t) /\ pc \in [Threads -> Pcs]
    BY StepLocal DEF QueueInv, Calls, Exclusive, Step
<1>2. /\ pc[t] = "flush" /\ UNCHANGED <<listVars, next, item, pc, op>>
      /\ node[t] # Nil /\ node'[t] = next[node[t]] /\ heap' = heap \ {node[t]}
    BY DEF FlushNode, callVars, QueueInv, TypeOK
<1>3. ~Alone(t) /\ ~Alone(t)'
    BY <1>2 DEF Alone
<1>4. \A u \in Threads \ {t} : /\ pc[u] \notin Holding /\ pc'[u] = pc[u]
                               /\ op'[u] = op[u] /\ node'[u] = node[u]
                               /\ (Alone(u)' <=> Alone(u))
    BY <1>1, <1>2, Inside DEF Local, Alone, Holding
<1>5. IsChain(node[t], next, s)
    BY <1>2 DEF IsList, Linked
<1>6. s # <<>> /\ node[t] = Head(s)
    BY <1>2, <1>5, ChainFirst DEF IsList
<1>7. /\ r \in Seq(Nodes) /\ IsInjective(r)
      /\ Range(s) = Range(r) \cup {Head(s)} /\ Head(s) \notin Range(r)
    BY <1>6, RangeTail, InjectiveTail DEF IsList
<1>8. IsChain(node'[t], next', r)
    BY <1>2, <1>5, <1>6, ChainTail DEF IsList
<1> HIDE DEF r
<1>9. Apart(r)'
    <2>1. heap' = Range(r) \cup {node'[u] : u \in {u \in Threads : Alone(u)'}}
        BY <1>2, <1>3, <1>4, <1>6, <1>7 DEF IsList, Apart
    <2> QED BY <1>2, <1>3, <1>4, <1>7, <2>1 DEF IsList, Apart
<1>10. Linked(r)'
    BY <1>2, <1>4, <1>8 DEF Linked, Holding
<1>11. IsList(r)'
    BY <1>7, <1>9, <1>10 DEF IsList
<1> QED BY <1>2, <1>11 DEF r

LEMMA FlushEndStep ==
    ASSUME QueueInv, NEW s, IsList(s), NEW t \in Threads, FlushEnd(t)
    PROVE  /\ IsList(<<>>)' /\ item' = item /\ mNumbers' = 0
           /\ pc[t] = "flush" /\ pc'[t] = "return"
<1>1. Local(t) /\ pc \in [Threads -> Pcs]
    BY StepLocal DEF QueueInv, Calls, Exclusive, Step
<1>2. /\ pc[t] = "flush" /\ pc'[t] = "return" /\ UNCHANGED <<heapVars, node, op>>
      /\ node[t] = Nil /\ mFirst' = Nil /\ mLast' = Nil /\ mNumbers' = 0
    BY <1>1 DEF FlushEnd, Go, callVars
<1>3. ~Alone(t) /\ ~Alone(t)'
    BY <1>2 DEF Alone
<1>4. \A u \in Threads \ {t} : /\ pc[u] \notin Holding /\ pc'[u] = pc[u]
                               /\ op'[u] = op[u] /\ node'[u] = node[u]
                               /\ (Alone(u)' <=> Alone(u))
    BY <1>1, <1>2, Inside DEF Local, Alone, Holding
<1>5. s = <<>>
    BY <1>2, ChainFirst DEF IsList, Linked
<1>6. Apart(<<>>)'
    BY <1>2, <1>3, <1>4, <1>5 DEF IsList, Apart, heapVars
<1>7. Linked(<<>>)'
    BY <1>2, <1>4 DEF Linked, Holding, IsChain, At
<1> QED BY <1>2, <1>5, <1>6, <1>7 DEF IsList, heapVars

\* Every step leaves a list, and a count that fits the heap.
LEMMA ListStep ==
    ASSUME QueueInv, NEW t \in Threads, Step(t)
    PROVE  HasList' /\ mNumbers' \in 0..Cardinality(Nodes)
<1>1. PICK s : IsList(s)
    BY DEF QueueInv, HasList, IsList
<1>2. /\ Cardinality(Nodes) \in Nat /\ Len(s) \in 0..Cardinality(Nodes)
      /\ mNumbers \in 0..Cardinality(Nodes)
    BY <1>1, ListBounded DEF IsList, QueueInv, TypeOK
<1>3. \A r : IsList(r)' => HasList'
    BY DEF IsList, HasList
<1>4. CASE Quiet(t)
    BY <1>1, <1>2, <1>3, <1>4, QuietStep DEF listVars
<1>5. CASE SpuriousWakeup(t)
    <2>1. UNCHANGED <<listVars, heapVars, node, pc, op>>
        BY <1>5 DEF SpuriousWakeup, callVars
    <2>2. IsList(s)'
        BY <1>1, <2>1, WokenStep
    <2> QED BY <1>2, <1>3, <2>1, <2>2 DEF listVars
<1>6. CASE Malloc(t)
    BY <1>1, <1>2, <1>3, <1>6, MallocStep DEF listVars
<1>7. CASE Link(t)
    BY <1>1, <1>2, <1>3, <1>7, LinkStep
<1>8. CASE SetLast(t)
    BY <1>1, <1>2, <1>3, <1>8, SetLastStep
<1>9. CASE Unlink(t)
    BY <1>1, <1>2, <1>3, <1>9, UnlinkStep
<1>10. CASE FreeNode(t)
    BY <1>1, <1>2, <1>3, <1>10, FreeNodeStep
<1>11. CASE FlushBegin(t)
    BY <1>1, <1>2, <1>3, <1>11, FlushBeginStep DEF listVars
<1>12. CASE FlushNode(t)
    BY <1>1, <1>2, <1>3, <1>12, FlushNodeStep DEF listVars
<1>13. CASE FlushEnd(t)
    BY <1>1, <1>2, <1>3, <1>13, FlushEndStep
<1> QED BY <1>4, <1>5, <1>6, <1>7, <1>8, <1>9, <1>10, <1>11, <1>12, <1>13 DEF Step, Quiet

LEMMA TypesStep ==
    ASSUME QueueInv, NEW t \in Threads, Step(t)
    PROVE  TypeOK'
<1>1. pc' \in [Threads -> Pcs] /\ mNumbers' \in 0..Cardinality(Nodes)
    BY StepLocal, ListStep DEF Local
<1>2. /\ mAbortRequest' \in BOOLEAN /\ lock' \in Threads \cup {Free}
      /\ waiting' \subseteq Threads /\ nextItem' \in 1..MaxItems + 1
    <2> USE DEF QueueInv, TypeOK, Unlock, Wake, callVars
    <2>1. CASE Call(t)
        BY <2>1 DEF Call
    <2>2. CASE Return(t) \/ Acquire(t) \/ SpuriousWakeup(t) \/ SignalAndUnlock(t)
        BY <2>2 DEF Return, Acquire, SpuriousWakeup, SignalAndUnlock
    <2>3. CASE Malloc(t) \/ MallocFails(t) \/ Link(t) \/ SetLast(t)
        BY <2>3 DEF Malloc, MallocFails, Link, SetLast
    <2>4. CASE GetAborted(t) \/ Unlink(t) \/ FreeNode(t) \/ Wait(t) \/ Size(t)
        BY <2>4 DEF GetAborted, Unlink, FreeNode, Wait, Size
    <2>5. CASE FlushBegin(t) \/ FlushNode(t) \/ FlushEnd(t) \/ Abort(t) \/ Start(t) \/ Notify(t)
        BY <2>5 DEF FlushBegin, FlushNode, FlushEnd, Abort, Start, Notify
    <2> QED BY <2>1, <2>2, <2>3, <2>4, <2>5 DEF Step
<1>3. /\ {mFirst', mLast'} \subseteq Nodes \cup {Nil} /\ heap' \subseteq Nodes
      /\ next' \in [Nodes -> Nodes \cup {Nil}] /\ item' \in [Nodes -> 0..MaxItems]
      /\ node' \in [Threads -> Nodes \cup {Nil}]
    <2>1. /\ {mFirst, mLast} \subseteq Nodes \cup {Nil} /\ heap \subseteq Nodes
          /\ next \in [Nodes -> Nodes \cup {Nil}] /\ item \in [Nodes -> 0..MaxItems]
          /\ node \in [Threads -> Nodes \cup {Nil}]
        BY DEF QueueInv, TypeOK
    <2> USE <2>1 DEF listVars, heapVars
    <2>2. CASE Quiet(t) \/ SpuriousWakeup(t)
        BY <2>2 DEF Quiet, Call, Return, Acquire, SpuriousWakeup, SignalAndUnlock,
           MallocFails, GetAborted, Wait, Size, Abort, Start, Notify
    <2>3. CASE Malloc(t)
        <3>1. op[t][2] \in 1..MaxItems
            <4>1. op[t] \in {Idle} \cup {<<n>> : n \in CallNames}
                            \cup {<<"put", i>> : i \in 1..MaxItems}
                BY DEF QueueInv, Calls
            <4>2. op[t][1] = "put"
                BY <2>3 DEF QueueInv, Calls, Progress, IsPut, Malloc
            <4>3. op[t] # Idle
                BY <4>2 DEF Idle
            <4>4. op[t] \notin {<<n>> : n \in CallNames}
                BY <4>2 DEF CallNames
            <4>5. PICK i \in 1..MaxItems : op[t] = <<"put", i>>
                BY <4>1, <4>3, <4>4
            <4> QED BY <4>5
        <3> QED BY <2>3, <3>1 DEF Malloc
    <2>4. CASE Link(t) \/ SetLast(t)
        BY <2>4 DEF Link, SetLast
    <2>5. CASE Unlink(t) \/ FreeNode(t)
        BY <2>5 DEF Unlink, FreeNode
    <2>6. CASE FlushBegin(t) \/ FlushNode(t) \/ FlushEnd(t)
        BY <2>6 DEF FlushBegin, FlushNode, FlushEnd
    <2> QED BY <2>2, <2>3, <2>4, <2>5, <2>6 DEF Step, Quiet
<1> QED BY <1>1, <1>2, <1>3 DEF TypeOK, Pcs

LEMMA QueueNext == QueueInv /\ [Next]_vars => QueueInv'
<1>1. ASSUME QueueInv, UNCHANGED vars PROVE QueueInv'
    <2> USE <1>1 DEF vars, listVars, heapVars, callVars, QueueInv
    <2>1. TypeOK' /\ Exclusive'
        BY DEF TypeOK, Exclusive
    <2>2. Calls'
        BY DEF Calls, Progress, IsPut
    <2>3. PICK s : IsList(s)
        BY DEF HasList, IsList
    <2>4. IsList(s)'
        BY <2>3, WokenStep
    <2> QED BY <2>1, <2>2, <2>4 DEF HasList, IsList
<1>2. ASSUME QueueInv, NEW t \in Threads, Step(t) PROVE QueueInv'
    BY <1>2, TypesStep, ExclusiveStep, CallsStep, ListStep DEF QueueInv
<1> QED BY <1>1, <1>2 DEF Next

\* What List is, now and after a step.
LEMMA ListValue ==
    ASSUME NEW s
    PROVE  /\ IsList(s) => List = IF \E t \in Threads : pc[t] = "flush" THEN <<>> ELSE s
           /\ IsList(s)' => List' = IF \E t \in Threads : pc'[t] = "flush" THEN <<>> ELSE s
<1>1. ASSUME IsList(s), \A t \in Threads : pc[t] # "flush"
      PROVE  List = s
    <2>1. s \in Seq(Nodes) /\ IsInjective(s) /\ IsChain(mFirst, next, s)
        BY <1>1 DEF IsList, Linked
    <2> QED BY <1>1, <2>1, ListChosen DEF List
<1>2. ASSUME IsList(s)', \A t \in Threads : pc'[t] # "flush"
      PROVE  List' = s
    <2>1. s \in Seq(Nodes) /\ IsInjective(s) /\ IsChain(mFirst', next', s)
        BY <1>2 DEF IsList, Linked
    <2> QED BY <1>2, <2>1, ListChosen DEF List
<1>3. (\E t \in Threads : pc[t] = "flush") => List = <<>>
    BY DEF List
<1>4. (\E t \in Threads : pc'[t] = "flush") => List' = <<>>
    BY DEF List
<1> QED BY <1>1, <1>2, <1>3, <1>4

LEMMA ListAgrees == QueueInv => Consistent
<1> SUFFICES ASSUME QueueInv, lock = Free
             PROVE  /\ mNumbers = Len(List)
                    /\ mLast = At(List, Len(List))
                    /\ LET listed == {List[i] : i \in 1..Len(List)}
                           held == {node[t] : t \in Threads} \ {Nil}
                       IN  heap = listed \cup held /\ listed \cap held = {}
    BY DEF Consistent
<1>1. PICK s : IsList(s)
    BY DEF QueueInv, HasList, IsList
<1>2. \A t \in Threads : pc[t] \notin Holding /\ pc[t] \in Pcs
    BY DEF QueueInv, Exclusive
<1>3. List = s
    BY <1>1, <1>2, ListValue DEF Holding
<1>4. mNumbers = Len(s) /\ mLast = At(s, Len(s))
    BY <1>1, <1>2 DEF IsList, Linked, Holding
<1>5. Range(s) = {s[i] : i \in 1..Len(s)}
    BY <1>1 DEF IsList, Range
<1>6. \A t \in Threads : node[t] # Nil <=> Alone(t)
    BY <1>2 DEF Alone, QueueInv, Calls, Progress, Pcs, Holding
<1>7. {node[t] : t \in Threads} \ {Nil} = {node[t] : t \in {u \in Threads : Alone(u)}}
    BY <1>6
<1>8. heap = Range(s) \cup ({node[t] : t \in Threads} \ {Nil})
    BY <1>1, <1>7 DEF IsList, Apart
<1>9. Range(s) \cap ({node[t] : t \in Threads} \ {Nil}) = {}
    BY <1>1, <1>6 DEF IsList, Apart
<1> QED BY <1>3, <1>4, <1>5, <1>8, <1>9
-----------------------------------------------------------------------------
\* The fields keep their types, whoever calls: TypeOK.  mNumbers stays within the
\* heap, also between the unlinking of a node and its free and during a flush.
THEOREM QueueTypeCorrect == Spec => []TypeOK
<1>1. QueueInv => TypeOK
    BY DEF QueueInv
<1> QED BY <1>1, QueueInit, QueueNext, PTL DEF Spec

\* Whenever the mutex is free the two pointers, the count and the nodes agree, and
\* every allocated node is in the list or with the one thread that puts it:
\* Consistent (xm_rgba_queue.c:24-142, xm_packet_queue.c:19-155).
THEOREM ListConsistent == Spec => []Consistent
    BY QueueInit, QueueNext, ListAgrees, PTL DEF Spec

-----------------------------------------------------------------------------
(* The refinement: which step of the list is the effect of a call.         *)

\* The items of a list; ItemList, its value before and after a step.
Payload(list, f) == [i \in 1..Len(list) |-> f[list[i]]]

LEMMA PayloadAppend ==
    ASSUME NEW s \in Seq(Nodes), NEW n \in Nodes, NEW f
    PROVE  Payload(Append(s, n), f) = Append(Payload(s, f), f[n])
    BY DEF Payload

LEMMA PayloadTail ==
    ASSUME NEW s \in Seq(Nodes), s # <<>>, NEW f
    PROVE  /\ Payload(s, f) # <<>> /\ Head(Payload(s, f)) = f[Head(s)]
           /\ Payload(Tail(s), f) = Tail(Payload(s, f))
    BY DEF Payload

LEMMA PayloadFrame ==
    ASSUME NEW s \in Seq(Nodes), NEW f, NEW g, \A n \in Range(s) : g[n] = f[n]
    PROVE  Payload(s, g) = Payload(s, f)
<1>1. \A i \in 1..Len(s) : s[i] \in Range(s)
    BY DEF Range
<1> QED BY <1>1 DEF Payload

\* The abstract queue is unchanged unless a call takes effect.
Same == ItemList' = ItemList /\ mAbortRequest' = mAbortRequest

LEMMA SameItems ==
    ASSUME NEW s, IsList(s), IsList(s)', NEW t \in Threads, Local(t),
           pc'[t] = "flush" <=> pc[t] = "flush",
           \A n \in Range(s) : item'[n] = item[n]
    PROVE  ItemList' = ItemList
<1>1. (\E u \in Threads : pc'[u] = "flush") <=> (\E u \in Threads : pc[u] = "flush")
    BY DEF Local
<1>2. List' = List /\ (List = s \/ List = <<>>)
    BY <1>1, ListValue
<1>3. ItemList = Payload(List, item) /\ ItemList' = Payload(List', item')
    BY DEF ItemList, Payload
<1>4. CASE List = s
    <2>1. Payload(s, item') = Payload(s, item)
        BY PayloadFrame DEF IsList
    <2> QED BY <1>2, <1>3, <1>4, <2>1
<1>5. CASE List = <<>>
    BY <1>2, <1>3, <1>5 DEF Payload
<1> QED BY <1>2, <1>4, <1>5

\* A step inside the mutex that is not in a flush: the list is what it is.
LEMMA ListInside ==
    ASSUME QueueInv, NEW t \in Threads, Local(t), pc[t] \in Holding, NEW s
    PROVE  /\ IsList(s) /\ pc[t] # "flush" => List = s /\ ItemList = Payload(s, item)
           /\ IsList(s)' /\ pc'[t] # "flush" => List' = s /\ ItemList' = Payload(s, item')
           /\ pc[t] = "flush" => ItemList = <<>>
           /\ pc'[t] = "flush" => ItemList' = <<>>
<1>1. \A u \in Threads \ {t} : pc[u] # "flush" /\ pc'[u] # "flush"
    BY Inside DEF Local, Holding
<1>2. /\ pc[t] # "flush" => ~ \E u \in Threads : pc[u] = "flush"
      /\ pc'[t] # "flush" => ~ \E u \in Threads : pc'[u] = "flush"
    BY <1>1
<1>3. /\ IsList(s) /\ pc[t] # "flush" => List = s
      /\ IsList(s)' /\ pc'[t] # "flush" => List' = s
    BY <1>2, ListValue
<1>4. /\ pc[t] = "flush" => List = <<>>
      /\ pc'[t] = "flush" => List' = <<>>
    BY DEF List
<1> QED BY <1>3, <1>4 DEF ItemList, Payload

\* The steps at which nothing happens to the abstract queue.
LEMMA StutterStep ==
    ASSUME QueueInv, NEW t \in Threads,
           \/ Acquire(t) \/ SpuriousWakeup(t) \/ SignalAndUnlock(t) \/ Malloc(t)
           \/ SetLast(t) \/ FreeNode(t) \/ Wait(t) \/ FlushNode(t) \/ FlushEnd(t)
    PROVE  UNCHANGED <<ItemList, mAbortRequest, op, answer>>
<1>1. PICK s : IsList(s)
    BY DEF QueueInv, HasList, IsList
<1>2. UNCHANGED <<mAbortRequest, op, answer>>
    BY DEF Acquire, SpuriousWakeup, SignalAndUnlock, Malloc, SetLast, FreeNode, Wait,
       FlushNode, FlushEnd, callVars
<1>3. Local(t) /\ pc \in [Threads -> Pcs]
    BY StepLocal DEF Step, QueueInv, Exclusive
<1>4. CASE Acquire(t) \/ SignalAndUnlock(t) \/ Wait(t)
    <2>1. IsList(s)' /\ item' = item /\ pc[t] # "flush" /\ pc'[t] # "flush"
        BY <1>1, <1>4, QuietStep DEF Quiet, heapVars
    <2> QED BY <1>1, <1>2, <1>3, <2>1, SameItems
<1>5. CASE SpuriousWakeup(t)
    <2>1. UNCHANGED <<listVars, heapVars, node, pc, op>>
        BY <1>5 DEF SpuriousWakeup, callVars
    <2>2. IsList(s)'
        BY <1>1, <2>1, WokenStep
    <2> QED BY <1>1, <1>2, <1>3, <2>1, <2>2, SameItems DEF heapVars
<1>6. CASE Malloc(t)
    <2>1. pc[t] = "malloc" /\ pc'[t] = "lock"
        BY <1>3, <1>6 DEF Malloc, Go
    <2> QED BY <1>1, <1>2, <1>3, <1>6, <2>1, MallocStep, SameItems
<1>7. CASE SetLast(t)
    BY <1>1, <1>2, <1>3, <1>7, SetLastStep, SameItems
<1>8. CASE FreeNode(t)
    BY <1>1, <1>2, <1>3, <1>8, FreeNodeStep, SameItems
<1>9. CASE FlushNode(t)
    <2>1. pc[t] = "flush" /\ pc'[t] = "flush"
        BY <1>1, <1>9, FlushNodeStep
    <2> QED BY <1>2, <1>3, <2>1, ListInside DEF Holding
<1>10. CASE FlushEnd(t)
    <2>1. pc[t] = "flush" /\ pc'[t] # "flush" /\ IsList(<<>>)'
        BY <1>1, <1>10, FlushEndStep
    <2>2. ItemList = <<>> /\ ItemList' = Payload(<<>>, item')
        BY <1>3, <2>1, ListInside DEF Holding
    <2>3. Payload(<<>>, item') = <<>>
        BY DEF Payload
    <2> QED BY <1>2, <2>2, <2>3
<1> QED BY <1>4, <1>5, <1>6, <1>7, <1>8, <1>9, <1>10

\* The quiet steps leave the items as they are.
LEMMA QuietItems ==
    ASSUME QueueInv, NEW t \in Threads, Quiet(t)
    PROVE  ItemList' = ItemList
<1>1. PICK s : IsList(s)
    BY DEF QueueInv, HasList, IsList
<1>2. IsList(s)' /\ item' = item /\ pc[t] # "flush" /\ pc'[t] # "flush"
    BY <1>1, QuietStep DEF heapVars
<1> QED BY <1>1, <1>2, StepLocal, SameItems DEF Quiet, Step

\* A call that has the mutex, or waits for memory, has not taken effect yet.
LEMMA EffectOf ==
    ASSUME QueueInv, NEW t \in Threads, NEW name \in OpNames, NEW result,
           pc[t] \in {"malloc", "enter"}, op[t][1] = name,
           Answer(t, result), op' = op
    PROVE  Atomic!Effect(t, name, result)
<1>1. answer[t] = Pending
    BY DEF QueueInv, Calls, Progress
<1>2. op[t] # Idle
    BY DEF Idle, OpNames
<1> QED BY <1>1, <1>2 DEF Answer, Atomic!Effect, Atomic!Idle, Atomic!Pending, Idle, Pending

LEMMA AbstractStep ==
    ASSUME QueueInv, NEW t \in Threads, Step(t)
    PROVE  Atomic!Next \/ UNCHANGED <<ItemList, mAbortRequest, op, answer>>
<1>1. PICK s : IsList(s)
    BY DEF QueueInv, HasList, IsList
<1>2. Local(t) /\ Progress(t) /\ pc \in [Threads -> Pcs]
    BY StepLocal DEF QueueInv, Calls, Exclusive
<1> USE DEF Done, Failed, Atomic!Done, Atomic!Failed
<1>3. CASE Call(t)
    <2>1. ItemList' = ItemList
        BY <1>3, QuietItems DEF Quiet
    <2>2. op[t] = Idle
        BY <1>2, <1>3 DEF Call, Progress
    <2>3. UNCHANGED <<mAbortRequest, answer>>
        BY <1>3 DEF Call
    <2>4. PICK name \in Ops[t] :
             IF name = "put"
             THEN nextItem <= MaxItems /\ op' = [op EXCEPT ![t] = <<"put", nextItem>>]
             ELSE op' = [op EXCEPT ![t] = <<name>>]
        BY <1>3 DEF Call
    <2>5. \E arg \in IF name = "put" THEN {<<v>> : v \in 1..MaxItems} ELSE {<<>>} :
             op' = [op EXCEPT ![t] = <<name>> \o arg]
        <3>1. CASE name = "put"
            <4>1. nextItem \in 1..MaxItems
                BY <2>4, <3>1 DEF QueueInv, TypeOK
            <4>2. <<"put", nextItem>> = <<"put">> \o <<nextItem>>
                OBVIOUS
            <4> QED BY <2>4, <3>1, <4>1, <4>2
        <3>2. CASE name # "put"
            <4>1. <<name>> = <<name>> \o <<>>
                OBVIOUS
            <4> QED BY <2>4, <3>2, <4>1
        <3> QED BY <3>1, <3>2
    <2>6. Atomic!Call(t)
        BY <2>1, <2>2, <2>3, <2>5 DEF Atomic!Call, Atomic!Idle, Idle
    <2> QED BY <2>6 DEF Atomic!Next
<1>4. CASE Return(t)
    <2>1. ItemList' = ItemList
        BY <1>4, QuietItems DEF Quiet
    <2>2. answer[t] # Pending
        BY <1>2, <1>4 DEF Return, Progress
    <2>3. Atomic!Return(t)
        BY <1>4, <2>1, <2>2 DEF Return, Answer, Atomic!Return, Atomic!Idle, Atomic!Pending,
           Idle, Pending
    <2> QED BY <2>3 DEF Atomic!Next
<1>5. CASE MallocFails(t)
    <2>1. ItemList' = ItemList
        BY <1>5, QuietItems DEF Quiet
    <2>2. Atomic!Effect(t, "put", Failed)
        BY <1>2, <1>5, EffectOf DEF MallocFails, Progress, IsPut, OpNames, callVars
    <2>3. Atomic!PutFails(t)
        BY <1>5, <2>1, <2>2 DEF MallocFails, Atomic!PutFails
    <2> QED BY <2>3 DEF Atomic!Next
<1>6. CASE Link(t)
    <2> DEFINE n == node[t]
    <2>1. /\ IsList(s) /\ n \in Nodes /\ item[n] = op[t][2]
          /\ pc[t] = "enter" /\ pc'[t] = "last" /\ item' = item
        BY <1>1, <1>6, LinkStep
    <2>2. \A m : m = n => IsList(Append(s, m))'
        BY <1>1, <1>6, LinkStep
    <2>3. ItemList = Payload(s, item)
        BY <1>2, <2>1, ListInside DEF Holding
    <2>4. \A m : m = n => ItemList' = Payload(Append(s, m), item)
        BY <1>2, <2>1, <2>2, ListInside DEF Holding
    <2>5. ItemList' = Append(ItemList, op[t][2])
        BY <1>1, <2>1, <2>3, <2>4, PayloadAppend DEF IsList
    <2>6. Atomic!Effect(t, "put", Done)
        BY <1>6, EffectOf DEF Link, In, OpNames, callVars
    <2>7. Atomic!Put(t)
        BY <1>6, <2>5, <2>6 DEF Link, Atomic!Put
    <2> QED BY <2>7 DEF Atomic!Next
<1>7. CASE GetAborted(t)
    <2>1. ItemList' = ItemList
        BY <1>7, QuietItems DEF Quiet
    <2>2. Atomic!Effect(t, "get", Failed)
        BY <1>7, EffectOf DEF GetAborted, In, OpNames, callVars
    <2>3. Atomic!GetFails(t)
        BY <1>7, <2>1, <2>2 DEF GetAborted, Atomic!GetFails
    <2> QED BY <2>3 DEF Atomic!Next
<1>8. CASE Unlink(t)
    <2>1. /\ IsList(Tail(s))' /\ s # <<>> /\ mFirst = Head(s)
          /\ pc[t] = "enter" /\ pc'[t] = "free" /\ item' = item
        BY <1>1, <1>8, UnlinkStep
    <2>2. ItemList = Payload(s, item) /\ ItemList' = Payload(Tail(s), item)
        BY <1>1, <1>2, <2>1, ListInside DEF Holding
    <2>3. /\ ItemList # <<>> /\ Head(ItemList) = item[mFirst]
          /\ ItemList' = Tail(ItemList)
        BY <1>1, <2>1, <2>2, PayloadTail DEF IsList
    <2>4. Atomic!Effect(t, "get", <<"item", item[mFirst]>>)
        BY <1>8, EffectOf DEF Unlink, In, OpNames, callVars
    <2>5. Atomic!Get(t)
        BY <1>8, <2>3, <2>4 DEF Unlink, Atomic!Get
    <2> QED BY <2>5 DEF Atomic!Next
<1>9. CASE Size(t)
    <2>1. ItemList' = ItemList
        BY <1>9, QuietItems DEF Quiet
    <2>2. mNumbers = Len(ItemList)
        <3>1. pc[t] = "enter" /\ \A u \in Threads \ {t} : pc[u] \notin Holding
            BY <1>9, Inside DEF Size, In, Holding
        <3>2. mNumbers = Len(s) /\ List = s
            BY <1>1, <1>2, <3>1, ListInside DEF IsList, Linked, Holding
        <3> QED BY <1>1, <3>2 DEF ItemList, IsList
    <2>3. Atomic!Effect(t, "size", <<"size", mNumbers>>)
        BY <1>9, EffectOf DEF Size, In, OpNames, callVars
    <2>4. Atomic!Size(t)
        BY <1>9, <2>1, <2>2, <2>3 DEF Size, Atomic!Size
    <2> QED BY <2>4 DEF Atomic!Next
<1>10. CASE FlushBegin(t)
    <2>1. ItemList' = <<>>
        BY <1>1, <1>2, <1>10, FlushBeginStep, ListInside DEF Holding
    <2>2. Atomic!Effect(t, "flush", Done)
        BY <1>10, EffectOf DEF FlushBegin, In, OpNames, callVars
    <2>3. Atomic!Flush(t)
        BY <1>10, <2>1, <2>2 DEF FlushBegin, Atomic!Flush
    <2> QED BY <2>3 DEF Atomic!Next
<1>11. CASE Abort(t) \/ Start(t) \/ Notify(t)
    <2>1. ItemList' = ItemList
        BY <1>11, QuietItems DEF Quiet
    <2>2. CASE Abort(t)
        <3>1. Atomic!Effect(t, "abort", Done)
            BY <2>2, EffectOf DEF Abort, In, OpNames, callVars
        <3>2. Atomic!Abort(t)
            BY <2>1, <2>2, <3>1 DEF Abort, Atomic!Abort
        <3> QED BY <3>2 DEF Atomic!Next
    <2>3. CASE Start(t)
        <3>1. Atomic!Effect(t, "start", Done)
            BY <2>3, EffectOf DEF Start, In, OpNames, callVars
        <3>2. Atomic!Start(t)
            BY <2>1, <2>3, <3>1 DEF Start, Atomic!Start
        <3> QED BY <3>2 DEF Atomic!Next
    <2>4. CASE Notify(t)
        <3>1. Atomic!Effect(t, "notify", Done)
            BY <2>4, EffectOf DEF Notify, In, OpNames, callVars
        <3>2. Atomic!Notify(t)
            BY <2>1, <2>4, <3>1 DEF Notify, Atomic!Notify
        <3> QED BY <3>2 DEF Atomic!Next
    <2> QED BY <1>11, <2>2, <2>3, <2>4
<1> QED BY <1>3, <1>4, <1>5, <1>6, <1>7, <1>8, <1>9, <1>10, <1>11, StutterStep DEF Step

\* The linked list implements the queue whose calls take effect in one step, for
\* any number of threads and whatever each calls: AtomicSpec
\* (xm_rgba_queue.c:24-142, xm_packet_queue.c:19-155).
THEOREM QueueImplementsAtomic == Spec => AtomicSpec
<1>1. Init => Atomic!Init
    <2> SUFFICES ASSUME Init PROVE Atomic!Init
        OBVIOUS
    <2>1. ItemList = <<>>
        <3>1. PICK s : IsList(s)
            BY QueueInit DEF QueueInv, HasList, IsList
        <3>2. List = s /\ s = <<>>
            BY <3>1, ListValue, ChainFirst DEF Init, IsList, Linked
        <3> QED BY <3>2 DEF ItemList
    <2>2. mAbortRequest \in BOOLEAN
        BY DEF Init
    <2> QED BY <2>1, <2>2 DEF Init, Atomic!Init, Atomic!Idle, Atomic!Pending, Idle, Pending
<1>2. QueueInv /\ [Next]_vars => [Atomic!Next]_Atomic!vars
    <2>1. ASSUME QueueInv, UNCHANGED vars PROVE UNCHANGED Atomic!vars
        BY <2>1 DEF vars, listVars, heapVars, callVars, Atomic!vars, ItemList, List
    <2>2. ASSUME QueueInv, NEW t \in Threads, Step(t)
          PROVE  [Atomic!Next]_Atomic!vars
        BY <2>2, AbstractStep DEF Atomic!vars
    <2> QED BY <2>1, <2>2 DEF Next
<1> QED BY <1>1, <1>2, QueueInit, QueueNext, PTL DEF Spec, AtomicSpec, Atomic!Spec
-----------------------------------------------------------------------------
(* The signal.                                                             *)

\* The recorder's queues have one consumer: the encoder's thread takes the
\* frames and the mux thread the packets.
OneGetter == \A t, u \in Threads : "get" \in Ops[t] \cap Ops[u] => t = u

\* Who waits is a thread in get that has let the mutex go; only a thread that
\* gets comes to free a node of the list.
Getting(t) == op[t] = <<"get">> /\ "get" \in Ops[t]
Callers ==
    /\ nextItem \in Nat
    /\ op \in [Threads -> {Idle} \cup {<<n>> : n \in OpNames}
                          \cup {<<"put", i>> : i \in Nat}]
    /\ \A t \in Threads : op[t] = <<"get">> => "get" \in Ops[t]
    /\ waiting \subseteq {t \in Threads : pc[t] = "lock" /\ Getting(t)}
    /\ \A t \in Threads : pc[t] = "free" => Getting(t)

\* While the getter sleeps on something to do, the one who did it holds the
\* mutex and has yet to signal.
SignalDue ==
    waiting # {} /\ (mFirst # Nil \/ mAbortRequest)
        => \E t \in Threads : pc[t] \in Signals

SignalInv == Exclusive /\ Callers /\ SignalDue

LEMMA SignalInit == Init => SignalInv
    BY DEF Init, SignalInv, Exclusive, Callers, SignalDue, Pcs, Holding, Idle

\* With one getter, nobody else waits while it is awake.
LEMMA GetterAwake ==
    ASSUME OneGetter, Callers, NEW t \in Threads, Getting(t), pc[t] # "lock"
    PROVE  waiting = {}
    BY DEF OneGetter, Callers, Getting

\* The name of a call tells that it is a get.
LEMMA NamedGet ==
    ASSUME Callers, NEW t \in Threads, op[t][1] = "get"
    PROVE  Getting(t)
<1>1. op[t] \in {Idle} \cup {<<n>> : n \in OpNames} \cup {<<"put", i>> : i \in Nat}
    BY DEF Callers
<1>2. CASE op[t] = Idle
    BY <1>2 DEF Idle
<1>3. CASE op[t] \in {<<n>> : n \in OpNames}
    <2>1. PICK n \in OpNames : op[t] = <<n>>
        BY <1>3
    <2>2. n = "get"
        BY <2>1
    <2> QED BY <2>1, <2>2 DEF Callers, Getting
<1>4. CASE op[t] \in {<<"put", i>> : i \in Nat}
    BY <1>4
<1> QED BY <1>1, <1>2, <1>3, <1>4

\* The steps outside the mutex that leave the waiting threads alone.
LEMMA OutsideStep ==
    ASSUME SignalInv, NEW t \in Threads,
           Call(t) \/ Return(t) \/ Malloc(t) \/ MallocFails(t)
    PROVE  SignalInv'
<1> USE DEF SignalInv, Go, listVars, callVars
<1>1. /\ pc[t] \in {"idle", "return", "malloc"} /\ pc'[t] \notin Holding
      /\ pc' \in [Threads -> Pcs]
      /\ \A u \in Threads \ {t} : pc'[u] = pc[u] /\ op'[u] = op[u]
      /\ UNCHANGED <<lock, waiting, mFirst, mAbortRequest>>
    BY DEF Exclusive, Callers, Pcs, Holding, Call, Return, Malloc, MallocFails
<1>2. Exclusive'
    BY <1>1 DEF Exclusive, Holding
<1>3. t \notin waiting
    BY <1>1 DEF Callers
<1>4. Callers'
    <2>1. /\ nextItem' \in Nat
          /\ op' \in [Threads -> {Idle} \cup {<<n>> : n \in OpNames}
                                 \cup {<<"put", i>> : i \in Nat}]
          /\ op'[t] = <<"get">> => "get" \in Ops[t]
        <3>1. CASE Call(t)
            BY <3>1 DEF Callers, Call, OpNames
        <3>2. CASE Return(t)
            BY <3>2 DEF Callers, Return, Idle
        <3>3. CASE Malloc(t) \/ MallocFails(t)
            BY <3>3 DEF Callers, Malloc, MallocFails
        <3> QED BY <3>1, <3>2, <3>3
    <2> QED BY <1>1, <1>3, <2>1 DEF Callers, Getting, Holding
<1>5. SignalDue'
    <2>1. pc[t] \notin Signals
        BY <1>1 DEF Signals
    <2> QED BY <1>1, <2>1 DEF SignalDue
<1> QED BY <1>2, <1>4, <1>5

\* The mutex is taken.
LEMMA AcquireStep ==
    ASSUME SignalInv, NEW t \in Threads, Acquire(t)
    PROVE  SignalInv'
<1> USE DEF SignalInv, Go, listVars, callVars, Acquire
<1>1. \A u \in Threads : pc[u] \notin Holding
    BY DEF Exclusive
<1>2. Exclusive'
    BY <1>1 DEF Exclusive, Pcs, Holding
<1>3. Callers'
    BY DEF Callers, Exclusive, Getting
<1>4. waiting = {} \/ (mFirst = Nil /\ ~mAbortRequest)
    BY <1>1 DEF SignalDue, Signals, Holding
<1> QED BY <1>2, <1>3, <1>4 DEF SignalDue

\* A waiting thread is woken, with or without a signal.
LEMMA WakeStep ==
    ASSUME OneGetter, SignalInv, NEW t \in Threads,
           SpuriousWakeup(t) \/ SignalAndUnlock(t)
    PROVE  SignalInv'
<1> USE DEF SignalInv, Go, listVars, callVars
<1>1. CASE SpuriousWakeup(t)
    BY <1>1 DEF SpuriousWakeup, Exclusive, Callers, SignalDue, Getting
<1>2. CASE SignalAndUnlock(t)
    <2> USE <1>2 DEF SignalAndUnlock
    <2>1. Exclusive'
        BY DEF Exclusive, Pcs, Holding, Unlock
    <2>2. waiting' = {}
        <3>1. \A u, v \in waiting : u = v
            BY DEF OneGetter, Callers, Getting
        <3> QED BY <3>1 DEF Wake
    <2>3. Callers'
        BY <2>2 DEF Callers, Exclusive, Getting
    <2> QED BY <2>1, <2>2, <2>3 DEF SignalDue
<1> QED BY <1>1, <1>2

\* Inside the mutex, by a thread that will signal.
LEMMA SignallerStep ==
    ASSUME SignalInv, NEW t \in Threads,
           Link(t) \/ SetLast(t) \/ Abort(t) \/ Start(t) \/ Notify(t)
    PROVE  SignalInv'
<1> USE DEF SignalInv, Go, listVars, callVars
<1>1. /\ pc[t] \in Holding /\ pc' \in [Threads -> Pcs] /\ pc'[t] \in Signals
      /\ \A u \in Threads \ {t} : pc'[u] = pc[u]
      /\ UNCHANGED <<lock, waiting, op, nextItem>>
    BY DEF Exclusive, Pcs, Holding, Signals, In, Link, SetLast, Abort, Start, Notify
<1>2. Exclusive'
    BY <1>1 DEF Exclusive, Holding, Signals
<1>3. Callers'
    BY <1>1 DEF Callers, Holding, Signals, Getting
<1> QED BY <1>1, <1>2, <1>3 DEF SignalDue

\* Inside the mutex, by a thread that will not: the getter is awake, or there is
\* nothing for it to do.
LEMMA OtherStep ==
    ASSUME OneGetter, SignalInv, NEW t \in Threads,
           \/ GetAborted(t) \/ Unlink(t) \/ FreeNode(t) \/ Wait(t)
           \/ Size(t) \/ FlushBegin(t) \/ FlushNode(t) \/ FlushEnd(t)
    PROVE  SignalInv'
<1> USE DEF SignalInv, Go, Unlock, listVars, callVars
<1>1. /\ pc[t] \in Holding \ Signals /\ pc' \in [Threads -> Pcs]
      /\ \A u \in Threads \ {t} : pc'[u] = pc[u]
      /\ UNCHANGED <<mAbortRequest, op, nextItem>>
      /\ \/ lock' = lock /\ pc'[t] \in Holding
         \/ lock' = Free /\ pc'[t] \notin Holding
    BY DEF Exclusive, Pcs, Holding, Signals, In, GetAborted, Unlink, FreeNode, Wait,
           Size, FlushBegin, FlushNode, FlushEnd
<1>2. Exclusive'
    BY <1>1 DEF Exclusive
<1>3. waiting = {} \/ (mFirst = Nil /\ ~mAbortRequest)
    BY <1>1 DEF Exclusive, SignalDue, Signals, Holding
<1>4. CASE GetAborted(t) \/ Unlink(t) \/ FreeNode(t)
    <2>1. Getting(t) /\ pc[t] # "lock"
        BY <1>4, NamedGet DEF Callers, GetAborted, Unlink, FreeNode, In
    <2>2. waiting' = {}
        BY <1>4, <2>1, GetterAwake DEF GetAborted, Unlink, FreeNode
    <2>3. Callers'
        BY <1>1, <1>4, <2>1, <2>2 DEF Callers, Getting
    <2> QED BY <1>2, <2>2, <2>3 DEF SignalDue
<1>5. CASE Wait(t)
    <2>1. Getting(t)
        BY <1>5, NamedGet DEF Wait, In
    <2>2. Callers'
        BY <1>1, <1>5, <2>1 DEF Callers, Getting, Wait, Exclusive
    <2> QED BY <1>2, <1>5, <2>2 DEF Wait, SignalDue
<1>6. CASE Size(t) \/ FlushBegin(t) \/ FlushNode(t) \/ FlushEnd(t)
    <2>1. waiting' = waiting /\ mFirst' \in {mFirst, Nil} /\ pc'[t] \notin {"free", "lock"}
        BY <1>1, <1>6 DEF Size, FlushBegin, FlushNode, FlushEnd, Exclusive
    <2>2. t \notin waiting
        BY <1>1 DEF Callers, Holding
    <2>3. Callers'
        BY <1>1, <2>1, <2>2 DEF Callers, Getting
    <2> QED BY <1>1, <1>2, <1>3, <2>1, <2>3 DEF SignalDue
<1> QED BY <1>4, <1>5, <1>6
-----------------------------------------------------------------------------
\* A getter is never left asleep on an item or an abort: NoMissedSignal.  signal
\* may wake only one thread, so this needs the single consumer that the recorder
\* gives each queue (xm_rgba_queue.c:68, 129; xm_packet_queue.c:63, 125).
THEOREM SignalSuffices ==
    ASSUME OneGetter
    PROVE  Spec => []NoMissedSignal
<1>1. SignalInv /\ [Next]_vars => SignalInv'
    <2> SUFFICES ASSUME SignalInv, [Next]_vars PROVE SignalInv'
        OBVIOUS
    <2>1. CASE UNCHANGED vars
        BY <2>1 DEF vars, listVars, callVars, SignalInv, Exclusive, Callers, SignalDue,
           Getting
    <2>2. ASSUME NEW t \in Threads, Step(t) PROVE SignalInv'
        BY <2>2, OutsideStep, AcquireStep, WakeStep, SignallerStep, OtherStep DEF Step
    <2> QED BY <2>1, <2>2 DEF Next
<1>2. SignalInv => NoMissedSignal
    BY DEF SignalInv, NoMissedSignal, SignalDue, Exclusive, Signals, Holding
<1> QED BY <1>1, <1>2, SignalInit, PTL DEF Spec
=============================================================================
