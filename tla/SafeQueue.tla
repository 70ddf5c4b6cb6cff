------------------------------ MODULE SafeQueue ------------------------------
(***************************************************************************)
(* CommonLib/SafeQueue.h over CommonLib/MyQueue.h: a linked list whose     *)
(* push, pop and drain run under a mutex while hasData, size and front     *)
(* read it without.  A step of the model is what another thread can see    *)
(* between two accesses of the list.                                       *)
(*                                                                         *)
(* The nodes are units of the queue's own MemoryPool: a unit just          *)
(* allocated holds whatever it held before.                                *)
(***************************************************************************)
EXTENDS Integers, Sequences, FiniteSets

CONSTANTS
    Producers, Consumers,   \* threads that push, threads that pop or drain
    Nodes,                  \* units of the queue's pool (bound)
    NULL,                   \* a null pointer; also the thread holding no lock
    MaxPush                 \* bound on the number of pushes

Nothing == 0                \* T(), what front and pop return without a node
Values == 1 .. MaxPush      \* the n-th call of push passes the value n

ASSUME QueueAssumption ==
    /\ NULL \notin Nodes \cup Producers \cup Consumers
    /\ Producers \cap Consumers = {}
    /\ IsFiniteSet(Nodes)
    /\ MaxPush \in Nat

VARIABLES
    mu,             \* _mu: the thread that holds it
    head, tail,     \* of MyQueue
    next, data,     \* _pNext and _data of each node
    size,           \* _size
    used,           \* units allocated from the pool
    pc,             \* where each thread is
    new,            \* newNode of each producer
    it,             \* _it, the position of a drain
    calls,          \* pushes begun
    front,          \* what front last returned to each consumer, until it pops
    knows,          \* hasData returned true to a consumer that has not popped since
    line,           \* history: the nodes in the order they were linked
    pushed, popped  \* history: values linked, values returned

shared == <<head, tail, next, data, size, used, line>>
local == <<new, it, calls, front, knows>>
history == <<pushed, popped>>
vars == <<mu, head, tail, next, data, size, used, pc, new, it, calls, front, knows,
          line, pushed, popped>>

Pointer == Nodes \cup {NULL}
Threads == Producers \cup Consumers

Init ==
    /\ mu = NULL
    /\ head = NULL /\ tail = NULL
    /\ next \in [Nodes -> {NULL}] /\ data \in [Nodes -> {Nothing}]
    /\ size = 0 /\ used = {}
    /\ pc = [t \in Threads |-> "idle"]
    /\ new = [p \in Producers |-> NULL]
    /\ it = NULL /\ calls = 0
    /\ front = [c \in Consumers |-> Nothing]
    /\ knows = [c \in Consumers |-> FALSE]
    /\ line = << >> /\ pushed = << >> /\ popped = << >>

Goto(t, from, to) == pc[t] = from /\ pc' = [pc EXCEPT ![t] = to]
Lock(t) == mu = NULL /\ mu' = t
Unlock == mu' = NULL

------------------------------------------------------------------------------
(* push.                                                                   *)

\* Mistake: push does not take the mutex.
PushCountNoLock(p) ==
    /\ calls < MaxPush /\ used # Nodes
    /\ mu' = p /\ Goto(p, "idle", "counted")
    /\ size' = size + 1
    /\ UNCHANGED <<head, tail, next, data, used, line, local, history>>

PushCount(p) ==
    /\ calls < MaxPush /\ used # Nodes
    /\ Lock(p) /\ Goto(p, "idle", "counted")
    /\ size' = size + 1
    /\ UNCHANGED <<head, tail, next, data, used, line, local, history>>

\* The new unit's link is whatever was in the unit.
PushAlloc(p) ==
    /\ Goto(p, "counted", "filled")
    /\ \E n \in Nodes \ used, junk \in Pointer :
          /\ used' = used \cup {n}
          /\ new' = [new EXCEPT ![p] = n]
          /\ data' = [data EXCEPT ![n] = calls + 1]
          /\ next' = [next EXCEPT ![n] = junk]
    /\ calls' = calls + 1
    /\ UNCHANGED <<mu, head, tail, size, line, it, front, knows, history>>

\* Mistake: the new node always becomes the head.
PushLinkHead(p) ==
    /\ Goto(p, "filled", "linked")
    /\ head' = new[p]
    /\ line' = Append(line, new[p])
    /\ pushed' = Append(pushed, data[new[p]])
    /\ UNCHANGED <<mu, tail, next, data, size, used, local, popped>>

PushLink(p) ==
    /\ Goto(p, "filled", "linked")
    /\ IF head # NULL
       THEN next' = [next EXCEPT ![tail] = new[p]] /\ UNCHANGED head
       ELSE head' = new[p] /\ UNCHANGED next
    /\ line' = Append(line, new[p])
    /\ pushed' = Append(pushed, data[new[p]])
    /\ UNCHANGED <<mu, tail, data, size, used, local, popped>>

PushSeal(p) ==
    /\ Goto(p, "linked", "idle")
    /\ next' = [next EXCEPT ![new[p]] = NULL]
    /\ tail' = new[p]
    /\ Unlock
    /\ UNCHANGED <<head, data, size, used, line, local, history>>

Push(p) == PushCount(p) \/ PushAlloc(p) \/ PushLink(p) \/ PushSeal(p)

------------------------------------------------------------------------------
(* hasData and front read without the lock.                                *)

HasData(c) ==
    /\ pc[c] = "idle"
    /\ knows' = [knows EXCEPT ![c] = size > 0]
    /\ UNCHANGED <<mu, shared, pc, new, it, calls, front, history>>

FrontOfNone(c) ==
    /\ pc[c] = "idle" /\ head = NULL
    /\ front' = [front EXCEPT ![c] = Nothing]
    /\ UNCHANGED <<mu, shared, pc, new, it, calls, knows, history>>

\* head is read a second time for the data.
FrontNotNull(c) ==
    /\ head # NULL /\ Goto(c, "idle", "front")
    /\ UNCHANGED <<mu, shared, local, history>>

FrontRead(c) ==
    /\ head # NULL /\ Goto(c, "front", "idle")
    /\ front' = [front EXCEPT ![c] = data[head]]
    /\ UNCHANGED <<mu, shared, new, it, calls, knows, history>>

------------------------------------------------------------------------------
(* pop.                                                                    *)

PopNone(c) ==
    /\ pc[c] = "idle" /\ mu = NULL /\ head = NULL
    /\ front' = [front EXCEPT ![c] = Nothing]
    /\ knows' = [knows EXCEPT ![c] = FALSE]
    /\ UNCHANGED <<mu, shared, pc, new, it, calls, history>>

\* Mistake: the node stays counted.
PopCountNot(c) ==
    /\ head # NULL /\ Lock(c) /\ Goto(c, "idle", "popping")
    /\ UNCHANGED <<head, tail, next, data, size, used, line, local, history>>

PopCount(c) ==
    /\ head # NULL /\ Lock(c) /\ Goto(c, "idle", "popping")
    /\ size' = size - 1
    /\ UNCHANGED <<head, tail, next, data, used, line, local, history>>

PopUnlink(c) ==
    /\ Goto(c, "popping", "idle") /\ Unlock
    /\ head' = next[head]
    /\ tail' = IF next[head] = NULL THEN NULL ELSE tail
    /\ used' = used \ {head}
    /\ line' = Tail(line)
    /\ popped' = Append(popped, data[head])
    /\ front' = [front EXCEPT ![c] = Nothing]
    /\ knows' = [knows EXCEPT ![c] = FALSE]
    /\ UNCHANGED <<next, data, size, new, it, calls, pushed>>

Pop(c) == PopNone(c) \/ PopCount(c) \/ PopUnlink(c)

------------------------------------------------------------------------------
(* HandleThread's drain: lock, begin, getVal and manualSize(-1) for every  *)
(* node, clear, unlock.                                                    *)

DrainBegin(c) ==
    /\ Lock(c) /\ Goto(c, "idle", "draining")
    /\ it' = head
    /\ UNCHANGED <<shared, new, calls, front, knows, history>>

DrainNext(c) ==
    /\ pc[c] = "draining" /\ it # NULL
    /\ size' = size - 1
    /\ popped' = Append(popped, data[it])
    /\ it' = next[it]
    /\ UNCHANGED <<mu, head, tail, next, data, used, line, pc, new, calls, front, knows,
                   pushed>>

Clear(c) ==
    /\ Goto(c, "draining", "idle") /\ it = NULL /\ Unlock
    /\ size' = 0
    /\ head' = NULL /\ tail' = NULL
    /\ used' = {} /\ line' = << >>
    /\ front' = [front EXCEPT ![c] = Nothing]
    /\ knows' = [knows EXCEPT ![c] = FALSE]
    /\ UNCHANGED <<next, data, new, it, calls, history>>

Drain(c) == DrainBegin(c) \/ DrainNext(c) \/ Clear(c)

Next ==
    \/ \E p \in Producers : Push(p)
    \/ \E c \in Consumers :
          HasData(c) \/ FrontOfNone(c) \/ FrontNotNull(c) \/ FrontRead(c) \/ Pop(c) \/ Drain(c)

Spec == Init /\ [][Next]_vars
------------------------------------------------------------------------------
(* Properties.                                                             *)

TypeOK ==
    /\ mu \in Threads \cup {NULL}
    /\ head \in Pointer /\ tail \in Pointer /\ it \in Pointer
    /\ next \in [Nodes -> Pointer]
    /\ data \in [Nodes -> Values \cup {Nothing}]
    /\ size \in Nat /\ calls \in Nat
    /\ used \subseteq Nodes
    /\ pc \in [Threads -> {"idle", "counted", "filled", "linked", "front", "popping",
                            "draining"}]
    /\ new \in [Producers -> Pointer]
    /\ front \in [Consumers -> Values \cup {Nothing}]
    /\ knows \in [Consumers -> BOOLEAN]
    /\ line \in Seq(Nodes) /\ pushed \in Seq(Values) /\ popped \in Seq(Values)

\* Whenever the mutex is free, the links thread the nodes from head to tail in
\* the order they were pushed, _size counts them, and they are the only units
\* allocated from the queue's pool.
ListOK ==
    mu = NULL =>
      /\ size = Len(line)
      /\ used = {line[i] : i \in DOMAIN line}
      /\ \A i, j \in DOMAIN line : line[i] = line[j] => i = j
      /\ IF line = << >> THEN head = NULL
         ELSE /\ head = line[1] /\ tail = line[Len(line)] /\ next[tail] = NULL
              /\ \A i \in 1 .. Len(line) - 1 : next[line[i]] = line[i + 1]

\* The queue returns what was pushed, in the order of linking, each value once.
Channel == INSTANCE MessageChannel WITH
    Messages <- Values, sent <- pushed, received <- popped
ImplementsChannel == Channel!Spec

\* What a sole consumer saw in front, without the mutex, is what its next pop
\* removes: ProcessorSend sends the one and frees the other.
FrontIsNext ==
    \A c \in Consumers : front[c] # Nothing => line # << >> /\ front[c] = data[line[1]]

\* After hasData returned true, without the mutex, a pop by the sole consumer
\* finds a node as soon as it has the mutex, although the count runs ahead of
\* the list: ClearQueue and OnRun use what pop returns without looking.
PopAfterHasData ==
    \A c \in Consumers : knows[c] /\ mu = NULL => head # NULL
==============================================================================
