--------------------------- MODULE SafeQueue_proofs ---------------------------
(***************************************************************************)
(* Proofs about SafeQueue, for any numbers of threads, nodes and pushes.   *)
(*                                                                         *)
(* The argument: at most one thread is inside the mutex, and where it is   *)
(* (Phase) says by how much size, tail and the allocated units differ from *)
(* the list.                                                               *)
(***************************************************************************)
EXTENDS SafeQueue, TLAPS

\* Where the thread that holds the mutex is.
Phase == IF mu = NULL THEN "idle" ELSE pc[mu]

\* A thread is inside the mutex exactly while it holds it.
LockOK ==
    /\ \A p \in Producers : /\ pc[p] \in {"idle", "counted", "filled", "linked"}
                            /\ pc[p] # "idle" <=> mu = p
    /\ \A c \in Consumers : /\ pc[c] \in {"idle", "front", "popping", "draining"}
                            /\ pc[c] \in {"popping", "draining"} <=> mu = c

\* The links thread the line; only the last link and the tail wait for the end of
\* a push.
LineOK ==
    /\ \A i, j \in 1 .. Len(line) : line[i] = line[j] => i = j
    /\ line = << >> => head = NULL
    /\ line # << >> => head = line[1]
    /\ \A i \in 1 .. Len(line) - 1 : next[line[i]] = line[i + 1]
    /\ line # << >> /\ Phase # "linked" => tail = line[Len(line)] /\ next[tail] = NULL

\* The position of the next node to be drained.
Position == Len(popped) - (Len(pushed) - Len(line)) + 1

SizeOK ==
    /\ Phase \in {"idle", "linked"} => size = Len(line)
    /\ Phase \in {"counted", "filled"} => size = Len(line) + 1
    /\ Phase = "popping" => size = Len(line) - 1 /\ line # << >>
    /\ Phase = "draining" => size = Len(line) - Position + 1

UnitsOK ==
    /\ \A i \in 1 .. Len(line) : line[i] \in used
    /\ \A n \in used : (\E i \in 1 .. Len(line) : line[i] = n) \/ (Phase = "filled" /\ n = new[mu])
    /\ Phase = "counted" => calls < MaxPush
    /\ Phase = "filled" => /\ new[mu] \in used /\ data[new[mu]] \in Values
                           /\ \A i \in 1 .. Len(line) : line[i] # new[mu]
    /\ Phase = "linked" => line # << >> /\ line[Len(line)] = new[mu]

\* The values pushed are those popped, followed by those of the line.
ValuesOK ==
    /\ Len(line) <= Len(pushed) /\ Len(popped) <= Len(pushed)
    /\ \A i \in 1 .. Len(line) : data[line[i]] = pushed[Len(pushed) - Len(line) + i]
    /\ \A i \in 1 .. Len(popped) : popped[i] = pushed[i]
    /\ Phase # "draining" => Position = 1
    /\ Phase = "draining" => /\ Position \in 1 .. Len(line) + 1
                             /\ it = IF Position = Len(line) + 1 THEN NULL ELSE line[Position]

Inv == TypeOK /\ LockOK /\ LineOK /\ SizeOK /\ UnitsOK /\ ValuesOK

------------------------------------------------------------------------------

LEMMA Lengths ==
    ASSUME TypeOK
    PROVE  /\ Len(line) \in Nat /\ Len(pushed) \in Nat /\ Len(popped) \in Nat
           /\ Position \in Int
           /\ \A i \in 1 .. Len(line) : line[i] \in Nodes
           /\ line # << >> <=> Len(line) # 0
           /\ line # << >> <=> 1 \in 1 .. Len(line)
           /\ DOMAIN line = 1 .. Len(line)
BY DEF TypeOK, Position

\* A thread that is inside is the one whose place is Phase.
LEMMA Inside ==
    ASSUME QueueAssumption, LockOK
    PROVE  /\ \A p \in Producers : pc[p] # "idle" => Phase = pc[p] /\ mu = p
           /\ \A c \in Consumers : pc[c] \in {"popping", "draining"} => Phase = pc[c] /\ mu = c
           /\ NULL \notin Producers /\ NULL \notin Consumers /\ NULL \notin Nodes
           /\ Producers \cap Consumers = {}
BY DEF QueueAssumption, LockOK, Phase

LEMMA InitInv == ASSUME QueueAssumption, Init PROVE Inv
<1>1. line = << >> /\ pushed = << >> /\ popped = << >> /\ size = 0 /\ used = {} /\ mu = NULL
      /\ head = NULL
  BY DEF Init
<1>2. TypeOK
  BY DEF Init, TypeOK, Pointer, Threads
<1>3. LockOK
  BY DEF Init, LockOK, Threads, QueueAssumption
<1>4. Phase = "idle" /\ Position = 1
  BY <1>1 DEF Phase, Position
<1>5. LineOK /\ SizeOK
  BY <1>1, <1>4 DEF LineOK, SizeOK
<1>6. UnitsOK /\ ValuesOK
  BY <1>1, <1>4 DEF UnitsOK, ValuesOK
<1> QED BY <1>2, <1>3, <1>5, <1>6 DEF Inv

------------------------------------------------------------------------------

\* A step that takes, keeps or leaves the mutex moves one thread.
LEMMA ProducerStep ==
    ASSUME QueueAssumption, TypeOK, LockOK, NEW p \in Producers,
           NEW from, NEW to, Goto(p, from, to),
           to \in {"idle", "counted", "filled", "linked"},
           IF from = "idle" THEN mu = NULL ELSE mu = p,
           IF to = "idle" THEN mu' = NULL ELSE mu' = p
    PROVE  /\ LockOK' /\ Phase = from /\ Phase' = to
           /\ pc' \in [Threads -> {"idle", "counted", "filled", "linked", "front", "popping",
                                   "draining"}]
           /\ mu' \in Threads \cup {NULL}
<1>1. /\ p \in Threads /\ p # NULL /\ Producers \cap Consumers = {}
      /\ NULL \notin Producers /\ NULL \notin Consumers
  BY DEF Threads, QueueAssumption
<1>2. /\ pc' = [pc EXCEPT ![p] = to] /\ pc[p] = from
      /\ pc \in [Threads -> {"idle", "counted", "filled", "linked", "front", "popping",
                             "draining"}]
  BY DEF Goto, TypeOK
<1>3. pc'[p] = to /\ \A t \in Threads : t # p => pc'[t] = pc[t]
  BY <1>1, <1>2
<1>4. Phase = from /\ Phase' = to
  BY <1>1, <1>2, <1>3 DEF Phase
<1>5. LockOK'
  BY <1>1, <1>3 DEF LockOK, Threads
<1>6. pc' \in [Threads -> {"idle", "counted", "filled", "linked", "front", "popping",
                           "draining"}]
  BY <1>1, <1>2
<1>7. mu' \in Threads \cup {NULL}
  BY <1>1
<1> QED BY <1>4, <1>5, <1>6, <1>7

LEMMA ConsumerStep ==
    ASSUME QueueAssumption, TypeOK, LockOK, NEW c \in Consumers,
           NEW from, NEW to, Goto(c, from, to),
           to \in {"idle", "popping", "draining"},
           from \in {"idle", "popping", "draining"},
           IF from = "idle" THEN mu = NULL ELSE mu = c,
           IF to = "idle" THEN mu' = NULL ELSE mu' = c
    PROVE  /\ LockOK' /\ Phase = from /\ Phase' = to
           /\ pc' \in [Threads -> {"idle", "counted", "filled", "linked", "front", "popping",
                                   "draining"}]
           /\ mu' \in Threads \cup {NULL}
<1>1. /\ c \in Threads /\ c # NULL /\ Producers \cap Consumers = {}
      /\ NULL \notin Producers /\ NULL \notin Consumers
  BY DEF Threads, QueueAssumption
<1>2. /\ pc' = [pc EXCEPT ![c] = to] /\ pc[c] = from
      /\ pc \in [Threads -> {"idle", "counted", "filled", "linked", "front", "popping",
                             "draining"}]
  BY DEF Goto, TypeOK
<1>3. pc'[c] = to /\ \A t \in Threads : t # c => pc'[t] = pc[t]
  BY <1>1, <1>2
<1>4. Phase = from /\ Phase' = to
  BY <1>1, <1>2, <1>3 DEF Phase
<1>5. LockOK'
  BY <1>1, <1>3 DEF LockOK, Threads
<1>6. pc' \in [Threads -> {"idle", "counted", "filled", "linked", "front", "popping",
                           "draining"}]
  BY <1>1, <1>2
<1>7. mu' \in Threads \cup {NULL}
  BY <1>1
<1> QED BY <1>4, <1>5, <1>6, <1>7

------------------------------------------------------------------------------
(* One lemma per step of push.                                             *)

LEMMA PushCountInv ==
    ASSUME QueueAssumption, Inv, NEW p \in Producers, PushCount(p)
    PROVE  Inv'
<1>1. TypeOK /\ LockOK /\ LineOK /\ SizeOK /\ UnitsOK /\ ValuesOK
  BY DEF Inv
<1>2. /\ mu = NULL /\ mu' = p /\ Goto(p, "idle", "counted") /\ calls < MaxPush
      /\ size' = size + 1
      /\ UNCHANGED <<head, tail, next, data, used, line, new, it, calls, front, knows,
                      pushed, popped>>
  BY DEF PushCount, Lock, local, history
<1>3. /\ LockOK' /\ Phase = "idle" /\ Phase' = "counted"
      /\ pc' \in [Threads -> {"idle", "counted", "filled", "linked", "front", "popping",
                              "draining"}]
      /\ mu' \in Threads \cup {NULL}
  BY <1>1, <1>2, ProducerStep
<1>4. TypeOK'
  BY <1>1, <1>2, <1>3 DEF TypeOK
<1>5. LineOK'
  BY <1>1, <1>2, <1>3 DEF LineOK
<1>6. SizeOK'
  BY <1>1, <1>2, <1>3, Lengths DEF SizeOK
<1>7. UnitsOK'
  BY <1>1, <1>2, <1>3 DEF UnitsOK
<1>8. ValuesOK'
  BY <1>1, <1>2, <1>3 DEF ValuesOK, Position
<1> QED BY <1>3, <1>4, <1>5, <1>6, <1>7, <1>8 DEF Inv

LEMMA PushAllocInv ==
    ASSUME QueueAssumption, Inv, NEW p \in Producers, PushAlloc(p)
    PROVE  Inv'
<1>1. TypeOK /\ LockOK /\ LineOK /\ SizeOK /\ UnitsOK /\ ValuesOK
  BY DEF Inv
<1>2. PICK n \in Nodes \ used, junk \in Pointer :
          /\ used' = used \cup {n}
          /\ new' = [new EXCEPT ![p] = n]
          /\ data' = [data EXCEPT ![n] = calls + 1]
          /\ next' = [next EXCEPT ![n] = junk]
  BY DEF PushAlloc
<1>3. /\ Goto(p, "counted", "filled") /\ calls' = calls + 1
      /\ UNCHANGED <<mu, head, tail, size, line, it, front, knows, pushed, popped>>
  BY DEF PushAlloc, history
<1>4. mu = p /\ mu' = p
  BY <1>1, <1>3, Inside DEF Goto
<1>5. /\ LockOK' /\ Phase = "counted" /\ Phase' = "filled"
      /\ pc' \in [Threads -> {"idle", "counted", "filled", "linked", "front", "popping",
                              "draining"}]
      /\ mu' \in Threads \cup {NULL}
  BY <1>1, <1>3, <1>4, ProducerStep
<1>6. calls + 1 \in Values
  BY <1>1, <1>5, QueueAssumption DEF QueueAssumption, UnitsOK, TypeOK, Values
<1>7. /\ \A m \in Nodes : m # n => data'[m] = data[m] /\ next'[m] = next[m]
      /\ data'[n] = calls + 1 /\ new'[p] = n
  BY <1>1, <1>2 DEF TypeOK
<1>8. /\ \A i \in 1 .. Len(line) : /\ line[i] # n /\ line[i] \in Nodes
                                   /\ data'[line[i]] = data[line[i]]
                                   /\ next'[line[i]] = next[line[i]]
      /\ Len(line) \in Nat /\ line \in Seq(Nodes)
  BY <1>1, <1>2, <1>7, Lengths DEF UnitsOK, TypeOK
<1>9. TypeOK'
  <2>1. n \in Nodes /\ n \in Pointer
    BY DEF Pointer
  <2>2. next' \in [Nodes -> Pointer]
    BY <1>1, <1>2, <2>1 DEF TypeOK
  <2>3. data' \in [Nodes -> Values \cup {Nothing}]
    BY <1>1, <1>2, <1>6, <2>1 DEF TypeOK
  <2>4. new' \in [Producers -> Pointer] /\ used' \subseteq Nodes
    BY <1>1, <1>2, <2>1 DEF TypeOK
  <2>5. size' \in Nat /\ calls' \in Nat
    BY <1>1, <1>3 DEF TypeOK
  <2>6. /\ head' \in Pointer /\ tail' \in Pointer /\ it' \in Pointer
        /\ front' \in [Consumers -> Values \cup {Nothing}]
        /\ knows' \in [Consumers -> BOOLEAN]
        /\ line' \in Seq(Nodes) /\ pushed' \in Seq(Values) /\ popped' \in Seq(Values)
    BY <1>1, <1>3 DEF TypeOK
  <2> QED BY <1>5, <2>2, <2>3, <2>4, <2>5, <2>6 DEF TypeOK
<1>10. LineOK'
  <2>1. \A i \in 1 .. Len(line) - 1 : next'[line[i]] = line[i + 1]
    BY <1>1, <1>8 DEF LineOK
  <2>2. line # << >> => tail' = line[Len(line)] /\ next'[tail] = NULL
    BY <1>1, <1>3, <1>5, <1>8 DEF LineOK
  <2> QED BY <1>1, <1>3, <2>1, <2>2 DEF LineOK
<1>11. SizeOK'
  BY <1>1, <1>3, <1>5 DEF SizeOK
<1>12. UnitsOK'
  <2>1. \A i \in 1 .. Len(line) : line[i] \in used'
    BY <1>1, <1>2 DEF UnitsOK
  <2>2. \A m \in used' : (\E i \in 1 .. Len(line) : line[i] = m) \/ m = n
    BY <1>1, <1>2, <1>5 DEF UnitsOK
  <2>3. n \in used' /\ data'[n] \in Values
    BY <1>2, <1>6, <1>7
  <2> QED BY <1>3, <1>4, <1>5, <1>7, <1>8, <2>1, <2>2, <2>3 DEF UnitsOK
<1>13. ValuesOK'
  <2>1. \A i \in 1 .. Len(line) : data'[line[i]] = pushed[Len(pushed) - Len(line) + i]
    BY <1>1, <1>8 DEF ValuesOK
  <2> QED BY <1>1, <1>3, <1>5, <2>1 DEF ValuesOK, Position
<1> QED BY <1>5, <1>9, <1>10, <1>11, <1>12, <1>13 DEF Inv

LEMMA PushLinkInv ==
    ASSUME QueueAssumption, Inv, NEW p \in Producers, PushLink(p)
    PROVE  Inv'
<1> DEFINE n == new[p]
           L == Len(line)
<1>1. TypeOK /\ LockOK /\ LineOK /\ SizeOK /\ UnitsOK /\ ValuesOK
  BY DEF Inv
<1>2. /\ Goto(p, "filled", "linked")
      /\ head # NULL => next' = [next EXCEPT ![tail] = n] /\ head' = head
      /\ head = NULL => head' = n /\ next' = next
      /\ line' = Append(line, n) /\ pushed' = Append(pushed, data[n])
      /\ UNCHANGED <<mu, tail, data, size, used, new, it, calls, front, knows, popped>>
  BY DEF PushLink, local
<1>3. mu = p /\ mu' = p
  BY <1>1, <1>2, Inside DEF Goto
<1>4. /\ LockOK' /\ Phase = "filled" /\ Phase' = "linked"
      /\ pc' \in [Threads -> {"idle", "counted", "filled", "linked", "front", "popping",
                              "draining"}]
      /\ mu' \in Threads \cup {NULL}
  BY <1>1, <1>2, <1>3, ProducerStep
<1>5. /\ n \in used /\ n \in Nodes /\ data[n] \in Values
      /\ \A i \in 1 .. L : line[i] # n
  BY <1>1, <1>3, <1>4 DEF UnitsOK, TypeOK
<1>6. L \in Nat /\ \A i \in 1 .. L : line[i] \in Nodes
  BY <1>1, Lengths
<1>7. /\ Len(line') = L + 1 /\ line' \in Seq(Nodes) /\ line'[L + 1] = n /\ line' # << >>
      /\ \A i \in 1 .. L : line'[i] = line[i]
      /\ 1 .. L + 1 = 1 .. L \cup {L + 1}
  BY <1>1, <1>2, <1>5, <1>6 DEF TypeOK
<1>8. /\ Len(pushed') = Len(pushed) + 1 /\ pushed' \in Seq(Values) /\ Len(pushed) \in Nat
      /\ pushed'[Len(pushed) + 1] = data[n]
      /\ \A i \in 1 .. Len(pushed) : pushed'[i] = pushed[i]
  BY <1>1, <1>2, <1>5 DEF TypeOK
<1>9. head = NULL <=> line = << >>
  BY <1>1, <1>6, Lengths, QueueAssumption DEF LineOK, QueueAssumption
<1>10. line # << >> => tail = line[L] /\ L \in 1 .. L
  BY <1>1, <1>4, <1>6, Lengths DEF LineOK
<1>11. TypeOK'
  <2>1. next' \in [Nodes -> Pointer] /\ head' \in Pointer
    BY <1>1, <1>2, <1>5 DEF TypeOK, Pointer
  <2>2. /\ size' \in Nat /\ calls' \in Nat /\ tail' \in Pointer /\ it' \in Pointer
        /\ data' \in [Nodes -> Values \cup {Nothing}]
        /\ used' \subseteq Nodes /\ new' \in [Producers -> Pointer]
        /\ front' \in [Consumers -> Values \cup {Nothing}]
        /\ knows' \in [Consumers -> BOOLEAN] /\ popped' \in Seq(Values)
    BY <1>1, <1>2 DEF TypeOK
  <2> QED BY <1>4, <1>7, <1>8, <2>1, <2>2 DEF TypeOK
<1>12. LineOK'
  <2>1. ASSUME NEW i \in 1 .. L + 1, NEW j \in 1 .. L + 1, line'[i] = line'[j]
        PROVE  i = j
    <3>1. CASE i \in 1 .. L /\ j \in 1 .. L
      BY <1>1, <1>7, <2>1, <3>1 DEF LineOK
    <3>2. CASE i = L + 1 \/ j = L + 1
      BY <1>5, <1>7, <2>1, <3>2
    <3> QED BY <1>7, <3>1, <3>2
  <2>2. head' = line'[1]
    <3>1. CASE line = << >>
      BY <1>2, <1>7, <1>9, <3>1
    <3>2. CASE line # << >>
      BY <1>1, <1>2, <1>7, <1>9, <3>2, Lengths DEF LineOK
    <3> QED BY <3>1, <3>2
  <2>3. ASSUME NEW i \in 1 .. L PROVE next'[line'[i]] = line'[i + 1]
    <3>1. line # << >> /\ next' = [next EXCEPT ![tail] = n]
      BY <1>2, <1>6, <1>9, Lengths, <1>1
    <3>2. CASE i = L
      BY <1>1, <1>6, <1>7, <1>10, <3>1, <3>2 DEF TypeOK
    <3>3. CASE i # L
      <4>1. i \in 1 .. L - 1 /\ i + 1 \in 1 .. L
        BY <1>6, <3>3
      <4>2. line[i] # tail
        BY <1>1, <1>10, <3>1, <3>3 DEF LineOK
      <4>3. next'[line[i]] = next[line[i]]
        BY <1>1, <1>6, <3>1, <4>2 DEF TypeOK
      <4> QED BY <1>1, <1>7, <4>1, <4>3 DEF LineOK
    <3> QED BY <3>2, <3>3
  <2>4. Len(line') - 1 = L
    BY <1>6, <1>7
  <2> QED BY <1>4, <1>7, <2>1, <2>2, <2>3, <2>4 DEF LineOK
<1>13. SizeOK'
  BY <1>1, <1>2, <1>4, <1>6, <1>7 DEF SizeOK
<1>14. UnitsOK'
  <2>1. \A i \in 1 .. L + 1 : line'[i] \in used
    BY <1>1, <1>5, <1>7 DEF UnitsOK
  <2>2. ASSUME NEW m \in used PROVE \E i \in 1 .. L + 1 : line'[i] = m
    <3>1. CASE m = n
      BY <1>7, <3>1
    <3>2. CASE m # n
      BY <1>1, <1>3, <1>7, <3>2 DEF UnitsOK
    <3> QED BY <3>1, <3>2
  <2> QED BY <1>2, <1>3, <1>4, <1>7, <2>1, <2>2 DEF UnitsOK
<1>15. ValuesOK'
  <2>1. Len(pushed') - Len(line') = Len(pushed) - L /\ Position' = Position
    BY <1>1, <1>2, <1>6, <1>7, <1>8, Lengths DEF Position
  <2>2. ASSUME NEW i \in 1 .. L + 1
        PROVE  data[line'[i]] = pushed'[Len(pushed) - L + i]
    <3>1. CASE i = L + 1
      <4>1. Len(pushed) - L + i = Len(pushed) + 1
        BY <1>6, <1>8, <3>1
      <4> QED BY <1>7, <1>8, <3>1, <4>1
    <3>2. CASE i \in 1 .. L
      <4>1. Len(pushed) - L + i \in 1 .. Len(pushed)
        BY <1>1, <1>6, <1>8, <3>2 DEF ValuesOK
      <4> QED BY <1>1, <1>7, <1>8, <3>2, <4>1 DEF ValuesOK
    <3> QED BY <1>7, <3>1, <3>2
  <2>3. Len(line') <= Len(pushed') /\ Len(popped) <= Len(pushed')
    BY <1>1, <1>6, <1>7, <1>8, Lengths DEF ValuesOK
  <2>4. \A i \in 1 .. Len(popped) : popped[i] = pushed'[i]
    <3>1. \A i \in 1 .. Len(popped) : i \in 1 .. Len(pushed)
      BY <1>1, <1>8, Lengths DEF ValuesOK
    <3> QED BY <1>1, <1>8, <3>1 DEF ValuesOK
  <2>5. Position' = 1
    BY <1>1, <1>4, <2>1 DEF ValuesOK
  <2> QED BY <1>2, <1>4, <1>7, <2>1, <2>2, <2>3, <2>4, <2>5 DEF ValuesOK
<1> QED BY <1>4, <1>11, <1>12, <1>13, <1>14, <1>15 DEF Inv

LEMMA PushSealInv ==
    ASSUME QueueAssumption, Inv, NEW p \in Producers, PushSeal(p)
    PROVE  Inv'
<1> DEFINE n == new[p]
           L == Len(line)
<1>1. TypeOK /\ LockOK /\ LineOK /\ SizeOK /\ UnitsOK /\ ValuesOK
  BY DEF Inv
<1>2. /\ Goto(p, "linked", "idle") /\ next' = [next EXCEPT ![n] = NULL] /\ tail' = n
      /\ mu' = NULL
      /\ UNCHANGED <<head, data, size, used, line, new, it, calls, front, knows,
                     pushed, popped>>
  BY DEF PushSeal, Unlock, local, history
<1>3. mu = p
  BY <1>1, <1>2, Inside DEF Goto
<1>4. /\ LockOK' /\ Phase = "linked" /\ Phase' = "idle"
      /\ pc' \in [Threads -> {"idle", "counted", "filled", "linked", "front", "popping",
                              "draining"}]
      /\ mu' \in Threads \cup {NULL}
  BY <1>1, <1>2, <1>3, ProducerStep
<1>5. L \in Nat /\ L >= 1 /\ n = line[L] /\ n \in Nodes /\ \A i \in 1 .. L : line[i] \in Nodes
  BY <1>1, <1>3, <1>4, Lengths DEF UnitsOK
<1>6. next' \in [Nodes -> Pointer] /\ next'[n] = NULL
      /\ \A m \in Nodes : m # n => next'[m] = next[m]
  BY <1>1, <1>2, <1>5 DEF TypeOK, Pointer
<1>7. TypeOK'
  <2>1. tail' \in Pointer
    BY <1>2, <1>5 DEF Pointer
  <2> QED BY <1>1, <1>2, <1>4, <1>6, <2>1 DEF TypeOK
<1>8. LineOK'
  <2>1. ASSUME NEW i \in 1 .. L - 1 PROVE next'[line[i]] = line[i + 1]
    <3>1. i \in 1 .. L /\ L \in 1 .. L /\ i # L
      BY <1>5
    <3>2. line[i] # n
      BY <1>1, <1>5, <3>1 DEF LineOK
    <3> QED BY <1>1, <1>5, <1>6, <3>1, <3>2 DEF LineOK
  <2> QED BY <1>1, <1>2, <1>5, <1>6, <2>1 DEF LineOK
<1>9. SizeOK'
  BY <1>1, <1>2, <1>4 DEF SizeOK
<1>10. UnitsOK'
  BY <1>1, <1>2, <1>4 DEF UnitsOK
<1>11. ValuesOK'
  BY <1>1, <1>2, <1>4 DEF ValuesOK, Position
<1> QED BY <1>4, <1>7, <1>8, <1>9, <1>10, <1>11 DEF Inv

------------------------------------------------------------------------------
(* The steps without the mutex.                                            *)

\* A step that leaves the list and the mutex alone.
LEMMA ReadInv ==
    ASSUME QueueAssumption, Inv, NEW c \in Consumers,
           HasData(c) \/ FrontOfNone(c) \/ FrontNotNull(c) \/ FrontRead(c) \/ PopNone(c)
    PROVE  Inv'
<1>1. TypeOK /\ LockOK /\ LineOK /\ SizeOK /\ UnitsOK /\ ValuesOK
  BY DEF Inv
<1>2. UNCHANGED <<mu, head, tail, next, data, size, used, line, new, it, calls,
                  pushed, popped>>
  BY DEF HasData, FrontOfNone, FrontNotNull, FrontRead, PopNone, shared, local, history
<1>3. front' \in [Consumers -> Values \cup {Nothing}]
  <2>1. CASE FrontRead(c)
    <3>1. head \in Nodes
      BY <1>1, <2>1 DEF FrontRead, TypeOK, Pointer
    <3> QED BY <1>1, <2>1, <3>1 DEF FrontRead, TypeOK
  <2>2. CASE ~FrontRead(c)
    BY <1>1, <2>2 DEF HasData, FrontOfNone, FrontNotNull, PopNone, TypeOK, local
  <2> QED BY <2>1, <2>2
<1>4. knows' \in [Consumers -> BOOLEAN]
  <2>1. CASE HasData(c)
    <3>1. (size > 0) \in BOOLEAN
      OBVIOUS
    <3> QED BY <1>1, <2>1, <3>1 DEF HasData, TypeOK
  <2>2. CASE ~HasData(c)
    BY <1>1, <2>2 DEF FrontOfNone, FrontNotNull, FrontRead, PopNone, TypeOK, local
  <2> QED BY <2>1, <2>2
<1>5. \/ pc' = pc
      \/ pc[c] = "idle" /\ pc' = [pc EXCEPT ![c] = "front"]
      \/ pc[c] = "front" /\ pc' = [pc EXCEPT ![c] = "idle"]
  BY DEF HasData, FrontOfNone, FrontNotNull, FrontRead, PopNone, Goto
<1>6. c \in Threads /\ \A p \in Producers : p # c
  BY DEF Threads, QueueAssumption
<1>7. pc' \in [Threads -> {"idle", "counted", "filled", "linked", "front", "popping",
                           "draining"}]
  BY <1>1, <1>5, <1>6 DEF TypeOK
<1>8. /\ \A t \in Threads : t # c => pc'[t] = pc[t]
      /\ pc' # pc => pc[c] \in {"idle", "front"} /\ pc'[c] \in {"idle", "front"}
  BY <1>1, <1>5, <1>6 DEF TypeOK
<1>9. LockOK' /\ Phase' = Phase
  <2>1. CASE pc' = pc
    BY <1>1, <1>2, <2>1 DEF LockOK, Phase
  <2>2. CASE pc' # pc
    <3>1. mu # c
      BY <1>1, <1>8, <2>2 DEF LockOK
    <3>2. Phase' = Phase
      BY <1>1, <1>2, <1>8, <3>1 DEF Phase, TypeOK
    <3>3. LockOK'
      BY <1>1, <1>2, <1>6, <1>8, <2>2, <3>1 DEF LockOK, Threads
    <3> QED BY <3>2, <3>3
  <2> QED BY <2>1, <2>2
<1>10. TypeOK'
  BY <1>1, <1>2, <1>3, <1>4, <1>7 DEF TypeOK
<1>11. LineOK' /\ SizeOK' /\ UnitsOK' /\ ValuesOK'
  BY <1>1, <1>2, <1>9 DEF LineOK, SizeOK, UnitsOK, ValuesOK, Position
<1> QED BY <1>9, <1>10, <1>11 DEF Inv

------------------------------------------------------------------------------
(* The steps of pop and of a drain.                                        *)

LEMMA PopCountInv ==
    ASSUME QueueAssumption, Inv, NEW c \in Consumers, PopCount(c)
    PROVE  Inv'
<1>1. TypeOK /\ LockOK /\ LineOK /\ SizeOK /\ UnitsOK /\ ValuesOK
  BY DEF Inv
<1>2. /\ head # NULL /\ mu = NULL /\ mu' = c /\ Goto(c, "idle", "popping")
      /\ size' = size - 1
      /\ UNCHANGED <<head, tail, next, data, used, line, new, it, calls, front, knows,
                     pushed, popped>>
  BY DEF PopCount, Lock, local, history
<1>3. /\ LockOK' /\ Phase = "idle" /\ Phase' = "popping"
      /\ pc' \in [Threads -> {"idle", "counted", "filled", "linked", "front", "popping",
                              "draining"}]
      /\ mu' \in Threads \cup {NULL}
  BY <1>1, <1>2, ConsumerStep
<1>4. line # << >> /\ Len(line) \in Nat /\ Len(line) # 0 /\ size = Len(line)
  BY <1>1, <1>2, <1>3, Lengths DEF LineOK, SizeOK
<1>5. TypeOK'
  <2>1. size' \in Nat
    BY <1>2, <1>4
  <2> QED BY <1>1, <1>2, <1>3, <2>1 DEF TypeOK
<1>6. LineOK' /\ SizeOK' /\ UnitsOK' /\ ValuesOK'
  BY <1>1, <1>2, <1>3, <1>4 DEF LineOK, SizeOK, UnitsOK, ValuesOK, Position
<1> QED BY <1>3, <1>5, <1>6 DEF Inv

LEMMA PopUnlinkInv ==
    ASSUME QueueAssumption, Inv, NEW c \in Consumers, PopUnlink(c)
    PROVE  Inv'
<1> DEFINE L == Len(line)
<1>1. TypeOK /\ LockOK /\ LineOK /\ SizeOK /\ UnitsOK /\ ValuesOK
  BY DEF Inv
<1>2. /\ Goto(c, "popping", "idle") /\ mu' = NULL
      /\ head' = next[head] /\ tail' = IF next[head] = NULL THEN NULL ELSE tail
      /\ used' = used \ {head} /\ line' = Tail(line)
      /\ popped' = Append(popped, data[head])
      /\ front' = [front EXCEPT ![c] = Nothing] /\ knows' = [knows EXCEPT ![c] = FALSE]
      /\ UNCHANGED <<next, data, size, new, it, calls, pushed>>
  BY DEF PopUnlink, Unlock
<1>3. mu = c
  BY <1>1, <1>2, Inside DEF Goto
<1>4. /\ LockOK' /\ Phase = "popping" /\ Phase' = "idle"
      /\ pc' \in [Threads -> {"idle", "counted", "filled", "linked", "front", "popping",
                              "draining"}]
      /\ mu' \in Threads \cup {NULL}
  BY <1>1, <1>2, <1>3, ConsumerStep
<1>5. /\ L \in Nat /\ L >= 1 /\ line # << >> /\ head = line[1] /\ head \in Nodes
      /\ \A i \in 1 .. L : line[i] \in Nodes
      /\ tail = line[L] /\ next[tail] = NULL /\ size = L - 1
  BY <1>1, <1>4, Lengths DEF SizeOK, LineOK
<1>6. /\ line' \in Seq(Nodes) /\ Len(line') = L - 1
      /\ \A i \in 1 .. L - 1 : line'[i] = line[i + 1] /\ i + 1 \in 1 .. L
      /\ line' = << >> <=> L = 1
  <2>1. line' \in Seq(Nodes) /\ Len(line') = L - 1
    BY <1>1, <1>2, <1>5 DEF TypeOK
  <2>2. ASSUME NEW i \in 1 .. L - 1 PROVE line'[i] = line[i + 1] /\ i + 1 \in 1 .. L
    BY <1>1, <1>2, <1>5 DEF TypeOK
  <2>3. line' = << >> <=> L = 1
    BY <1>5, <2>1
  <2> QED BY <2>1, <2>2, <2>3
<1>7. IF L = 1 THEN next[head] = NULL ELSE next[head] = line[2] /\ line[2] \in Nodes
  <2>1. CASE L = 1
    BY <1>5, <2>1
  <2>2. CASE L # 1
    <3>1. 1 \in 1 .. L - 1 /\ 2 \in 1 .. L
      BY <1>5, <2>2
    <3> QED BY <1>1, <1>5, <2>2, <3>1 DEF LineOK
  <2> QED BY <2>1, <2>2
<1>8. NULL \notin Nodes
  BY QueueAssumption DEF QueueAssumption
<1>9. data[head] = pushed[Len(pushed) - L + 1] /\ Len(popped) + 1 = Len(pushed) - L + 1
      /\ Len(popped) \in Nat /\ Len(pushed) \in Nat /\ L <= Len(pushed)
  <2>1. Position = 1 /\ 1 \in 1 .. L
    BY <1>1, <1>4, <1>5 DEF ValuesOK
  <2> QED BY <1>1, <1>5, <2>1, Lengths DEF ValuesOK, Position
<1>10. /\ data[head] \in Values /\ popped' \in Seq(Values)
       /\ Len(popped') = Len(popped) + 1
       /\ popped'[Len(popped) + 1] = data[head]
       /\ \A i \in 1 .. Len(popped) : popped'[i] = popped[i]
  <2>1. data[head] \in Values
    BY <1>1, <1>5, <1>9 DEF TypeOK
  <2> QED BY <1>1, <1>2, <2>1 DEF TypeOK
<1>11. TypeOK'
  <2>1. head' \in Pointer /\ tail' \in Pointer
    BY <1>1, <1>2, <1>5 DEF TypeOK, Pointer
  <2>2. front' \in [Consumers -> Values \cup {Nothing}] /\ knows' \in [Consumers -> BOOLEAN]
    BY <1>1, <1>2 DEF TypeOK
  <2> QED BY <1>1, <1>2, <1>4, <1>6, <1>10, <2>1, <2>2 DEF TypeOK
<1>12. LineOK'
  <2>1. \A i, j \in 1 .. L - 1 : line'[i] = line'[j] => i = j
    BY <1>1, <1>5, <1>6 DEF LineOK
  <2>2. line' = << >> => head' = NULL
    BY <1>2, <1>6, <1>7
  <2>3. line' # << >> => head' = line'[1] /\ tail' = line'[L - 1] /\ next'[tail'] = NULL
    <3>1. SUFFICES ASSUME L # 1
                   PROVE  head' = line'[1] /\ tail' = line'[L - 1] /\ next'[tail'] = NULL
      BY <1>6
    <3>2. 1 \in 1 .. L - 1 /\ L - 1 \in 1 .. L - 1
      BY <1>5, <3>1
    <3> QED BY <1>2, <1>5, <1>6, <1>7, <1>8, <3>1, <3>2
  <2>4. ASSUME NEW i \in 1 .. L - 2 PROVE next'[line'[i]] = line'[i + 1]
    <3>1. i \in 1 .. L - 1 /\ i + 1 \in 1 .. L - 1
      BY <1>5
    <3> QED BY <1>1, <1>2, <1>6, <3>1 DEF LineOK
  <2>5. Len(line') - 1 = L - 2
    BY <1>5, <1>6
  <2> QED BY <1>6, <2>1, <2>2, <2>3, <2>4, <2>5 DEF LineOK
<1>13. SizeOK'
  BY <1>2, <1>4, <1>5, <1>6 DEF SizeOK
<1>14. UnitsOK'
  <2>1. ASSUME NEW i \in 1 .. L - 1 PROVE line'[i] \in used'
    <3>1. line[i + 1] # line[1] /\ line[i + 1] \in used
      BY <1>1, <1>5, <1>6 DEF LineOK, UnitsOK
    <3> QED BY <1>2, <1>5, <1>6, <3>1
  <2>2. ASSUME NEW m \in used' PROVE \E i \in 1 .. L - 1 : line'[i] = m
    <3>1. m \in used /\ m # line[1]
      BY <1>2, <1>5
    <3>2. PICK j \in 1 .. L : line[j] = m
      BY <1>1, <1>4, <3>1 DEF UnitsOK
    <3>3. j - 1 \in 1 .. L - 1
      BY <1>5, <3>1, <3>2
    <3>4. line'[j - 1] = line[j]
      BY <1>5, <1>6, <3>2, <3>3
    <3> QED BY <3>2, <3>3, <3>4
  <2> QED BY <1>4, <1>6, <2>1, <2>2 DEF UnitsOK
<1>15. ValuesOK'
  <2>1. Len(line') <= Len(pushed) /\ Len(popped') <= Len(pushed)
    BY <1>5, <1>6, <1>9, <1>10
  <2>2. ASSUME NEW i \in 1 .. L - 1
        PROVE  data[line'[i]] = pushed[Len(pushed) - (L - 1) + i]
    <3>1. Len(pushed) - (L - 1) + i = Len(pushed) - L + (i + 1)
      BY <1>5, <1>9
    <3> QED BY <1>1, <1>6, <3>1 DEF ValuesOK
  <2>3. ASSUME NEW i \in 1 .. Len(popped) + 1 PROVE popped'[i] = pushed[i]
    <3>1. CASE i \in 1 .. Len(popped)
      BY <1>1, <1>10, <3>1 DEF ValuesOK
    <3>2. CASE i = Len(popped) + 1
      BY <1>9, <1>10, <3>2
    <3> QED BY <1>9, <3>1, <3>2
  <2>4. Position' = 1
    BY <1>2, <1>5, <1>6, <1>9, <1>10 DEF Position
  <2> QED BY <1>2, <1>4, <1>6, <1>10, <2>1, <2>2, <2>3, <2>4 DEF ValuesOK
<1> QED BY <1>4, <1>11, <1>12, <1>13, <1>14, <1>15 DEF Inv

LEMMA DrainBeginInv ==
    ASSUME QueueAssumption, Inv, NEW c \in Consumers, DrainBegin(c)
    PROVE  Inv'
<1>1. TypeOK /\ LockOK /\ LineOK /\ SizeOK /\ UnitsOK /\ ValuesOK
  BY DEF Inv
<1>2. /\ mu = NULL /\ mu' = c /\ Goto(c, "idle", "draining") /\ it' = head
      /\ UNCHANGED <<head, tail, next, data, size, used, line, new, calls, front, knows,
                     pushed, popped>>
  BY DEF DrainBegin, Lock, shared, history
<1>3. /\ LockOK' /\ Phase = "idle" /\ Phase' = "draining"
      /\ pc' \in [Threads -> {"idle", "counted", "filled", "linked", "front", "popping",
                              "draining"}]
      /\ mu' \in Threads \cup {NULL}
  BY <1>1, <1>2, ConsumerStep
<1>4. Len(line) \in Nat /\ Position = 1 /\ Position' = 1
  BY <1>1, <1>2, <1>3, Lengths DEF ValuesOK, Position
<1>5. TypeOK'
  BY <1>1, <1>2, <1>3 DEF TypeOK
<1>6. LineOK' /\ UnitsOK'
  BY <1>1, <1>2, <1>3 DEF LineOK, UnitsOK
<1>7. SizeOK'
  BY <1>1, <1>2, <1>3, <1>4 DEF SizeOK
<1>8. ValuesOK'
  <2>1. head = IF 1 = Len(line) + 1 THEN NULL ELSE line[1]
    BY <1>1, <1>4, Lengths DEF LineOK
  <2> QED BY <1>1, <1>2, <1>3, <1>4, <2>1 DEF ValuesOK
<1> QED BY <1>3, <1>5, <1>6, <1>7, <1>8 DEF Inv

LEMMA DrainNextInv ==
    ASSUME QueueAssumption, Inv, NEW c \in Consumers, DrainNext(c)
    PROVE  Inv'
<1> DEFINE L == Len(line)
           P == Position
<1>1. TypeOK /\ LockOK /\ LineOK /\ SizeOK /\ UnitsOK /\ ValuesOK
  BY DEF Inv
<1>2. /\ pc[c] = "draining" /\ it # NULL /\ size' = size - 1
      /\ popped' = Append(popped, data[it]) /\ it' = next[it]
      /\ UNCHANGED <<mu, head, tail, next, data, used, line, pc, new, calls, front, knows,
                     pushed>>
  BY DEF DrainNext
<1>3. LockOK' /\ Phase = "draining" /\ Phase' = "draining"
  <2>1. Phase = "draining"
    BY <1>1, <1>2, Inside
  <2> QED BY <1>1, <1>2, <2>1 DEF LockOK, Phase
<1>4. /\ L \in Nat /\ Len(pushed) \in Nat /\ Len(popped) \in Nat /\ L <= Len(pushed)
      /\ P \in 1 .. L /\ it = line[P] /\ it \in Nodes /\ P = Len(popped) - (Len(pushed) - L) + 1
  <2>1. /\ L \in Nat /\ Len(pushed) \in Nat /\ Len(popped) \in Nat /\ L <= Len(pushed)
        /\ P \in 1 .. L + 1 /\ it = IF P = L + 1 THEN NULL ELSE line[P]
    BY <1>1, <1>3, Lengths DEF ValuesOK
  <2>2. P \in 1 .. L /\ it = line[P]
    BY <1>2, <2>1
  <2> QED BY <1>1, <2>1, <2>2, Lengths DEF Position
<1>5. /\ data[it] = pushed[Len(popped) + 1] /\ Len(popped) + 1 \in 1 .. Len(pushed)
      /\ data[it] \in Values
  <2>1. Len(pushed) - L + P = Len(popped) + 1 /\ Len(popped) + 1 \in 1 .. Len(pushed)
    <3> HIDE DEF P
    <3> QED BY <1>4
  <2>2. data[it] = pushed[Len(popped) + 1]
    BY <1>1, <1>4, <2>1 DEF ValuesOK
  <2> QED BY <1>1, <2>1, <2>2 DEF TypeOK
<1>6. /\ popped' \in Seq(Values) /\ Len(popped') = Len(popped) + 1
      /\ popped'[Len(popped) + 1] = data[it]
      /\ \A i \in 1 .. Len(popped) : popped'[i] = popped[i]
  BY <1>1, <1>2, <1>5 DEF TypeOK
<1>7. Position' = P + 1
  BY <1>2, <1>4, <1>6 DEF Position
<1>8. it' = IF P = L THEN NULL ELSE line[P + 1]
  <2>1. CASE P = L
    <3>1. line # << >>
      BY <1>1, <1>4, Lengths
    <3> QED BY <1>1, <1>2, <1>3, <1>4, <2>1, <3>1 DEF LineOK
  <2>2. CASE P # L
    <3>1. P \in 1 .. L - 1
      <4> HIDE DEF P
      <4> QED BY <1>4, <2>2
    <3> QED BY <1>1, <1>2, <1>4, <2>2, <3>1 DEF LineOK
  <2> QED BY <2>1, <2>2
<1>9. size = L - P + 1 /\ size' = L - (P + 1) + 1 /\ size' \in Nat
  <2>1. size = L - P + 1
    BY <1>1, <1>3 DEF SizeOK
  <2> HIDE DEF P
  <2> QED BY <1>2, <1>4, <2>1
<1>10. TypeOK'
  <2>1. it' \in Pointer
    BY <1>1, <1>2, <1>4 DEF TypeOK
  <2> QED BY <1>1, <1>2, <1>6, <1>9, <2>1 DEF TypeOK
<1>11. LineOK' /\ UnitsOK'
  BY <1>1, <1>2, <1>3 DEF LineOK, UnitsOK
<1>12. SizeOK'
  BY <1>2, <1>3, <1>7, <1>9 DEF SizeOK
<1>13. ValuesOK'
  <2>1. P + 1 \in 1 .. L + 1 /\ (P + 1 = L + 1 <=> P = L)
    <3> HIDE DEF P
    <3> QED BY <1>4
  <2>2. ASSUME NEW i \in 1 .. Len(popped) + 1 PROVE popped'[i] = pushed[i]
    <3>1. CASE i \in 1 .. Len(popped)
      BY <1>1, <1>6, <3>1 DEF ValuesOK
    <3>2. CASE i = Len(popped) + 1
      BY <1>5, <1>6, <3>2
    <3> QED BY <1>4, <3>1, <3>2
  <2>3. Len(popped') <= Len(pushed)
    BY <1>4, <1>5, <1>6
  <2>4. it' = IF Position' = L + 1 THEN NULL ELSE line[Position']
    BY <1>7, <1>8, <2>1
  <2> HIDE DEF P
  <2> QED BY <1>1, <1>2, <1>3, <1>6, <1>7, <2>1, <2>2, <2>3, <2>4 DEF ValuesOK
<1> QED BY <1>3, <1>10, <1>11, <1>12, <1>13 DEF Inv

LEMMA ClearInv ==
    ASSUME QueueAssumption, Inv, NEW c \in Consumers, Clear(c)
    PROVE  Inv'
<1>1. TypeOK /\ LockOK /\ LineOK /\ SizeOK /\ UnitsOK /\ ValuesOK
  BY DEF Inv
<1>2. /\ Goto(c, "draining", "idle") /\ it = NULL /\ mu' = NULL
      /\ size' = 0 /\ head' = NULL /\ tail' = NULL /\ used' = {} /\ line' = << >>
      /\ front' = [front EXCEPT ![c] = Nothing] /\ knows' = [knows EXCEPT ![c] = FALSE]
      /\ UNCHANGED <<next, data, new, it, calls, pushed, popped>>
  BY DEF Clear, Unlock, history
<1>3. mu = c
  BY <1>1, <1>2, Inside DEF Goto
<1>4. /\ LockOK' /\ Phase = "draining" /\ Phase' = "idle"
      /\ pc' \in [Threads -> {"idle", "counted", "filled", "linked", "front", "popping",
                              "draining"}]
      /\ mu' \in Threads \cup {NULL}
  BY <1>1, <1>2, <1>3, ConsumerStep
<1>5. Position = Len(line) + 1
  <2>1. /\ Position \in 1 .. Len(line) + 1
        /\ Position \in 1 .. Len(line) => it \in Nodes
    BY <1>1, <1>4, Lengths DEF ValuesOK
  <2>2. Position \notin 1 .. Len(line) /\ Len(line) \in Nat /\ Position \in Int
    BY <1>1, <1>2, <2>1, Lengths, QueueAssumption DEF QueueAssumption
  <2> QED BY <2>1, <2>2
<1>6. Len(popped) = Len(pushed) /\ Len(line') = 0 /\ Position' = 1
  BY <1>1, <1>2, <1>5, Lengths DEF Position
<1>7. TypeOK'
  <2>1. front' \in [Consumers -> Values \cup {Nothing}] /\ knows' \in [Consumers -> BOOLEAN]
    BY <1>1, <1>2 DEF TypeOK
  <2>2. head' \in Pointer /\ tail' \in Pointer /\ size' \in Nat /\ line' \in Seq(Nodes)
    BY <1>2 DEF Pointer
  <2> QED BY <1>1, <1>2, <1>4, <2>1, <2>2 DEF TypeOK
<1>8. LineOK' /\ SizeOK'
  BY <1>2, <1>4, <1>6 DEF LineOK, SizeOK
<1>9. UnitsOK'
  BY <1>2, <1>4, <1>6 DEF UnitsOK
<1>10. ValuesOK'
  BY <1>1, <1>2, <1>4, <1>6, Lengths DEF ValuesOK
<1> QED BY <1>4, <1>7, <1>8, <1>9, <1>10 DEF Inv

------------------------------------------------------------------------------

LEMMA NextInv == ASSUME QueueAssumption, Inv, [Next]_vars PROVE Inv'
<1>1. ASSUME NEW p \in Producers, Push(p) PROVE Inv'
  BY <1>1, PushCountInv, PushAllocInv, PushLinkInv, PushSealInv DEF Push
<1>2. ASSUME NEW c \in Consumers,
             HasData(c) \/ FrontOfNone(c) \/ FrontNotNull(c) \/ FrontRead(c) \/ PopNone(c)
      PROVE  Inv'
  BY <1>2, ReadInv
<1>3. ASSUME NEW c \in Consumers, PopCount(c) \/ PopUnlink(c) PROVE Inv'
  BY <1>3, PopCountInv, PopUnlinkInv
<1>4. ASSUME NEW c \in Consumers, Drain(c) PROVE Inv'
  BY <1>4, DrainBeginInv, DrainNextInv, ClearInv DEF Drain
<1>5. CASE UNCHANGED vars
  BY <1>5 DEF vars, Inv, TypeOK, LockOK, LineOK, SizeOK, UnitsOK, ValuesOK, Phase, Position
<1> QED BY <1>1, <1>2, <1>3, <1>4, <1>5 DEF Next, Pop

\* The inductive invariant of the queue: who holds the mutex, and what the list
\* and the counted size have of the messages pushed and popped so far.
THEOREM QueueInvariant == Spec => []Inv
<1>1. Init => Inv
  BY InitInv, QueueAssumption
<1>2. Inv /\ [Next]_vars => Inv'
  BY NextInv, QueueAssumption
<1> QED BY <1>1, <1>2, PTL DEF Spec

\* The variables keep their types; in particular _size, which is unsigned, never
\* goes below zero, although pop and the drain count before they unlink.
THEOREM QueueTypeOK == Spec => []TypeOK
<1>1. Inv => TypeOK
  BY DEF Inv
<1> QED BY <1>1, QueueInvariant, PTL

LEMMA InvListOK == ASSUME QueueAssumption, Inv PROVE ListOK
<1>1. TypeOK /\ LineOK /\ SizeOK /\ UnitsOK
  BY DEF Inv
<1>2. SUFFICES ASSUME mu = NULL PROVE ListOK
  BY DEF ListOK
<1>3. Phase = "idle"
  BY <1>2 DEF Phase
<1>4. used = {line[i] : i \in DOMAIN line}
  <2>1. \A n \in used : n \in {line[i] : i \in DOMAIN line}
    BY <1>1, <1>3, Lengths DEF UnitsOK
  <2>2. \A n \in {line[i] : i \in DOMAIN line} : n \in used
    BY <1>1, Lengths DEF UnitsOK
  <2> QED BY <2>1, <2>2
<1>5. size = Len(line)
  BY <1>1, <1>3 DEF SizeOK
<1>6. \A i, j \in DOMAIN line : line[i] = line[j] => i = j
  BY <1>1, Lengths DEF LineOK
<1>7. IF line = << >> THEN head = NULL
      ELSE /\ head = line[1] /\ tail = line[Len(line)] /\ next[tail] = NULL
           /\ \A i \in 1 .. Len(line) - 1 : next[line[i]] = line[i + 1]
  BY <1>1, <1>3 DEF LineOK
<1> QED BY <1>4, <1>5, <1>6, <1>7 DEF ListOK

\* Whenever the mutex is free the queue is a list: the links run through the
\* nodes in the order of the pushes, and _size and the pool's units count them.
THEOREM QueueListOK == Spec => []ListOK
<1>1. Inv => ListOK
  BY InvListOK, QueueAssumption
<1> QED BY <1>1, QueueInvariant, PTL

------------------------------------------------------------------------------
(* The queue implements the channel, with any number of consumers.         *)

LEMMA ChannelStep ==
    ASSUME QueueAssumption, Inv, Inv', [Next]_vars
    PROVE  [Channel!Next]_<<pushed, popped>>
<1>1. ASSUME NEW p \in Producers, PushLink(p)
      PROVE  Channel!Send
  <2>1. new[p] \in used /\ data[new[p]] \in Values
    <3>1. Phase = "filled" /\ mu = p
      BY <1>1, Inside DEF Inv, PushLink, Goto
    <3> QED BY <3>1 DEF Inv, UnitsOK
  <2> QED BY <1>1, <2>1 DEF PushLink, Channel!Send
<1>2. ASSUME UNCHANGED pushed, NEW v, popped' = Append(popped, v)
      PROVE  Channel!Deliver
  <2>1. /\ popped \in Seq(Values) /\ popped' \in Seq(Values) /\ pushed \in Seq(Values)
        /\ Len(popped') <= Len(pushed)
        /\ \A i \in 1 .. Len(popped') : popped'[i] = pushed[i]
    BY <1>2 DEF Inv, TypeOK, ValuesOK
  <2>2. Len(popped) \in Nat /\ Len(popped') = Len(popped) + 1 /\ popped'[Len(popped) + 1] = v
    BY <1>2, <2>1
  <2>3. v = pushed[Len(popped) + 1] /\ Len(popped) < Len(pushed)
    BY <2>1, <2>2
  <2> QED BY <1>2, <2>3 DEF Channel!Deliver
<1>3. ASSUME NEW c \in Consumers, PopUnlink(c) \/ DrainNext(c) PROVE Channel!Deliver
  BY <1>2, <1>3 DEF PopUnlink, DrainNext
<1>4. ASSUME NEW p \in Producers, PushCount(p) \/ PushAlloc(p) \/ PushSeal(p)
      PROVE  UNCHANGED <<pushed, popped>>
  BY <1>4 DEF PushCount, PushAlloc, PushSeal, history
<1>5. ASSUME NEW c \in Consumers,
             \/ HasData(c) \/ FrontOfNone(c) \/ FrontNotNull(c) \/ FrontRead(c)
             \/ PopNone(c) \/ PopCount(c) \/ DrainBegin(c) \/ Clear(c)
      PROVE  UNCHANGED <<pushed, popped>>
  BY <1>5 DEF HasData, FrontOfNone, FrontNotNull, FrontRead, PopNone, PopCount, DrainBegin,
              Clear, history
<1>6. CASE UNCHANGED vars
  BY <1>6 DEF vars
<1> QED BY <1>1, <1>3, <1>4, <1>5, <1>6 DEF Next, Push, Pop, Drain, Channel!Next

\* The queue implements the channel: what pop and getVal return is what push was
\* given, in that order, each value once, whatever the threads do.
THEOREM QueueImplementsChannel == Spec => ImplementsChannel
<1>1. Init => Channel!Init
  BY DEF Init, Channel!Init
<1>2. Inv /\ Inv' /\ [Next]_vars => [Channel!Next]_<<pushed, popped>>
  BY ChannelStep, QueueAssumption
<1> QED BY <1>1, <1>2, QueueInvariant, PTL DEF Spec, ImplementsChannel, Channel!Spec

------------------------------------------------------------------------------
(* What a sole consumer reads without the mutex.                           *)

SoleConsumer == \A c, d \in Consumers : c = d

\* A consumer that saw data finds a node, or a push is about to link one.
KnowsOK == \A c \in Consumers : knows[c] => line # << >> \/ Phase \in {"counted", "filled"}

LEMMA ProducerKeepsReads ==
    ASSUME QueueAssumption, Inv, FrontIsNext, KnowsOK, NEW p \in Producers, Push(p)
    PROVE  FrontIsNext' /\ KnowsOK'
<1>1. TypeOK /\ LockOK /\ UnitsOK
  BY DEF Inv
<1>2. /\ front' = front /\ knows' = knows /\ p \in Threads /\ p # NULL
      /\ pc \in [Threads -> {"idle", "counted", "filled", "linked", "front", "popping",
                             "draining"}]
  BY <1>1 DEF Push, PushCount, PushAlloc, PushLink, PushSeal, local, Threads, QueueAssumption,
              TypeOK
<1>3. CASE PushCount(p)
  <2>1. line' = line /\ data' = data /\ mu' = p /\ pc' = [pc EXCEPT ![p] = "counted"]
    BY <1>3 DEF PushCount, Lock, Goto
  <2>2. Phase' = "counted"
    BY <1>2, <2>1 DEF Phase
  <2> QED BY <1>2, <2>1, <2>2 DEF FrontIsNext, KnowsOK
<1>4. CASE PushAlloc(p)
  <2>1. /\ line' = line /\ mu' = mu /\ pc[p] = "counted"
        /\ pc' = [pc EXCEPT ![p] = "filled"]
    BY <1>4 DEF PushAlloc, Goto
  <2>2. Phase' = "filled"
    BY <1>1, <1>2, <2>1, Inside DEF Phase
  <2>3. PICK n \in Nodes \ used : data' = [data EXCEPT ![n] = calls + 1]
    BY <1>4 DEF PushAlloc
  <2>4. line # << >> => line[1] # n /\ line[1] \in Nodes
    BY <1>1, <2>3, Lengths DEF UnitsOK
  <2>5. line # << >> => data'[line[1]] = data[line[1]]
    BY <1>1, <2>3, <2>4 DEF TypeOK
  <2> QED BY <1>2, <2>1, <2>2, <2>5 DEF FrontIsNext, KnowsOK
<1>5. CASE PushLink(p)
  <2>1. Phase = "filled" /\ mu = p
    BY <1>1, <1>5, Inside DEF PushLink, Goto
  <2>2. new[p] \in Nodes /\ line' = Append(line, new[p]) /\ data' = data
    BY <1>1, <1>5, <2>1 DEF UnitsOK, TypeOK, PushLink
  <2>3. line' # << >> /\ (line # << >> => line'[1] = line[1])
    BY <1>1, <2>2 DEF TypeOK
  <2> QED BY <1>2, <2>2, <2>3 DEF FrontIsNext, KnowsOK
<1>6. CASE PushSeal(p)
  <2>1. Phase = "linked"
    BY <1>1, <1>6, Inside DEF PushSeal, Goto
  <2>2. line # << >> /\ line' = line /\ data' = data
    BY <1>1, <1>6, <2>1 DEF UnitsOK, PushSeal
  <2> QED BY <1>2, <2>2 DEF FrontIsNext, KnowsOK
<1> QED BY <1>3, <1>4, <1>5, <1>6 DEF Push

LEMMA ConsumerKeepsReads ==
    ASSUME QueueAssumption, SoleConsumer, Inv, FrontIsNext, KnowsOK,
           NEW c \in Consumers,
           \/ HasData(c) \/ FrontOfNone(c) \/ FrontNotNull(c) \/ FrontRead(c) \/ Pop(c)
           \/ Drain(c)
    PROVE  FrontIsNext' /\ KnowsOK'
<1>1. TypeOK /\ LockOK /\ LineOK /\ SizeOK /\ UnitsOK
  BY DEF Inv
<1>2. Consumers = {c}
  BY DEF SoleConsumer
<1>3. CASE HasData(c)
  <2>1. /\ pc[c] = "idle" /\ pc' = pc /\ mu' = mu /\ line' = line /\ data' = data
        /\ front' = front /\ knows' = [knows EXCEPT ![c] = size > 0]
    BY <1>3 DEF HasData, shared
  <2>2. mu # c /\ Phase' = Phase
    BY <1>1, <2>1 DEF LockOK, Phase
  <2>3. Phase \in {"idle", "counted", "filled", "linked"}
    BY <1>1, <1>2, <2>2 DEF TypeOK, Threads, LockOK, Phase
  <2>4. size > 0 => line # << >> \/ Phase \in {"counted", "filled"}
    BY <1>1, <2>3, Lengths DEF SizeOK
  <2>5. knows'[c] = (size > 0)
    BY <1>1, <2>1 DEF TypeOK
  <2> QED BY <1>2, <2>1, <2>2, <2>4, <2>5 DEF FrontIsNext, KnowsOK
<1>4. CASE FrontRead(c)
  <2>1. /\ pc[c] = "front" /\ pc' = [pc EXCEPT ![c] = "idle"] /\ mu' = mu /\ line' = line
        /\ data' = data /\ knows' = knows /\ head # NULL
        /\ front' = [front EXCEPT ![c] = data[head]]
    BY <1>4 DEF FrontRead, Goto, shared
  <2>2. mu # c /\ Phase' = Phase
    BY <1>1, <2>1 DEF LockOK, Phase, TypeOK, Threads
  <2>3. line # << >> /\ head = line[1] /\ front'[c] = data[head]
    BY <1>1, <2>1 DEF LineOK, TypeOK
  <2> QED BY <1>2, <2>1, <2>2, <2>3 DEF FrontIsNext, KnowsOK
<1>5. CASE FrontOfNone(c) \/ FrontNotNull(c)
  <2>1. /\ mu' = mu /\ line' = line /\ data' = data /\ knows' = knows
        /\ front' = front \/ front' = [front EXCEPT ![c] = Nothing]
    BY <1>5 DEF FrontOfNone, FrontNotNull, shared, local
  <2>2. Phase' = Phase
    <3>1. pc' = pc \/ (pc[c] = "idle" /\ pc' = [pc EXCEPT ![c] = "front"])
      BY <1>5 DEF FrontOfNone, FrontNotNull, Goto
    <3>2. pc' # pc => mu # c
      BY <1>1, <3>1 DEF LockOK
    <3> QED BY <1>1, <2>1, <3>1, <3>2 DEF Phase, TypeOK
  <2>3. front'[c] = front[c] \/ front'[c] = Nothing
    BY <1>1, <2>1 DEF TypeOK
  <2> QED BY <1>2, <2>1, <2>2, <2>3 DEF FrontIsNext, KnowsOK
<1>6. CASE PopNone(c) \/ PopUnlink(c) \/ Clear(c)
  <2>1. front'[c] = Nothing /\ knows'[c] = FALSE
    BY <1>1, <1>6 DEF PopNone, PopUnlink, Clear, TypeOK
  <2> QED BY <1>2, <2>1 DEF FrontIsNext, KnowsOK
<1>7. CASE PopCount(c) \/ DrainBegin(c)
  <2>1. /\ mu = NULL /\ line' = line /\ data' = data /\ knows' = knows /\ front' = front
    BY <1>7 DEF PopCount, DrainBegin, Lock, shared, local
  <2>2. Phase = "idle"
    BY <2>1 DEF Phase
  <2> QED BY <2>1, <2>2 DEF FrontIsNext, KnowsOK
<1>8. CASE DrainNext(c)
  <2>1. /\ pc[c] = "draining" /\ line' = line /\ data' = data /\ knows' = knows
        /\ front' = front
    BY <1>8 DEF DrainNext
  <2>2. Phase = "draining"
    BY <1>1, <2>1, Inside
  <2> QED BY <2>1, <2>2 DEF FrontIsNext, KnowsOK
<1> QED BY <1>3, <1>4, <1>5, <1>6, <1>7, <1>8 DEF Pop, Drain

LEMMA SoleConsumerInvariant == SoleConsumer => (Spec => [](FrontIsNext /\ KnowsOK))
<1> SUFFICES ASSUME SoleConsumer PROVE Spec => [](FrontIsNext /\ KnowsOK)
  OBVIOUS
<1>1. Init => FrontIsNext /\ KnowsOK
  BY DEF Init, FrontIsNext, KnowsOK
<1>2. Inv /\ FrontIsNext /\ KnowsOK /\ [Next]_vars => (FrontIsNext /\ KnowsOK)'
  <2>1. SUFFICES ASSUME Inv, FrontIsNext, KnowsOK, [Next]_vars
                 PROVE  FrontIsNext' /\ KnowsOK'
    OBVIOUS
  <2>2. CASE UNCHANGED vars
    BY <2>1, <2>2 DEF vars, FrontIsNext, KnowsOK, Phase
  <2> QED BY <2>1, <2>2, ProducerKeepsReads, ConsumerKeepsReads, QueueAssumption DEF Next
<1> QED BY <1>1, <1>2, QueueInvariant, PTL DEF Spec

\* With one consumer, what front returned without the mutex is what the next pop
\* removes, however many pushes come between.
THEOREM QueueFrontIsNext == SoleConsumer => (Spec => []FrontIsNext)
<1>1. FrontIsNext /\ KnowsOK => FrontIsNext
  OBVIOUS
<1> QED BY <1>1, SoleConsumerInvariant, PTL

\* With one consumer, a pop that follows hasData returning true finds a node.
THEOREM QueuePopAfterHasData == SoleConsumer => (Spec => []PopAfterHasData)
<1>1. Inv /\ (FrontIsNext /\ KnowsOK) => PopAfterHasData
  <2>1. SUFFICES ASSUME Inv, KnowsOK, NEW c \in Consumers, knows[c], mu = NULL
                 PROVE  head # NULL
    BY DEF PopAfterHasData
  <2>2. line # << >>
    BY <2>1 DEF KnowsOK, Phase
  <2>3. head \in Nodes
    BY <2>1, <2>2, Lengths DEF Inv, LineOK
  <2> QED BY <2>3, QueueAssumption DEF QueueAssumption
<1> QED BY <1>1, QueueInvariant, SoleConsumerInvariant, PTL
==============================================================================
