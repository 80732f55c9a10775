-------------------------- MODULE PacketQueue_proofs --------------------------
(***************************************************************************)
(* The queue of packets, for every number of packets, every size of the    *)
(* preallocated ring and every interleaving of its three threads.          *)
(*                                                                         *)
(* Followed from readPointer, the links go once through every node: there  *)
(* is a walk g of the ring, and a p such that writePointer is p steps on.  *)
(* The p nodes before it hold the last p packets that were published, in   *)
(* order; what was read before stands in line in the pool, or was handed   *)
(* out or freed.  Each step keeps such a walk, or finds a new one where    *)
(* the ring grows or its first node is freed.                              *)
(***************************************************************************)
EXTENDS PacketQueue, FiniteSetTheorems, SequenceTheorems, TLAPS

-----------------------------------------------------------------------------
(* Counting along the links.                                               *)

\* A set of numbers up to n that has 0 and goes up by one has n: else adding one
\* would map it one to one into itself without 0, and it is finite.
LEMMA Climb ==
    ASSUME NEW n \in Nat, NEW A \in SUBSET (0..n), 0 \in A,
           \A k \in A : k < n => k + 1 \in A
    PROVE  n \in A
  <1> SUFFICES ASSUME n \notin A PROVE FALSE
    OBVIOUS
  <1> DEFINE up == [k \in A |-> k + 1]
  <1>1. IsFiniteSet(A)
    <2>1. IsFiniteSet(0..n)
      BY FS_Interval
    <2> QED
      BY <2>1, FS_Subset
  <1>2. IsFiniteSet(A \ {0}) /\ Cardinality(A \ {0}) < Cardinality(A)
    <2>1. Cardinality(A) \in Nat
      BY <1>1, FS_CardinalityType
    <2>2. IsFiniteSet(A \ {0}) /\ Cardinality(A \ {0}) = Cardinality(A) - 1
      BY <1>1, FS_RemoveElement
    <2> QED
      BY <2>1, <2>2
  <1>3. up \in [A -> A \ {0}]
    OBVIOUS
  <1>4. PICK j, k \in A : j # k /\ up[j] = up[k]
    <2> HIDE DEF up
    <2> QED
      BY <1>1, <1>2, <1>3, FS_PigeonHole
  <1> QED
    BY <1>4

\* What After counts out step by step is what any function counts that starts
\* and steps as it does.
LEMMA AfterIs ==
    ASSUME NEW n \in Nat, NEW s, NEW f,
           f = [k \in 0..n |-> IF k = 0 THEN s ELSE next[f[k - 1]]]
    PROVE  After(s, n) = f[n]
  <1> DEFINE at == CHOOSE h : h = [k \in 0..n |-> IF k = 0 THEN s ELSE next[h[k - 1]]]
  <1>1. After(s, n) = at[n]
    BY DEF After
  <1>2. at = [k \in 0..n |-> IF k = 0 THEN s ELSE next[at[k - 1]]]
    OBVIOUS
  <1> HIDE DEF at
  <1> DEFINE A == { k \in 0..n : at[k] = f[k] }
  <1>3. 0 \in A
    BY <1>2
  <1>4. ASSUME NEW k \in A, k < n
        PROVE  k + 1 \in A
    <2>1. k + 1 \in 0..n /\ (k + 1) - 1 = k /\ k + 1 # 0
      BY <1>4
    <2>2. at[k + 1] = next[at[k]]
      BY <1>2, <2>1
    <2>3. f[k + 1] = next[f[k]]
      BY <2>1
    <2> QED
      BY <2>1, <2>2, <2>3
  <1>5. n \in A
    <2>1. A \in SUBSET (0..n)
      OBVIOUS
    <2> HIDE DEF A
    <2> QED
      BY <2>1, <1>3, <1>4, Climb
  <1> QED
    BY <1>1, <1>5

-----------------------------------------------------------------------------
(* The ring, seen as a walk: step i from readPointer is node g[i].         *)

Last == Len(next) - 1

Ring(g) ==
    /\ g \in [0..Last -> Nodes]
    /\ \A i, j \in 0..Last : g[i] = g[j] => i = j
    /\ \A i \in 0..(Last - 1) : next[g[i]] = g[i + 1]
    /\ next[g[Last]] = g[0]
    /\ g[0] = readPointer

\* What Clear has emptied is no ring to walk any more.
Cleared == reading["daemon"] \in { "pool", "returned" }

Locked   == \E r \in Readers : reading[r] \in InLock
Taken    == \E r \in Readers : reading[r] \in { "fetch", "unready", "release" }
Fetched  == \E r \in Readers : reading[r] \in { "unready", "release" }
Unreadied == \E r \in Readers : reading[r] = "release"

\* The packets a reader can be given: all but the one being added.
Published == IF writing = "idle" THEN packets ELSE packets - 1

\* The writer is p nodes ahead of the readers and has one of its own.
WriterAt(g, p) ==
    /\ p \in 0..Last
    /\ writePointer = g[p]
    /\ writing \in { "ready", "publish" } => p < Last /\ writeAheadPointer = g[p + 1]
    /\ writing \notin { "ready", "publish" } => writeAheadPointer = g[p]
    /\ writing \in { "testNext", "advance" } => p < Last
    /\ writing \in { "ready", "publish" } => object[g[p]] = packets
    /\ writing = "publish" => readyToRead[g[p]]

\* The p nodes between them hold the last p packets.
Holds(g, p) ==
    /\ p <= Published
    /\ \A k \in 0..(p - 1) : object[g[k]] = Published - p + 1 + k
    /\ \A k \in 0..(p - 1) : (Unreadied /\ k = 0) \/ readyToRead[g[k]]

\* A reader takes one node at a time.
ReaderAt(g, p) ==
    /\ Locked => p > 0
    /\ readAheadPointer = g[IF Taken THEN 1 ELSE 0]
    /\ \A r \in Readers : reading[r] = "fetch" => last[r] = g[0]

\* How many packets were read when the writer is p nodes ahead.
Gone(p) == Published - p + (IF Fetched THEN 1 ELSE 0)

\* A packet that was read is somewhere.
Accounted(q) ==
    \/ \E i \in 1..Len(returned) : returned[i] = q
    \/ \E i \in 1..Len(packetPool) : packetPool[i] = q
    \/ packet["main"] = q
    \/ q \in freed

\* Packets up to n were read, and none is lost: they stand in line, returned before pooled
\* before held, but for those that Disconnect freed.
Line(n) ==
    /\ \A i \in 1..Len(returned) : returned[i] <= n /\ returned[i] \notin freed
    /\ \A i \in 1..Len(packetPool) : packetPool[i] <= n /\ packetPool[i] \notin freed
    /\ packet["main"] <= n /\ packet["main"] \notin freed
    /\ \A p \in freed : p <= n
    /\ \A i, j \in 1..Len(packetPool) : i < j => packetPool[i] < packetPool[j]
    /\ \A i \in 1..Len(returned), j \in 1..Len(packetPool) : returned[i] < packetPool[j]
    /\ packet["main"] # NoPacket =>
          /\ \A i \in 1..Len(returned) : returned[i] < packet["main"]
          /\ \A i \in 1..Len(packetPool) : packetPool[i] < packet["main"]
    /\ reading["main"] \in { "unready", "release" } => packet["main"] = n
    /\ reading["daemon"] \in { "unready", "release" } => n \in freed
    /\ \A q \in 1..n : Accounted(q)

\* The network thread has ended before the daemon thread reads.
ThreadInv ==
    /\ reading["daemon"] \notin { "accept", "disconnect", "wait" } => ~isMainLoopThreadActive
    /\ ~isMainLoopThreadActive => writing = "idle"
    /\ packet["daemon"] = NoPacket
    /\ reading["main"] = "fetch" => packet["main"] = NoPacket

Going ==
    \E g \in [0..Last -> Nodes], p \in 0..Last :
        /\ Ring(g) /\ WriterAt(g, p) /\ Holds(g, p) /\ ReaderAt(g, p)
        /\ reading["daemon"] = "clear" => p = 0
        /\ Line(Gone(p))

Emptied ==
    /\ { readAheadPointer, writePointer, writeAheadPointer } = { readPointer }
    /\ ~Locked
    /\ Line(packets)

QueueInv ==
    /\ MinimumListSize <= Len(next)
    /\ ThreadInv
    /\ ~Misused => IF Cleared THEN Emptied ELSE Going

ReaderStates == InLock \cup { "loop", "lock", "pop", "left", "accept", "disconnect", "wait",
                              "clear", "pool", "returned" }

\* Append and Len need sequences.
Arrays ==
    /\ next \in Seq(Nat) /\ readyToRead \in Seq(BOOLEAN) /\ object \in Seq(Nat)
    /\ reading \in [Readers -> ReaderStates]

\* The inductive invariant.
IInv == TypeOK /\ Arrays /\ QueueInv

-----------------------------------------------------------------------------
\* The arrays are of one length, and the positions on them numbers.
LEMMA Shape ==
    ASSUME TypeOK, Arrays, MinimumListSize <= Len(next)
    PROVE  /\ Len(next) \in Nat /\ Len(next) >= 3 /\ Last \in Nat /\ Last >= 2
           /\ Last + 1 = Len(next)
           /\ Len(readyToRead) = Len(next) /\ Len(object) = Len(next)
           /\ DOMAIN next = Nodes /\ DOMAIN readyToRead = Nodes /\ DOMAIN object = Nodes
           /\ 1 \in Nodes
  <1>1. Len(next) \in Nat /\ Len(readyToRead) \in Nat /\ Len(object) \in Nat
    BY LenProperties DEF Arrays
  <1>2. Len(next) >= 3
    BY <1>1, QueueAssumption
  <1>3. DOMAIN next = 1..Len(next) /\ DOMAIN readyToRead = 1..Len(readyToRead)
        /\ DOMAIN object = 1..Len(object)
    BY LenProperties DEF Arrays
  <1>4. DOMAIN readyToRead = 1..Len(next) /\ DOMAIN object = 1..Len(next)
    BY DEF TypeOK, Nodes
  <1>5. \A m, n \in Nat : 1..m = 1..n => m = n
    <2> SUFFICES ASSUME NEW m \in Nat, NEW n \in Nat, 1..m = 1..n PROVE m = n
      OBVIOUS
    <2>1. \A i \in Nat : i \in 1..m <=> i \in 1..n
      OBVIOUS
    <2>2. m > 0 => m <= n
      BY <2>1
    <2>3. n > 0 => n <= m
      BY <2>1
    <2> QED
      BY <2>2, <2>3
  <1>6. Len(readyToRead) = Len(next) /\ Len(object) = Len(next)
    BY <1>1, <1>3, <1>4, <1>5
  <1> QED
    BY <1>1, <1>2, <1>3, <1>4, <1>6 DEF Last, Nodes

\* A ring that is not changed stays the ring it was.
LEMMA SameRing ==
    ASSUME NEW g, Ring(g), next' = next, readPointer' = readPointer
    PROVE  Ring(g)' /\ Last' = Last /\ Nodes' = Nodes
  BY DEF Ring, Last, Nodes

\* Every node is somewhere on the ring, and the next of one is the one a step on.
LEMMA RingFacts ==
    ASSUME TypeOK, Arrays, MinimumListSize <= Len(next), NEW g, Ring(g)
    PROVE  /\ \A i \in 0..Last : g[i] \in Nodes
           /\ \A i \in 0..Last : i < Last => next[g[i]] = g[i + 1]
           /\ \A i \in 0..Last : next[g[i]] = g[0] => i = Last
           /\ g[0] = readPointer
  <1> USE Shape DEF Ring
  <1>1. \A i \in 0..Last : g[i] \in Nodes
    OBVIOUS
  <1>2. \A i \in 0..Last : i < Last => next[g[i]] = g[i + 1]
    OBVIOUS
  <1>3. ASSUME NEW i \in 0..Last, i < Last
        PROVE  next[g[i]] # g[0]
    <2>1. i + 1 \in 0..Last /\ 0 \in 0..Last /\ i + 1 # 0
      BY <1>3
    <2> QED
      BY <1>2, <1>3, <2>1
  <1> QED
    BY <1>1, <1>2, <1>3

\* To show that the ring still goes round.
LEMMA GoingWith ==
    ASSUME NEW g, NEW p,
           Ring(g)', WriterAt(g, p)', Holds(g, p)', ReaderAt(g, p)',
           reading'["daemon"] = "clear" => p = 0, Line(Gone(p))'
    PROVE  Going'
  <1>1. g \in [0..Last' -> Nodes'] /\ p \in 0..Last'
    BY DEF Ring, WriterAt
  <1> QED
    BY <1>1 DEF Going

\* The readers stand where they stood.
LEMMA SameReaders ==
    ASSUME UNCHANGED << reader, locals >>
    PROVE  /\ Misused' = Misused /\ Cleared' = Cleared /\ Locked' = Locked /\ Taken' = Taken
           /\ Fetched' = Fetched /\ Unreadied' = Unreadied
           /\ reading' = reading /\ last' = last /\ packet' = packet
           /\ readPointer' = readPointer /\ readAheadPointer' = readAheadPointer
  BY DEF reader, locals, Misused, Cleared, Locked, Taken, Fetched, Unreadied

LEMMA SameLine ==
    ASSUME NEW n, Line(n), UNCHANGED << locals, ends >>
    PROVE  Line(n)'
  BY DEF Line, Accounted, locals, ends

\* A step of the network thread: a published packet is one step more.
LEMMA GoingOnNetwork ==
    ASSUME IInv, ~Misused, ~Cleared, NetworkStep
    PROVE  Going'
  <1>1. PICK g \in [0..Last -> Nodes], p \in 0..Last :
          /\ Ring(g) /\ WriterAt(g, p) /\ Holds(g, p) /\ ReaderAt(g, p)
          /\ reading["daemon"] = "clear" => p = 0
          /\ Line(Gone(p))
    BY DEF IInv, QueueInv, Going
  <1>2. /\ Last \in Nat /\ Last >= 2 /\ Len(next) \in Nat /\ Last + 1 = Len(next)
        /\ packets \in Nat /\ p \in Nat /\ p <= Last /\ Published \in Int
    BY Shape, QueueAssumption DEF IInv, QueueInv, TypeOK, Published
  <1>3. /\ \A i \in 0..Last : g[i] \in Nodes
        /\ \A i \in 0..Last : i < Last => next[g[i]] = g[i + 1]
        /\ \A i \in 0..Last : next[g[i]] = g[0] => i = Last
        /\ g[0] = readPointer
        /\ \A i, j \in 0..Last : g[i] = g[j] => i = j
        /\ next[g[Last]] = g[0]
    BY <1>1, RingFacts DEF IInv, QueueInv, Ring
  <1>4. UNCHANGED << reader, locals, ends >>
    BY DEF NetworkStep, Add, TestNext, Insert, Store, Ready, Publish, ThreadEnds
  <1>5. /\ Locked' = Locked /\ Taken' = Taken /\ Fetched' = Fetched /\ Unreadied' = Unreadied
        /\ reading' = reading /\ last' = last
        /\ readPointer' = readPointer /\ readAheadPointer' = readAheadPointer
    BY <1>4, SameReaders
  <1>6. DOMAIN next = Nodes /\ DOMAIN readyToRead = Nodes /\ DOMAIN object = Nodes
        /\ Len(readyToRead) = Len(next) /\ Len(object) = Len(next)
    BY Shape DEF IInv, QueueInv
  <1>7. ASSUME NEW q, q = p \/ (q = p + 1 /\ Published' = Published + 1), 
               q = p => Published' = Published
        PROVE  Line(Gone(q))' /\ (reading'["daemon"] = "clear" /\ q = p => q = 0)
    <2>1. Gone(q)' = Gone(p)
      BY <1>2, <1>5, <1>7 DEF Gone
    <2>2. Line(Gone(p)) /\ UNCHANGED << locals, ends >>
      BY <1>1, <1>4
    <2>3. \A n : Line(n) => Line(n)'
      BY <2>2, SameLine
    <2> DEFINE n == Gone(p)
    <2>4. \A m : m = n /\ Line(m)' => Line(Gone(q))'
      BY <2>1 DEF Line, Accounted
    <2> QED
      BY <1>1, <1>5, <2>2, <2>3, <2>4
  <1>8. ASSUME Add
        PROVE  Going'
    <2>1. /\ writing = "idle" /\ packets' = packets + 1 /\ Published' = Published
          /\ writing' = IF next[g[p]] = readPointer THEN "insert" ELSE "testNext"
          /\ UNCHANGED << ring, writeAheadPointer, writePointer >>
      BY <1>1, <1>2, <1>8 DEF Add, Published, WriterAt
    <2>2. Ring(g)'
      BY <1>1, <1>5, <2>1, SameRing DEF ring
    <2>3. WriterAt(g, p)'
      <3>1. Last' = Last /\ writePointer = g[p] /\ writeAheadPointer = g[p]
        BY <1>1, <2>1, SameRing, <1>5 DEF WriterAt, ring
      <3>2. writing' = "testNext" => p < Last
        BY <1>2, <1>3, <2>1
      <3> QED
        BY <2>1, <3>1, <3>2 DEF WriterAt
    <2>4. Holds(g, p)'
      BY <1>1, <1>5, <2>1 DEF Holds, ring
    <2>5. ReaderAt(g, p)'
      BY <1>1, <1>5 DEF ReaderAt
    <2> QED
      BY <1>7, <2>1, <2>2, <2>3, <2>4, <2>5, GoingWith
  <1>9. ASSUME TestNext
        PROVE  Going'
    <2>1. /\ writing = "testNext" /\ writing' \in { "insert", "advance" } /\ packets' = packets
          /\ UNCHANGED << ring, writeAheadPointer, writePointer >>
      BY <1>9 DEF TestNext
    <2>2. Ring(g)' /\ Last' = Last /\ Published' = Published
      BY <1>1, <1>5, <2>1, SameRing DEF ring, Published
    <2>3. WriterAt(g, p)'
      BY <1>1, <2>1, <2>2 DEF WriterAt
    <2>4. Holds(g, p)'
      BY <1>1, <1>5, <2>1, <2>2 DEF Holds, ring
    <2>5. ReaderAt(g, p)'
      BY <1>1, <1>5 DEF ReaderAt
    <2> QED
      BY <1>7, <2>2, <2>3, <2>4, <2>5, GoingWith
  <1>10. ASSUME Insert
         PROVE  Going'
    <2>1. PICK garbage \in BOOLEAN : readyToRead' = Append(readyToRead, garbage)
      BY <1>10 DEF Insert
    <2>2. /\ writing = "insert" /\ writing' = "advance" /\ packets' = packets
          /\ next' = Append([next EXCEPT ![g[p]] = Len(next) + 1], next[g[p]])
          /\ object' = Append(object, NoPacket)
          /\ writePointer' = g[p] /\ writeAheadPointer' = g[p] /\ Published' = Published
      BY <1>1, <1>10 DEF Insert, WriterAt, Published
    <2>3. /\ Len(next') = Len(next) + 1
          /\ \A n \in Nodes : next'[n] = IF n = g[p] THEN Len(next) + 1 ELSE next[n]
          /\ next'[Len(next) + 1] = next[g[p]]
      <3> DEFINE linked == [next EXCEPT ![g[p]] = Len(next) + 1]
      <3>1. /\ linked \in Seq(Nat) /\ Len(linked) = Len(next)
            /\ \A n \in 1..Len(next) : linked[n] = IF n = g[p] THEN Len(next) + 1 ELSE next[n]
        BY <1>2, <1>3, ExceptSeq DEF IInv, Arrays, Nodes
      <3>2. next[g[p]] \in Nat
        BY <1>2, <1>3, SMTT(30) DEF IInv, TypeOK, Nodes
      <3> HIDE DEF linked
      <3>3. next' = Append(linked, next[g[p]])
        BY <2>2 DEF linked
      <3> QED
        BY <3>1, <3>2, <3>3, <1>2, AppendProperties DEF Nodes
    <2>4. /\ \A n \in Nodes : readyToRead'[n] = readyToRead[n]
          /\ \A n \in Nodes : object'[n] = object[n]
      BY <1>6, <2>1, <2>2, AppendProperties DEF IInv, Arrays, Nodes, NoPacket
    <2>11. PICK h : h = [i \in 0..(Last + 1) |-> IF i <= p THEN g[i] ELSE
                                                IF i = p + 1 THEN Len(next) + 1 ELSE g[i - 1]]
      OBVIOUS
    <2>5. Last' = Last + 1 /\ Nodes' = Nodes \cup { Len(next) + 1 } /\ Len(next) + 1 \notin Nodes
      BY <1>2, <2>3 DEF Last, Nodes
    <2>6. /\ \A i \in 0..p : h[i] = g[i]
          /\ h[p + 1] = Len(next) + 1
          /\ \A i \in (p + 2)..(Last + 1) : h[i] = g[i - 1]
      BY <1>2, <2>11
    <2>7. Ring(h)'
      <3>1. h \in [0..Last' -> Nodes']
        BY <1>2, <1>3, <2>5, <2>11
      <3>2. \A i, j \in 0..Last' : h[i] = h[j] => i = j
        <4> SUFFICES ASSUME NEW i \in 0..Last', NEW j \in 0..Last', h[i] = h[j]
                     PROVE  i = j
          OBVIOUS
        <4> DEFINE back(k) == IF k <= p THEN k ELSE k - 1
        <4>1. \A k \in 0..(Last + 1) : k # p + 1 =>
                 back(k) \in 0..Last /\ h[k] = g[back(k)] /\ h[k] \in Nodes
          BY <1>2, <1>3, <2>6
        <4>2. i = p + 1 <=> j = p + 1
          BY <1>2, <2>5, <2>6, <4>1
        <4>3. CASE i # p + 1 /\ j # p + 1
          <5>1. back(i) = back(j)
            BY <1>2, <1>3, <2>5, <4>1, <4>3
          <5> QED
            BY <1>2, <2>5, <4>3, <5>1
        <4> QED
          BY <4>2, <4>3
      <3>3. \A i \in 0..(Last' - 1) : next'[h[i]] = h[i + 1]
        <4> SUFFICES ASSUME NEW i \in 0..Last PROVE next'[h[i]] = h[i + 1]
          BY <1>2, <2>5
        <4>1. CASE i < p
          <5>1. h[i] = g[i] /\ h[i + 1] = g[i + 1] /\ g[i] # g[p] /\ next[g[i]] = g[i + 1]
            BY <1>2, <1>3, <2>6, <4>1
          <5> QED
            BY <1>3, <2>3, <5>1
        <4>2. CASE i = p
          BY <1>2, <1>3, <2>3, <2>6, <4>2
        <4>3. CASE i = p + 1
          <5>1. h[i] = Len(next) + 1 /\ h[i + 1] = g[p + 1] /\ p < Last
            BY <1>2, <2>6, <4>3
          <5> QED
            BY <1>3, <2>3, <5>1
        <4>4. CASE i > p + 1
          <5>1. i - 1 \in 0..Last /\ i - 1 < Last /\ (i - 1) + 1 = i /\ i - 1 # p
                /\ h[i] = g[i - 1] /\ h[i + 1] = g[i]
            BY <1>2, <2>6, <4>4
          <5>2. next[g[i - 1]] = g[i] /\ g[i - 1] # g[p] /\ g[i - 1] \in Nodes
            BY <1>2, <1>3, <5>1
          <5> QED
            BY <2>3, <5>1, <5>2
        <4> QED
          BY <1>2, <4>1, <4>2, <4>3, <4>4
      <3>4. next'[h[Last']] = h[0]
        <4>1. h[0] = g[0]
          BY <1>2, <2>6
        <4>2. CASE p = Last
          BY <1>2, <1>3, <2>3, <2>5, <2>6, <4>1, <4>2
        <4>3. CASE p < Last
          <5>1. h[Last'] = g[Last] /\ g[Last] # g[p] /\ g[Last] \in Nodes
            BY <1>2, <1>3, <2>5, <2>6, <4>3
          <5> QED
            BY <1>3, <2>3, <4>1, <5>1
        <4> QED
          BY <1>2, <4>2, <4>3
      <3>5. h[0] = readPointer'
        BY <1>2, <1>3, <1>5, <2>6
      <3> QED
        BY <3>1, <3>2, <3>3, <3>4, <3>5 DEF Ring
    <2>8. WriterAt(h, p)'
      BY <1>2, <2>2, <2>5, <2>6 DEF WriterAt
    <2>9. Holds(h, p)'
      <3>1. \A k \in 0..(p - 1) : h[k] = g[k] /\ g[k] \in Nodes
        BY <1>2, <1>3, <2>6
      <3>2. \A k \in 0..(p - 1) : object'[h[k]] = object[g[k]] /\ readyToRead'[h[k]] = readyToRead[g[k]]
        BY <2>4, <3>1
      <3> QED
        BY <1>1, <1>5, <2>2, <3>2 DEF Holds
    <2>10. ReaderAt(h, p)'
      <3>1. Taken => p > 0
        BY <1>1 DEF ReaderAt, Taken, Locked, InLock
      <3>2. h[0] = g[0] /\ (p > 0 => h[1] = g[1])
        BY <1>2, <2>6
      <3> QED
        BY <1>1, <1>5, <3>1, <3>2 DEF ReaderAt
    <2> QED
      BY <1>7, <2>2, <2>7, <2>8, <2>9, <2>10, GoingWith
  <1>11. ASSUME Store
         PROVE  Going'
    <2>1. /\ writing = "advance" /\ writing' = "ready" /\ packets' = packets /\ Published' = Published
          /\ p < Last /\ writeAheadPointer = g[p] /\ writePointer = g[p]
          /\ writeAheadPointer' = next[writeAheadPointer]
          /\ object' = [object EXCEPT ![writeAheadPointer] = packets]
          /\ UNCHANGED << next, readyToRead, writePointer >>
      BY <1>1, <1>11 DEF Store, WriterAt, Published
    <2>2. Ring(g)' /\ Last' = Last
      BY <1>1, <1>5, <2>1, SameRing
    <2>3. object'[g[p]] = packets /\ \A i \in 0..(p - 1) : object'[g[i]] = object[g[i]]
      <3>1. \A i \in 0..(p - 1) : g[i] # g[p]
        BY <1>2, <1>3
      <3> QED
        BY <1>2, <1>3, <1>6, <2>1, <3>1
    <2>4. WriterAt(g, p)'
      <3>1. writeAheadPointer' = g[p + 1]
        BY <1>3, <2>1
      <3> QED
        BY <2>1, <2>2, <2>3, <3>1 DEF WriterAt
    <2>5. Holds(g, p)'
      BY <1>1, <1>5, <2>1, <2>3 DEF Holds
    <2>6. ReaderAt(g, p)'
      BY <1>1, <1>5 DEF ReaderAt
    <2> QED
      BY <1>7, <2>1, <2>2, <2>4, <2>5, <2>6, GoingWith
  <1>12. ASSUME Ready
         PROVE  Going'
    <2>1. /\ writing = "ready" /\ writing' = "publish" /\ packets' = packets /\ Published' = Published
          /\ writePointer = g[p]
          /\ readyToRead' = [readyToRead EXCEPT ![writePointer] = TRUE]
          /\ UNCHANGED << next, object, writePointer, writeAheadPointer >>
      BY <1>1, <1>12 DEF Ready, WriterAt, Published
    <2>2. Ring(g)' /\ Last' = Last
      BY <1>1, <1>5, <2>1, SameRing
    <2>3. /\ readyToRead'[g[p]] = TRUE
          /\ \A i \in 0..(p - 1) : readyToRead[g[i]] => readyToRead'[g[i]]
      BY <1>2, <1>3, <1>6, <2>1
    <2>4. WriterAt(g, p)'
      BY <1>1, <2>1, <2>2, <2>3 DEF WriterAt
    <2>5. Holds(g, p)'
      BY <1>1, <1>5, <2>1, <2>3 DEF Holds
    <2>6. ReaderAt(g, p)'
      BY <1>1, <1>5 DEF ReaderAt
    <2> QED
      BY <1>7, <2>1, <2>2, <2>4, <2>5, <2>6, GoingWith
  <1>13. ASSUME Publish
         PROVE  Going'
    <2>1. /\ writing = "publish" /\ writing' = "idle" /\ packets' = packets
          /\ Published = packets - 1 /\ Published' = packets
          /\ p < Last /\ writePointer = g[p] /\ writeAheadPointer = g[p + 1]
          /\ object[g[p]] = packets /\ readyToRead[g[p]]
          /\ writePointer' = next[writePointer]
          /\ UNCHANGED << ring, writeAheadPointer >>
      BY <1>1, <1>13 DEF Publish, WriterAt, Published
    <2>2. Ring(g)' /\ Last' = Last
      BY <1>1, <1>5, <2>1, SameRing DEF ring
    <2>3. WriterAt(g, p + 1)'
      <3>1. writePointer' = g[p + 1] /\ p + 1 \in 0..Last
        BY <1>2, <1>3, <2>1
      <3> QED
        BY <2>1, <2>2, <3>1 DEF WriterAt
    <2>4. Holds(g, p + 1)'
      <3>1. \A k \in 0..p : k \in 0..(p - 1) \/ k = p
        BY <1>2
      <3>2. p + 1 <= packets /\ \A k \in 0..(p - 1) : object[g[k]] = packets - p + k
        BY <1>1, <1>2, <2>1 DEF Holds
      <3>3. \A k \in 0..p : object'[g[k]] = packets - (p + 1) + 1 + k
        BY <1>2, <2>1, <3>1, <3>2, SMTT(30) DEF ring
      <3>4. \A k \in 0..p : (Unreadied' /\ k = 0) \/ readyToRead'[g[k]]
        BY <1>1, <1>5, <2>1, <3>1 DEF Holds, ring
      <3>5. (p + 1) - 1 = p
        BY <1>2
      <3> QED
        BY <2>1, <3>2, <3>3, <3>4, <3>5 DEF Holds
    <2>5. ReaderAt(g, p + 1)'
      BY <1>1, <1>2, <1>5 DEF ReaderAt
    <2>6. reading'["daemon"] # "clear"
      BY <1>5, <1>13, <2>1 DEF IInv, QueueInv, ThreadInv
    <2> QED
      BY <1>2, <1>7, <2>1, <2>2, <2>3, <2>4, <2>5, <2>6, GoingWith
  <1>14. ASSUME ThreadEnds
         PROVE  Going'
    <2>1. UNCHANGED << ring, writer >>
      BY <1>14 DEF ThreadEnds
    <2>2. Ring(g)' /\ Last' = Last /\ Published' = Published
      BY <1>1, <1>5, <2>1, SameRing DEF ring, writer, Published
    <2>3. WriterAt(g, p)'
      BY <1>1, <2>1, <2>2 DEF WriterAt, ring, writer
    <2>4. Holds(g, p)'
      BY <1>1, <1>5, <2>1, <2>2 DEF Holds, ring
    <2>5. ReaderAt(g, p)'
      BY <1>1, <1>5 DEF ReaderAt
    <2> QED
      BY <1>7, <2>2, <2>3, <2>4, <2>5, GoingWith
  <1> QED
    BY <1>8, <1>9, <1>10, <1>11, <1>12, <1>13, <1>14 DEF NetworkStep

-----------------------------------------------------------------------------
\* Inside the lock a reader is alone.
LEMMA OtherOutside ==
    ASSUME ~Misused, NEW r \in Readers, NEW q \in Readers, q # r, reading[r] \in InLock
    PROVE  reading[q] \notin InLock /\ reading["daemon"] # "clear"
  BY DEF Misused, Readers, InLock

\* Where the readers stand when r, the only one inside the lock, is at x.
LEMMA AloneAt ==
    ASSUME NEW r \in Readers, \A q \in Readers : q # r => reading[q] \notin InLock
    PROVE  /\ Locked <=> reading[r] \in InLock
           /\ Taken <=> reading[r] \in { "fetch", "unready", "release" }
           /\ Fetched <=> reading[r] \in { "unready", "release" }
           /\ Unreadied <=> reading[r] = "release"
  BY DEF Locked, Taken, Fetched, Unreadied, InLock

LEMMA AloneAtNext ==
    ASSUME NEW r \in Readers, \A q \in Readers : q # r => reading'[q] \notin InLock
    PROVE  /\ Locked' <=> reading'[r] \in InLock
           /\ Taken' <=> reading'[r] \in { "fetch", "unready", "release" }
           /\ Fetched' <=> reading'[r] \in { "unready", "release" }
           /\ Unreadied' <=> reading'[r] = "release"
  BY DEF Locked, Taken, Fetched, Unreadied, InLock

\* A step of one reader outside the lock.
LEMMA Outside ==
    ASSUME NEW r \in Readers, NEW x, x \notin InLock, reading[r] \notin InLock,
           reading \in [Readers -> ReaderStates], reading' = [reading EXCEPT ![r] = x]
    PROVE  Locked' = Locked /\ Taken' = Taken /\ Fetched' = Fetched /\ Unreadied' = Unreadied
  <1>1. \A q \in Readers : reading'[q] = IF q = r THEN x ELSE reading[q]
    OBVIOUS
  <1>2. \A S \in SUBSET InLock :
          (\E q \in Readers : reading'[q] \in S) <=> (\E q \in Readers : reading[q] \in S)
    BY <1>1
  <1>3. \A y \in InLock :
          (\E q \in Readers : reading'[q] = y) <=> (\E q \in Readers : reading[q] = y)
    BY <1>1
  <1>4. /\ { "fetch", "unready", "release" } \in SUBSET InLock
        /\ { "unready", "release" } \in SUBSET InLock /\ "release" \in InLock
    BY DEF InLock
  <1>5. Locked' = Locked
    BY <1>2 DEF Locked
  <1>6. Taken' = Taken
    BY <1>2, <1>4 DEF Taken
  <1>7. Fetched' = Fetched
    BY <1>2, <1>4 DEF Fetched
  <1>8. Unreadied' = Unreadied
    BY <1>3, <1>4 DEF Unreadied
  <1> QED
    BY <1>5, <1>6, <1>7, <1>8

\* What a reader holds is put at the end of the pool, behind what is there.
LEMMA LinePushed ==
    ASSUME TypeOK, Arrays, NEW n \in Int, Line(n), NEW r \in Readers, NEW x,
           x \notin { "unready", "release" },
           reading' = [reading EXCEPT ![r] = x],
           PushHeld(r), packet' = [packet EXCEPT ![r] = NoPacket],
           returned' = returned, freed' = freed
    PROVE  Line(n)'
  <1> USE DEF TypeOK, NoPacket
  <1>1. Len(packetPool) \in Nat /\ \A i \in 1..Len(packetPool) : packetPool[i] \in 1..MaxPackets
    BY LenProperties, ElementOfSeq
  <1>2. Len(returned) \in Nat /\ \A i \in 1..Len(returned) : returned[i] \in 1..MaxPackets
    BY LenProperties, ElementOfSeq
  <1>3. packet["main"] \in Nat /\ packet["main"] \in 0..MaxPackets
    BY QueueAssumption DEF Readers
  <1>4. /\ reading'["main"] \in { "unready", "release" } => r # "main" /\ packet["main"] = n
        /\ reading'["daemon"] \in { "unready", "release" } => n \in freed
    BY DEF Line, Accounted, Arrays, Readers
  <1>5. CASE r = "main" /\ packet["main"] # 0
    <2>1. packetPool' = Append(packetPool, packet["main"]) /\ packet'["main"] = 0
      BY <1>5 DEF PushHeld, Readers
    <2>2. /\ Len(packetPool') = Len(packetPool) + 1
          /\ \A i \in 1..Len(packetPool) : packetPool'[i] = packetPool[i]
          /\ packetPool'[Len(packetPool) + 1] = packet["main"]
      BY <1>3, <1>5, <2>1, AppendProperties
    <2>3. \A i \in 1..Len(packetPool') : i \in 1..Len(packetPool) \/ i = Len(packetPool) + 1
      BY <1>1, <2>2
    <2>4. \A i \in 1..Len(packetPool') : packetPool'[i] <= n /\ packetPool'[i] \notin freed
      BY <2>2, <2>3 DEF Line, Accounted
    <2>5. \A i, j \in 1..Len(packetPool') : i < j => packetPool'[i] < packetPool'[j]
      <3> SUFFICES ASSUME NEW i \in 1..Len(packetPool'), NEW j \in 1..Len(packetPool'), i < j
                   PROVE  packetPool'[i] < packetPool'[j]
        OBVIOUS
      <3>1. i \in 1..Len(packetPool)
        BY <1>1, <2>2
      <3> QED
        BY <1>5, <2>2, <2>3, <3>1 DEF Line, Accounted
    <2>6. \A i \in 1..Len(returned), j \in 1..Len(packetPool') : returned[i] < packetPool'[j]
      BY <1>5, <2>2, <2>3 DEF Line, Accounted
    <2>7. 0 <= n /\ 0 \notin freed
      BY <1>3, <1>5 DEF Line, Accounted
    <2>8. \A q \in 1..n : Accounted(q)'
      <3> SUFFICES ASSUME NEW q \in 1..n
                   PROVE  Accounted(q)'
        OBVIOUS
      <3>1. CASE packet["main"] = q
        <4>1. Len(packetPool) + 1 \in 1..Len(packetPool')
          BY <1>1, <2>2
        <4> QED
          BY <2>2, <3>1, <4>1 DEF Accounted
      <3>2. CASE \E i \in 1..Len(packetPool) : packetPool[i] = q
        <4>1. \A i \in 1..Len(packetPool) : i \in 1..Len(packetPool')
          BY <1>1, <2>2
        <4> QED
          BY <2>2, <3>2, <4>1 DEF Accounted
      <3> QED
        BY <3>1, <3>2 DEF Line, Accounted
    <2> QED
      BY <1>4, <2>1, <2>4, <2>5, <2>6, <2>7, <2>8 DEF Line
  <1>6. CASE r = "main" /\ packet["main"] = 0
    <2>1. packetPool' = packetPool /\ packet'["main"] = 0
      BY <1>6 DEF PushHeld, Readers
    <2> QED
      BY <1>4, <1>6, <2>1 DEF Line, Accounted
  <1>7. CASE r # "main"
    <2>1. packetPool' = packetPool /\ packet'["main"] = packet["main"]
      BY <1>7 DEF PushHeld, Readers
    <2>2. \A q : Accounted(q) => Accounted(q)'
      BY <2>1 DEF Accounted
    <2> QED
      BY <1>4, <2>1, <2>2 DEF Line
  <1> QED
    BY <1>5, <1>6, <1>7

\* ReadLock returns 0 only when nothing is there.
LEMMA GoingOnNothing ==
    ASSUME IInv, ~Misused, ~Cleared, ~Misused', NEW r \in Readers,
           reading[r] = "lock", readAheadPointer = writePointer, NothingToRead(r)
    PROVE  Going'
  <1>1. PICK g \in [0..Last -> Nodes], p \in 0..Last :
          /\ Ring(g) /\ WriterAt(g, p) /\ Holds(g, p) /\ ReaderAt(g, p)
          /\ reading["daemon"] = "clear" => p = 0
          /\ Line(Gone(p))
    BY DEF IInv, QueueInv, Going
  <1>2. /\ Last \in Nat /\ Last >= 2 /\ packets \in Nat /\ p \in Nat /\ p <= Last
        /\ Published \in Int /\ Gone(p) \in Int
    BY Shape, QueueAssumption DEF IInv, QueueInv, TypeOK, Published, Gone
  <1>3. UNCHANGED << ring, reader, writer, thread, last, returned, freed, stop >>
    BY DEF NothingToRead
  <1> DEFINE x == IF r = "main" THEN "pop" ELSE "clear"
  <1>4. reading' = [reading EXCEPT ![r] = x] /\ x \notin InLock /\ x \notin { "unready", "release" }
    BY DEF NothingToRead, InLock
  <1>5. Locked' = Locked /\ Taken' = Taken /\ Fetched' = Fetched /\ Unreadied' = Unreadied
    <2>1. reading[r] \notin InLock
      BY DEF InLock
    <2> HIDE DEF x
    <2> QED
      BY <1>4, <2>1, Outside DEF IInv, Arrays
  <1>6. Ring(g)' /\ Last' = Last
    BY <1>1, <1>3, SameRing DEF ring, reader
  <1>7. WriterAt(g, p)' /\ Holds(g, p)' /\ Published' = Published
    BY <1>1, <1>3, <1>5, <1>6 DEF WriterAt, Holds, ring, writer, Published
  <1>8. ReaderAt(g, p)'
    <2>1. \A q \in Readers : reading'[q] = "fetch" => reading[q] = "fetch"
      BY <1>4 DEF IInv, Arrays
    <2> QED
      BY <1>1, <1>3, <1>5, <2>1 DEF ReaderAt, reader
  <1>9. reading'["daemon"] = "clear" => p = 0
    <2>1. CASE r = "main"
      BY <1>1, <1>4, <2>1 DEF IInv, Arrays, Readers
    <2>2. CASE r # "main"
      <3>1. r = "daemon" /\ reading'["daemon"] = "clear" /\ reading'["main"] = reading["main"]
        BY <1>4, <2>2 DEF IInv, Arrays, Readers
      <3>2. reading["main"] \notin InLock
        BY <3>1 DEF Misused
      <3>3. \A q \in Readers : q # r => reading[q] \notin InLock
        BY <3>1, <3>2 DEF Readers
      <3>4. ~Taken
        BY <3>3, AloneAt
      <3>5. g[0] = g[p]
        BY <1>1, <3>4 DEF ReaderAt, WriterAt
      <3> QED
        BY <1>1, <1>2, <3>5 DEF Ring
    <2> QED
      BY <2>1, <2>2
  <1>10. Line(Gone(p))'
    <2>1. Gone(p)' = Gone(p)
      BY <1>5, <1>7 DEF Gone
    <2>2. \A n \in Int : Line(n) => Line(n)'
      <3>1. PushHeld(r) /\ packet' = [packet EXCEPT ![r] = NoPacket]
            /\ returned' = returned /\ freed' = freed
        BY <1>3 DEF NothingToRead
      <3> HIDE DEF x
      <3> QED
        BY <1>4, <3>1, LinePushed DEF IInv
    <2> DEFINE n == Gone(p)
    <2>4. \A m : m = n /\ Line(m)' => Line(Gone(p))'
      BY <2>1 DEF Line, Accounted
    <2> QED
      BY <1>1, <1>2, <2>2, <2>4
  <1> QED
    BY <1>6, <1>7, <1>8, <1>9, <1>10, GoingWith

\* A step of a reader inside the lock.
LEMMA GoingOnLocked ==
    ASSUME IInv, ~Misused, ~Cleared, ~Misused', NEW r \in Readers, Read(r),
           ~(reading[r] = "lock" /\ readAheadPointer = writePointer)
    PROVE  Going'
  <1>1. PICK g \in [0..Last -> Nodes], p \in 0..Last :
          /\ Ring(g) /\ WriterAt(g, p) /\ Holds(g, p) /\ ReaderAt(g, p)
          /\ reading["daemon"] = "clear" => p = 0
          /\ Line(Gone(p))
    BY DEF IInv, QueueInv, Going
  <1>2. /\ Last \in Nat /\ Last >= 2 /\ packets \in Nat /\ p \in Nat /\ p <= Last
        /\ Published \in Int /\ Gone(p) \in Int
    BY Shape, QueueAssumption, SMTT(30) DEF IInv, QueueInv, TypeOK, Published, Gone
  <1>3. /\ \A i \in 0..Last : g[i] \in Nodes
        /\ \A i \in 0..Last : i < Last => next[g[i]] = g[i + 1]
        /\ g[0] = readPointer
        /\ \A i, j \in 0..Last : g[i] = g[j] => i = j
        /\ next[g[Last]] = g[0]
    BY <1>1, RingFacts DEF IInv, QueueInv, Ring
  <1>4. DOMAIN readyToRead = Nodes
    BY Shape DEF IInv, QueueInv
  <1>5. PICK x : /\ reading' = [reading EXCEPT ![r] = x]
                 /\ x \in InLock \cup { "lock", "pop", "clear" }
                 /\ reading[r] \in InLock \cup { "lock" }
                 /\ x = "testReady" \/ reading[r] \in InLock
    BY DEF Read, TestWrite, TestReady, Take, Fetch, Unready, Release, NothingToRead, InLock
  <1>6. reading'[r] = x /\ \A q \in Readers : q # r => reading'[q] = reading[q]
    BY <1>5 DEF IInv, Arrays
  <1>7. \A q \in Readers : q # r => reading[q] \notin InLock /\ reading'[q] \notin InLock
    <2>1. CASE reading[r] \in InLock
      BY <1>6, <2>1, OtherOutside
    <2>2. CASE x = "testReady"
      BY <1>6, <2>2 DEF Misused, Readers, InLock
    <2> QED
      BY <1>5, <2>1, <2>2
  <1>8. /\ Locked <=> reading[r] \in InLock
        /\ Taken <=> reading[r] \in { "fetch", "unready", "release" }
        /\ Fetched <=> reading[r] \in { "unready", "release" }
        /\ Unreadied <=> reading[r] = "release"
        /\ Locked' <=> x \in InLock
        /\ Taken' <=> x \in { "fetch", "unready", "release" }
        /\ Fetched' <=> x \in { "unready", "release" }
        /\ Unreadied' <=> x = "release"
    BY <1>6, <1>7, AloneAt, AloneAtNext
  <1>9. x \in InLock => reading'["daemon"] # "clear"
    BY <1>5, <1>6, <1>7 DEF Misused, Readers, InLock
  <1>10. UNCHANGED << next, object, writer, thread, stop, returned >> /\ Published' = Published
    BY DEF Read, TestWrite, TestReady, Take, Fetch, Unready, Release, NothingToRead, ring, ends,
           locals, writer, Published
  <1>11. ASSUME TestWrite(r)
         PROVE  Going'
    <2>1. /\ reading[r] = "lock" /\ readAheadPointer # writePointer /\ x = "testReady"
          /\ UNCHANGED << readyToRead, reader, last, packet, ends >>
      BY <1>6, <1>11 DEF TestWrite, ring, IInv, Arrays
    <2>2. Ring(g)' /\ Last' = Last
      BY <1>1, <1>10, <2>1, SameRing DEF reader
    <2>3. WriterAt(g, p)' /\ Holds(g, p)'
      BY <1>1, <1>8, <1>10, <2>1, <2>2 DEF WriterAt, Holds, writer
    <2>4. ReaderAt(g, p)'
      <3>1. p > 0
        <4>1. readAheadPointer = g[0] /\ writePointer = g[p]
          BY <1>1, <1>8, <2>1 DEF ReaderAt, WriterAt
        <4> QED
          BY <1>2, <2>1, <4>1
      <3>2. \A q \in Readers : reading'[q] # "fetch"
        BY <1>6, <1>7, <2>1 DEF InLock
      <3> QED
        BY <1>1, <1>8, <2>1, <3>1, <3>2 DEF ReaderAt, reader
    <2>5. Line(Gone(p))'
      <3>1. Gone(p)' = Gone(p)
        BY <1>8, <1>10, <2>1 DEF Gone
      <3>2. \A n : Line(n) => Line(n)'
        BY <1>6, <1>10, <2>1 DEF Line, Accounted, ends, Readers, IInv, Arrays
      <3>3. \A m : m = Gone(p) /\ Line(m)' => Line(Gone(p))'
        BY <3>1 DEF Line, Accounted
      <3> QED
        BY <1>1, <3>2, <3>3
    <2> QED
      BY <1>9, <2>1, <2>2, <2>3, <2>4, <2>5, GoingWith DEF InLock
  <1>12. p > 0 \/ reading[r] = "lock"
    BY <1>1, <1>5, <1>8 DEF ReaderAt
  <1>13. ASSUME TestReady(r)
         PROVE  Going'
    <2>1. /\ reading[r] = "testReady" /\ p > 0 /\ readAheadPointer = g[0]
          /\ readyToRead[g[0]]
      <3>1. reading[r] = "testReady" /\ p > 0
        BY <1>12, <1>13 DEF TestReady
      <3>2. readAheadPointer = g[0]
        BY <1>1, <1>8, <3>1 DEF ReaderAt
      <3>3. 0 \in 0..(p - 1) /\ ~Unreadied
        BY <1>2, <1>8, <3>1
      <3> QED
        BY <1>1, <3>1, <3>2, <3>3 DEF Holds
    <2>2. x = "take" /\ UNCHANGED << readyToRead, reader, last, packet, ends >>
      BY <1>6, <1>13, <2>1 DEF TestReady, ring, IInv, Arrays
    <2>3. Ring(g)' /\ Last' = Last
      BY <1>1, <1>10, <2>2, SameRing DEF reader
    <2>4. WriterAt(g, p)' /\ Holds(g, p)'
      BY <1>1, <1>8, <1>10, <2>1, <2>2, <2>3 DEF WriterAt, Holds, writer
    <2>5. ReaderAt(g, p)'
      <3>1. \A q \in Readers : reading'[q] # "fetch"
        BY <1>6, <1>7, <2>2 DEF InLock
      <3> QED
        BY <1>1, <1>8, <2>1, <2>2, <3>1 DEF ReaderAt, reader
    <2>6. Line(Gone(p))'
      <3>1. Gone(p)' = Gone(p)
        BY <1>8, <1>10, <2>1, <2>2 DEF Gone
      <3>2. \A n : Line(n) => Line(n)'
        BY <1>6, <1>10, <2>2 DEF Line, Accounted, ends, Readers, IInv, Arrays
      <3>3. \A m : m = Gone(p) /\ Line(m)' => Line(Gone(p))'
        BY <3>1 DEF Line, Accounted
      <3> QED
        BY <1>1, <3>2, <3>3
    <2> QED
      BY <1>9, <2>2, <2>3, <2>4, <2>5, <2>6, GoingWith DEF InLock
  <1>14. ASSUME Take(r)
         PROVE  Going'
    <2>1. /\ reading[r] = "take" /\ x = "fetch" /\ p > 0 /\ readAheadPointer = g[0]
          /\ readAheadPointer' = next[readAheadPointer]
          /\ last' = [last EXCEPT ![r] = readAheadPointer]
          /\ UNCHANGED << readyToRead, readPointer, freed >>
      BY <1>1, <1>6, <1>8, <1>12, <1>14 DEF Take, ring, IInv, Arrays, ReaderAt
    <2>2. Ring(g)' /\ Last' = Last
      BY <1>1, <1>10, <2>1, SameRing
    <2>3. WriterAt(g, p)' /\ Holds(g, p)'
      BY <1>1, <1>8, <1>10, <2>1, <2>2 DEF WriterAt, Holds, writer
    <2>4. ReaderAt(g, p)'
      <3>1. readAheadPointer' = g[1]
        BY <1>2, <1>3, <2>1
      <3>2. \A q \in Readers : reading'[q] = "fetch" => last'[q] = g[0]
        BY <1>6, <1>7, <2>1 DEF InLock, IInv, TypeOK
      <3> QED
        BY <1>8, <2>1, <3>1, <3>2 DEF ReaderAt
    <2>5. Line(Gone(p))'
      <3>1. Gone(p)' = Gone(p)
        BY <1>8, <1>10, <2>1 DEF Gone
      <3>2. PushHeld(r) /\ packet' = [packet EXCEPT ![r] = NoPacket] /\ returned' = returned
        BY <1>10, <1>14 DEF Take
      <3>3. \A n \in Int : Line(n) => Line(n)'
        BY <1>5, <2>1, <3>2, LinePushed DEF IInv
      <3>4. \A m : m = Gone(p) /\ Line(m)' => Line(Gone(p))'
        BY <3>1 DEF Line, Accounted
      <3> QED
        BY <1>1, <1>2, <3>3, <3>4
    <2> QED
      BY <1>9, <2>1, <2>2, <2>3, <2>4, <2>5, GoingWith DEF InLock
  <1>15. ASSUME Fetch(r)
         PROVE  Going'
    <2>1. /\ reading[r] = "fetch" /\ x = "unready" /\ p > 0 /\ last[r] = g[0]
          /\ UNCHANGED << readyToRead, reader, packetPool >>
      BY <1>1, <1>6, <1>8, <1>12, <1>15 DEF Fetch, ring, IInv, Arrays, ReaderAt
    <2>2. Ring(g)' /\ Last' = Last
      BY <1>1, <1>10, <2>1, SameRing DEF reader
    <2>3. WriterAt(g, p)' /\ Holds(g, p)'
      BY <1>1, <1>8, <1>10, <2>1, <2>2 DEF WriterAt, Holds, writer
    <2>4. ReaderAt(g, p)'
      <3>1. \A q \in Readers : reading'[q] # "fetch"
        BY <1>6, <1>7, <2>1 DEF InLock
      <3> QED
        BY <1>1, <1>8, <2>1, <3>1 DEF ReaderAt, reader
    <2>5. object[last[r]] = Gone(p) + 1 /\ Gone(p)' = Gone(p) + 1
      <3>1. object[g[0]] = Published - p + 1 + 0
        BY <1>1, <1>2, <2>1 DEF Holds
      <3> QED
        BY <1>2, <1>8, <1>10, <2>1, <3>1 DEF Gone
    <2>8. PICK n : n = Gone(p)
      OBVIOUS
    <2>6. Line(n + 1)'
      <3>1. n \in Int /\ Line(n) /\ object[last[r]] = n + 1
        BY <1>1, <1>2, <2>5, <2>8
      <3>2. \A q \in Readers : q # r => reading'[q] \notin { "unready", "release" }
        BY <1>7 DEF InLock
      <3>3. /\ packet["main"] \in Int /\ MaxPackets \in Nat
            /\ \A i \in 1..Len(packetPool) : packetPool[i] \in Int
            /\ \A i \in 1..Len(returned) : returned[i] \in Int
            /\ freed \subseteq Int
        <4>1. \A i \in 1..Len(packetPool) : packetPool[i] \in 1..MaxPackets
          BY ElementOfSeq DEF IInv, TypeOK
        <4>2. \A i \in 1..Len(returned) : returned[i] \in 1..MaxPackets
          BY ElementOfSeq DEF IInv, TypeOK
        <4> QED
          BY <4>1, <4>2, QueueAssumption DEF IInv, TypeOK, Readers
      <3>4. CASE r = "main"
        <4>1. packet'["main"] = n + 1 /\ UNCHANGED << returned, packetPool, freed >>
          BY <1>10, <1>15, <2>1, <3>1, <3>4 DEF Fetch, IInv, TypeOK, Readers
        <4>2. reading'["daemon"] \notin { "unready", "release" }
          BY <3>2, <3>4 DEF Readers
        <4>3. \A y \in Int : y <= n => y <= n + 1 /\ y < n + 1
          BY <3>1
        <4>4. /\ \A i \in 1..Len(returned) : returned[i] <= n /\ returned[i] \notin freed
              /\ \A i \in 1..Len(packetPool) : packetPool[i] <= n /\ packetPool[i] \notin freed
              /\ \A y \in freed : y <= n
              /\ n + 1 \notin freed
          BY <3>1 DEF Line, Accounted
        <4>5. \A q \in 1..(n + 1) : Accounted(q)'
          <5>1. packet["main"] = 0
            BY <2>1, <3>4 DEF IInv, QueueInv, ThreadInv, NoPacket
          <5>2. \A q \in 1..(n + 1) : q # 0 /\ (q \in 1..n \/ q = n + 1)
            BY <3>1
          <5> QED
            BY <3>1, <4>1, <5>1, <5>2 DEF Line, Accounted
        <4> QED
          BY <3>1, <3>3, <4>1, <4>2, <4>3, <4>4, <4>5 DEF Line, Accounted
      <3>5. CASE r # "main"
        <4>1. packet'["main"] = packet["main"] /\ freed' = freed \cup { n + 1 }
              /\ UNCHANGED << returned, packetPool >>
          BY <1>10, <1>15, <2>1, <3>1, <3>5 DEF Fetch, IInv, TypeOK, Readers
        <4>2. reading'["main"] \notin { "unready", "release" }
          BY <3>2, <3>5 DEF Readers
        <4>3. \A y \in Int : y <= n => y <= n + 1 /\ y # n + 1
          BY <3>1
        <4>4. /\ \A i \in 1..Len(returned) : returned[i] <= n + 1 /\ returned[i] \notin freed'
              /\ \A i \in 1..Len(packetPool) : packetPool[i] <= n + 1 /\ packetPool[i] \notin freed'
              /\ packet["main"] <= n + 1 /\ packet["main"] \notin freed'
              /\ \A y \in freed' : y <= n + 1
              /\ n + 1 \in freed'
          <5>1. \A y \in Int : y <= n /\ y \notin freed => y <= n + 1 /\ y \notin freed'
            BY <4>1, <4>3
          <5>2. \A i \in 1..Len(returned) : returned[i] <= n + 1 /\ returned[i] \notin freed'
            BY <3>1, <3>3, <5>1 DEF Line
          <5>3. \A i \in 1..Len(packetPool) : packetPool[i] <= n + 1 /\ packetPool[i] \notin freed'
            BY <3>1, <3>3, <5>1 DEF Line
          <5>4. packet["main"] <= n + 1 /\ packet["main"] \notin freed'
            BY <3>1, <3>3, <5>1 DEF Line
          <5>5. \A y \in freed' : y <= n + 1
            <6>1. \A y \in freed : y <= n
              BY <3>1 DEF Line
            <6> QED
              BY <3>1, <3>3, <4>1, <4>3, <6>1
          <5> QED
            BY <4>1, <5>2, <5>3, <5>4, <5>5
        <4> QED
          BY <3>1, <4>1, <4>2, <4>4 DEF Line, Accounted
      <3> QED
        BY <3>4, <3>5
    <2>7. Line(Gone(p))'
      <3>1. \A m : m = n + 1 /\ Line(m)' => Line(Gone(p))'
        BY <2>5, <2>8 DEF Line, Accounted
      <3> QED
        BY <2>6, <3>1
    <2> QED
      BY <1>9, <2>1, <2>2, <2>3, <2>4, <2>7, GoingWith DEF InLock
  <1>16. ASSUME Unready(r)
         PROVE  Going'
    <2>1. /\ reading[r] = "unready" /\ x = "release" /\ p > 0
          /\ readyToRead' = [readyToRead EXCEPT ![g[0]] = FALSE]
          /\ UNCHANGED << reader, last, packet, ends >>
      BY <1>3, <1>6, <1>12, <1>16 DEF Unready, IInv, Arrays
    <2>2. Ring(g)' /\ Last' = Last
      BY <1>1, <1>10, <2>1, SameRing DEF reader
    <2>3. \A k \in 0..Last : k # 0 => readyToRead'[g[k]] = readyToRead[g[k]]
      <3>1. \A k \in 0..Last : k # 0 => g[k] # g[0] /\ g[k] \in Nodes
        BY <1>2, <1>3
      <3> QED
        BY <1>4, <2>1, <3>1
    <2>4. WriterAt(g, p)'
      <3>1. readyToRead'[g[p]] = readyToRead[g[p]]
        <4>1. p \in 0..Last /\ p # 0
          BY <1>2, <2>1
        <4> QED
          BY <2>3, <4>1
      <3> QED
        BY <1>1, <1>10, <2>1, <2>2, <3>1 DEF WriterAt, writer
    <2>5. Holds(g, p)'
      BY <1>1, <1>2, <1>8, <1>10, <2>1, <2>3 DEF Holds
    <2>6. ReaderAt(g, p)'
      <3>1. \A q \in Readers : reading'[q] # "fetch"
        BY <1>6, <1>7, <2>1 DEF InLock
      <3> QED
        BY <1>1, <1>8, <2>1, <3>1 DEF ReaderAt, reader
    <2>7. Line(Gone(p))'
      <3>1. Gone(p)' = Gone(p)
        BY <1>8, <1>10, <2>1 DEF Gone
      <3>2. \A n : Line(n) => Line(n)'
        BY <1>6, <1>10, <2>1 DEF Line, Accounted, ends, Readers, IInv, Arrays
      <3>3. \A m : m = Gone(p) /\ Line(m)' => Line(Gone(p))'
        BY <3>1 DEF Line, Accounted
      <3> QED
        BY <1>1, <3>2, <3>3
    <2> QED
      BY <1>9, <2>1, <2>2, <2>4, <2>5, <2>6, <2>7, GoingWith DEF InLock
  <1>17. ASSUME Release(r)
         PROVE  Going'
    <2>1. /\ reading[r] = "release" /\ x = "lock" /\ p > 0 /\ readAheadPointer = g[1]
          /\ readPointer' = g[1]
          /\ UNCHANGED << readyToRead, readAheadPointer, last, packet, ends >>
      <3>1. reading[r] = "release" /\ readPointer' = next[readPointer] /\ x = "lock" /\ p > 0
            /\ UNCHANGED << readyToRead, readAheadPointer, last, packet, ends >>
        BY <1>6, <1>12, <1>17 DEF Release, ring, IInv, Arrays
      <3>2. readPointer' = g[1]
        BY <1>2, <1>3, <3>1
      <3>3. readAheadPointer = g[1]
        BY <1>1, <1>8, <3>1 DEF ReaderAt
      <3> QED
        BY <3>1, <3>2, <3>3
    <2>2. PICK h : h = [i \in 0..Last |-> IF i = Last THEN g[0] ELSE g[i + 1]]
      OBVIOUS
    <2>3. h[Last] = g[0] /\ \A i \in 0..Last : i < Last => h[i] = g[i + 1]
      BY <1>2, <2>2
    <2>4. Ring(h)' /\ Last' = Last
      <3>1. Last' = Last /\ Nodes' = Nodes /\ next' = next
        BY <1>10 DEF Last, Nodes
      <3>2. h \in [0..Last -> Nodes]
        BY <1>2, <1>3, <2>2
      <3>3. \A i, j \in 0..Last : h[i] = h[j] => i = j
        <4> SUFFICES ASSUME NEW i \in 0..Last, NEW j \in 0..Last, h[i] = h[j]
                     PROVE  i = j
          OBVIOUS
        <4>1. \A k \in 0..Last : k < Last => k + 1 \in 0..Last /\ k + 1 # 0 /\ h[k] = g[k + 1]
          BY <1>2, <2>3
        <4>2. \A k \in 0..Last : k < Last => h[k] # g[0]
          BY <1>2, <1>3, <4>1
        <4>3. i = Last <=> j = Last
          BY <1>2, <2>3, <4>2
        <4>4. CASE i < Last /\ j < Last
          <5>1. i + 1 = j + 1
            BY <1>3, <4>1, <4>4
          <5> QED
            BY <5>1
        <4> QED
          BY <1>2, <4>3, <4>4
      <3>4. \A i \in 0..(Last - 1) : next[h[i]] = h[i + 1]
        <4> SUFFICES ASSUME NEW i \in 0..(Last - 1) PROVE next[h[i]] = h[i + 1]
          OBVIOUS
        <4>1. h[i] = g[i + 1] /\ i + 1 \in 0..Last
          BY <1>2, <2>3
        <4>2. CASE i + 1 = Last
          BY <1>3, <2>3, <4>1, <4>2
        <4>3. CASE i + 1 < Last
          <5>1. next[g[i + 1]] = g[(i + 1) + 1] /\ h[i + 1] = g[(i + 1) + 1]
            BY <1>3, <2>3, <4>1, <4>3
          <5> QED
            BY <4>1, <5>1
        <4> QED
          BY <1>2, <4>1, <4>2, <4>3
      <3>5. next[h[Last]] = h[0] /\ h[0] = g[1]
        BY <1>2, <1>3, <2>3
      <3> QED
        BY <2>1, <3>1, <3>2, <3>3, <3>4, <3>5 DEF Ring
    <2>5. \A k \in 0..(Last - 1) : h[k] = g[k + 1]
      BY <1>2, <2>3
    <2>6. WriterAt(h, p - 1)'
      <3>1. p - 1 \in 0..Last /\ p - 1 < Last /\ h[p - 1] = g[p]
            /\ (p < Last => h[(p - 1) + 1] = g[p + 1])
        BY <1>2, <2>1, <2>3
      <3> QED
        BY <1>1, <1>2, <1>10, <2>1, <2>4, <3>1 DEF WriterAt, writer
    <2>7. Holds(h, p - 1)'
      <3>1. \A k \in 0..((p - 1) - 1) : k + 1 \in 0..(p - 1) /\ h[k] = g[k + 1] /\ k + 1 # 0
        BY <1>2, <2>5
      <3>2. \A k \in 0..((p - 1) - 1) : object[h[k]] = Published - p + 1 + (k + 1)
                                         /\ readyToRead[h[k]]
        BY <1>1, <3>1 DEF Holds
      <3>3. \A k \in 0..((p - 1) - 1) : Published - p + 1 + (k + 1) = Published - (p - 1) + 1 + k
        BY <1>2
      <3>4. p - 1 <= Published
        BY <1>1, <1>2 DEF Holds
      <3> QED
        BY <1>10, <2>1, <3>2, <3>3, <3>4 DEF Holds
    <2>8. ReaderAt(h, p - 1)'
      <3>1. ~Locked' /\ ~Taken' /\ h[0] = g[1]
        BY <1>2, <1>8, <2>1, <2>5 DEF InLock
      <3>2. \A q \in Readers : reading'[q] # "fetch"
        BY <3>1 DEF Taken
      <3> QED
        BY <2>1, <3>1, <3>2 DEF ReaderAt
    <2>9. Line(Gone(p - 1))'
      <3>1. Gone(p - 1)' = Gone(p)
        BY <1>2, <1>8, <1>10, <2>1 DEF Gone
      <3>2. \A n : Line(n) => Line(n)'
        BY <1>6, <1>10, <2>1 DEF Line, Accounted, ends, Readers, IInv, Arrays
      <3>3. \A m : m = Gone(p) /\ Line(m)' => Line(Gone(p - 1))'
        BY <3>1 DEF Line, Accounted
      <3> QED
        BY <1>1, <3>2, <3>3
    <2>10. reading'["daemon"] # "clear"
      BY <1>6, <1>7, <2>1, OtherOutside DEF Misused, Readers, InLock
    <2> QED
      BY <2>4, <2>6, <2>7, <2>8, <2>9, <2>10, GoingWith
  <1> QED
    BY <1>11, <1>13, <1>14, <1>15, <1>16, <1>17 DEF Read

\* The oldest packet of the pool goes to the end of those that were returned.
LEMMA LinePopped ==
    ASSUME TypeOK, NEW n, Line(n), packetPool # << >>,
           returned' = Append(returned, Head(packetPool)), packetPool' = Tail(packetPool),
           UNCHANGED << packet, freed >>,
           \A q \in Readers : reading'[q] \in { "unready", "release" } => reading'[q] = reading[q]
    PROVE  Line(n)'
  <1>1. /\ Len(packetPool) \in Nat /\ Len(packetPool) > 0 /\ Head(packetPool) = packetPool[1]
        /\ Len(packetPool') = Len(packetPool) - 1
        /\ \A i \in 1..Len(packetPool') : packetPool'[i] = packetPool[i + 1]
    BY HeadTailProperties, LenProperties, EmptySeq DEF TypeOK
  <1>2. /\ Len(returned) \in Nat /\ Len(returned') = Len(returned) + 1
        /\ \A i \in 1..Len(returned) : returned'[i] = returned[i]
        /\ returned'[Len(returned) + 1] = packetPool[1]
    <2>1. Head(packetPool) \in 1..MaxPackets /\ returned \in Seq(1..MaxPackets)
      BY HeadTailProperties DEF TypeOK
    <2> QED
      BY <1>1, <2>1, AppendProperties, LenProperties
  <1>3. \A i \in 1..Len(returned') : i \in 1..Len(returned) \/ returned'[i] = packetPool[1]
    BY <1>2
  <1>4. 1 \in 1..Len(packetPool) /\ \A i \in 1..Len(packetPool') : i + 1 \in 1..Len(packetPool) /\ 1 < i + 1
    BY <1>1
  <1>5. \A i \in 1..Len(returned') : returned'[i] <= n /\ returned'[i] \notin freed
    BY <1>2, <1>3, <1>4 DEF Line, Accounted
  <1>6. \A i \in 1..Len(packetPool') : packetPool'[i] <= n /\ packetPool'[i] \notin freed
    BY <1>1, <1>4 DEF Line, Accounted
  <1>7. \A i, j \in 1..Len(packetPool') : i < j => packetPool'[i] < packetPool'[j]
    <2>1. \A i, j \in 1..Len(packetPool') : i < j => i + 1 < j + 1
      BY <1>1
    <2> QED
      BY <1>1, <1>4, <2>1 DEF Line, Accounted
  <1>8. \A i \in 1..Len(returned'), j \in 1..Len(packetPool') : returned'[i] < packetPool'[j]
    BY <1>1, <1>2, <1>3, <1>4 DEF Line, Accounted
  <1>9. packet["main"] # NoPacket =>
          /\ \A i \in 1..Len(returned') : returned'[i] < packet["main"]
          /\ \A i \in 1..Len(packetPool') : packetPool'[i] < packet["main"]
    BY <1>1, <1>2, <1>3, <1>4 DEF Line, Accounted
  <1>10. \A q \in 1..n : Accounted(q)'
    <2>1. \A i \in 1..Len(packetPool) : i = 1 \/ (i - 1 \in 1..Len(packetPool') /\ (i - 1) + 1 = i)
      BY <1>1
    <2>2. \A i \in 1..Len(returned) : i \in 1..Len(returned')
      BY <1>2
    <2>3. Len(returned) + 1 \in 1..Len(returned')
      BY <1>2
    <2>4. \A i \in 1..Len(packetPool) :
             \/ \E j \in 1..Len(returned') : returned'[j] = packetPool[i]
             \/ \E j \in 1..Len(packetPool') : packetPool'[j] = packetPool[i]
      BY <1>1, <1>2, <2>1, <2>3
    <2>5. \A q : Accounted(q) => Accounted(q)'
      <3> SUFFICES ASSUME NEW q, Accounted(q) PROVE Accounted(q)'
        OBVIOUS
      <3>1. CASE \E i \in 1..Len(returned) : returned[i] = q
        BY <1>2, <2>2, <3>1 DEF Accounted
      <3>2. CASE \E i \in 1..Len(packetPool) : packetPool[i] = q
        BY <2>4, <3>2 DEF Accounted
      <3> QED
        BY <3>1, <3>2 DEF Accounted
    <2> QED
      BY <2>5 DEF Line
  <1> QED
    BY <1>5, <1>6, <1>7, <1>8, <1>9, <1>10 DEF Line, Accounted, Readers

\* A step of a reader outside the lock that moves no pointer.
LEMMA GoingOnOutside ==
    ASSUME IInv, ~Misused, ~Cleared,
           Receive \/ Pop \/ LeaveLoop \/ Accept \/ Disconnect \/ WaitForThread
    PROVE  Going'
  <1>1. PICK g \in [0..Last -> Nodes], p \in 0..Last :
          /\ Ring(g) /\ WriterAt(g, p) /\ Holds(g, p) /\ ReaderAt(g, p)
          /\ reading["daemon"] = "clear" => p = 0
          /\ Line(Gone(p))
    BY DEF IInv, QueueInv, Going
  <1>2. PICK r \in Readers, x \in { "loop", "lock", "left", "disconnect", "wait" } :
          /\ reading' = [reading EXCEPT ![r] = x]
          /\ reading[r] \in { "loop", "pop", "accept", "disconnect", "wait" }
    BY DEF Receive, Pop, LeaveLoop, Accept, Disconnect, WaitForThread, Readers
  <1>3. UNCHANGED << ring, reader, writer, last, packet, freed >>
    BY DEF Receive, Pop, LeaveLoop, Accept, Disconnect, WaitForThread, thread, ends
  <1>4. x \notin InLock /\ reading[r] \notin InLock /\ x # "clear"
    BY <1>2 DEF InLock
  <1>5. Locked' = Locked /\ Taken' = Taken /\ Fetched' = Fetched /\ Unreadied' = Unreadied
    BY <1>2, <1>4, Outside DEF IInv, Arrays
  <1>6. \A q \in Readers : reading'[q] = IF q = r THEN x ELSE reading[q]
    BY <1>2 DEF IInv, Arrays
  <1>7. Ring(g)' /\ Last' = Last /\ Published' = Published
    BY <1>1, <1>3, SameRing DEF ring, reader, writer, Published
  <1>8. WriterAt(g, p)' /\ Holds(g, p)'
    BY <1>1, <1>3, <1>5, <1>7 DEF WriterAt, Holds, ring, writer
  <1>9. ReaderAt(g, p)'
    <2>1. \A q \in Readers : reading'[q] = "fetch" => reading[q] = "fetch"
      BY <1>4, <1>6 DEF InLock
    <2> QED
      BY <1>1, <1>3, <1>5, <2>1 DEF ReaderAt, reader
  <1>10. reading'["daemon"] = "clear" => p = 0
    BY <1>1, <1>4, <1>6 DEF Readers
  <1>11. Line(Gone(p))'
    <2>1. Gone(p)' = Gone(p)
      BY <1>5, <1>7 DEF Gone
    <2>2. \A q \in Readers : reading'[q] \in { "unready", "release" } => reading'[q] = reading[q]
      BY <1>4, <1>6 DEF InLock
    <2>3. \A n : Line(n) => Line(n)'
      <3>1. CASE UNCHANGED << returned, packetPool >>
        BY <1>3, <2>2, <3>1 DEF Line, Accounted, Readers
      <3>2. CASE Pop /\ packetPool # << >>
        <4>1. returned' = Append(returned, Head(packetPool)) /\ packetPool' = Tail(packetPool)
          BY <3>2 DEF Pop
        <4> QED
          BY <1>3, <2>2, <3>2, <4>1, LinePopped DEF IInv, Readers
      <3> QED
        BY <3>1, <3>2 DEF Receive, Pop, LeaveLoop, Accept, Disconnect, WaitForThread, ends
    <2>4. \A m : m = Gone(p) /\ Line(m)' => Line(Gone(p))'
      BY <2>1 DEF Line, Accounted
    <2> QED
      BY <1>1, <2>3, <2>4
  <1> QED
    BY <1>7, <1>8, <1>9, <1>10, <1>11, GoingWith

-----------------------------------------------------------------------------
(* What After and Distance count on a ring.                                *)

\* k steps on from step j of the walk is step j + k, and one more round ends where it began.
LEMMA Walk ==
    ASSUME Last \in Nat, NEW g, Ring(g), NEW j \in 0..Last, NEW k \in Nat, j + k <= Last
    PROVE  After(g[j], k) = g[j + k]
  <1>1. PICK f : f = [i \in 0..k |-> g[j + i]]
    OBVIOUS
  <1>2. \A i \in 0..k : f[i] = IF i = 0 THEN g[j] ELSE next[f[i - 1]]
    <2>1. CASE k = 0
      BY <1>1, <2>1
    <2>2. ASSUME NEW i \in 0..k, i # 0
          PROVE  f[i] = next[f[i - 1]]
      <3>1. i - 1 \in 0..k /\ j + (i - 1) \in 0..(Last - 1) /\ (j + (i - 1)) + 1 = j + i
        BY <2>2
      <3>2. next[g[j + (i - 1)]] = g[(j + (i - 1)) + 1]
        BY <3>1 DEF Ring
      <3> QED
        BY <1>1, <3>1, <3>2
    <2>3. f[0] = g[j]
      BY <1>1
    <2> QED
      BY <2>2, <2>3
  <1>3. f = [i \in 0..k |-> IF i = 0 THEN g[j] ELSE next[f[i - 1]]]
    BY <1>1, <1>2
  <1>4. After(g[j], k) = f[k]
    BY <1>3, AfterIs
  <1> QED
    BY <1>1, <1>4

LEMMA WalkRound ==
    ASSUME Last \in Nat, Last >= 2, NEW g, Ring(g)
    PROVE  After(g[1], Last) = g[0]
  <1>1. PICK f : f = [i \in 0..Last |-> IF i = Last THEN g[0] ELSE g[i + 1]]
    OBVIOUS
  <1>2. \A i \in 0..Last : f[i] = IF i = 0 THEN g[1] ELSE next[f[i - 1]]
    <2>1. ASSUME NEW i \in 0..Last, i # 0
          PROVE  f[i] = next[f[i - 1]]
      <3>1. i - 1 \in 0..(Last - 1) /\ (i - 1) + 1 = i /\ i - 1 # Last /\ i - 1 \in 0..Last
        BY <2>1
      <3>2. f[i - 1] = g[i]
        BY <1>1, <3>1
      <3>3. CASE i = Last
        BY <1>1, <3>2, <3>3 DEF Ring
      <3>4. CASE i < Last
        <4>1. f[i] = g[i + 1] /\ i \in 0..(Last - 1)
          BY <1>1, <3>4
        <4> QED
          BY <3>2, <4>1 DEF Ring
      <3> QED
        BY <3>3, <3>4
    <2>2. f[0] = g[1]
      BY <1>1
    <2> QED
      BY <2>1, <2>2
  <1>3. f = [i \in 0..Last |-> IF i = 0 THEN g[1] ELSE next[f[i - 1]]]
    BY <1>1, <1>2
  <1>4. After(g[1], Last) = f[Last]
    BY <1>3, AfterIs
  <1> QED
    BY <1>1, <1>4

\* There is only one first time.
LEMMA DistanceIs ==
    ASSUME Len(next) \in Nat, NEW s, NEW t, NEW d \in 0..Len(next),
           After(s, d) = t, \A k \in 0..(d - 1) : After(s, k) # t
    PROVE  Distance(s, t) = d
  <1>1. ASSUME NEW n \in 0..Len(next), After(s, n) = t, \A k \in 0..(n - 1) : After(s, k) # t
        PROVE  n = d
    <2>1. ~(n < d)
      BY <1>1
    <2>2. ~(d < n)
      BY <1>1
    <2> QED
      BY <2>1, <2>2
  <1> QED
    BY <1>1 DEF Distance

\* From the readers to a node p steps ahead it is p steps, and all the way round it is
\* the number of the nodes.
LEMMA Distances ==
    ASSUME TypeOK, Arrays, MinimumListSize <= Len(next), NEW g, Ring(g)
    PROVE  /\ \A p \in 0..Last : Distance(readPointer, g[p]) = p
           /\ \A p \in 0..Last : After(readPointer, p) = g[p]
           /\ RingSize = Len(next)
  <1>1. Last \in Nat /\ Last >= 2 /\ Len(next) \in Nat /\ Last + 1 = Len(next)
    BY Shape
  <1>2. g[0] = readPointer /\ (\A i, j \in 0..Last : g[i] = g[j] => i = j) /\ next[g[0]] = g[1]
    BY <1>1 DEF Ring
  <1>3. \A p \in 0..Last : After(g[0], p) = g[p]
    <2>1. 0 \in 0..Last /\ \A p \in 0..Last : p \in Nat /\ 0 + p <= Last /\ 0 + p = p
      BY <1>1
    <2> QED
      BY <1>1, <2>1, Walk
  <1>4. ASSUME NEW p \in 0..Last
        PROVE  Distance(readPointer, g[p]) = p
    <2>1. \A k \in 0..(p - 1) : k \in 0..Last /\ k # p
      BY <1>1
    <2>2. After(g[0], p) = g[p] /\ \A k \in 0..(p - 1) : After(g[0], k) # g[p]
      BY <1>2, <1>3, <2>1
    <2>3. p \in 0..Len(next)
      BY <1>1
    <2> QED
      BY <1>1, <1>2, <2>2, <2>3, DistanceIs
  <1>5. Distance(g[1], g[0]) = Last
    <2>1. \A k \in 0..(Last - 1) : k \in Nat /\ 1 + k <= Last /\ 1 + k \in 0..Last /\ 1 + k # 0
      BY <1>1
    <2>2. 1 \in 0..Last /\ 0 \in 0..Last /\ Last \in 0..Len(next)
      BY <1>1
    <2>3. \A k \in 0..(Last - 1) : After(g[1], k) = g[1 + k]
      BY <1>1, <2>1, <2>2, Walk
    <2>4. \A k \in 0..(Last - 1) : After(g[1], k) # g[0]
      BY <1>2, <2>1, <2>2, <2>3
    <2>5. After(g[1], Last) = g[0]
      BY <1>1, WalkRound
    <2> QED
      BY <1>1, <2>2, <2>4, <2>5, DistanceIs
  <1> QED
    BY <1>1, <1>2, <1>3, <1>4, <1>5 DEF RingSize

-----------------------------------------------------------------------------
\* What Clear links to the first node is a node of the ring.
LEMMA ClearLinks ==
    ASSUME IInv, ~Misused, Clear
    PROVE  \E n \in Nodes : next' = [next EXCEPT ![readPointer] = n]
  <1>1. ~Cleared
    BY DEF Clear, Cleared
  <1>2. PICK g : Ring(g)
    BY <1>1 DEF IInv, QueueInv, Going
  <1>3. RingSize = Len(next) /\ \A p \in 0..Last : After(readPointer, p) = g[p]
    BY <1>2, Distances DEF IInv, QueueInv
  <1> DEFINE surplus == IF RingSize > MinimumListSize THEN RingSize - MinimumListSize ELSE 0
  <1>4. surplus + 1 \in 0..Last
    BY <1>3, Shape, QueueAssumption DEF IInv, QueueInv
  <1>5. next' = [next EXCEPT ![readPointer] = After(readPointer, surplus + 1)]
    BY DEF Clear
  <1> HIDE DEF surplus
  <1>6. After(readPointer, surplus + 1) \in Nodes
    BY <1>2, <1>3, <1>4 DEF Ring
  <1> QED
    BY <1>5, <1>6

\* The daemon thread clears the queue when it has read everything.
LEMMA EmptiedByClear ==
    ASSUME IInv, ~Misused, ~Misused', Clear
    PROVE  Emptied'
  <1>1. ~Cleared
    BY DEF Clear, Cleared
  <1>2. PICK g, p \in 0..Last : p = 0 /\ Line(Gone(p))
    BY <1>1 DEF Clear, IInv, QueueInv, Going
  <1>3. writing = "idle" /\ packets \in Nat
    BY QueueAssumption DEF Clear, IInv, QueueInv, ThreadInv, TypeOK
  <1>4. /\ reading' = [reading EXCEPT !["daemon"] = "pool"] /\ reading["daemon"] = "clear"
        /\ UNCHANGED << packets, packet, ends >>
    BY DEF Clear
  <1>5. reading["main"] \notin InLock
    BY <1>4 DEF Misused
  <1>6. ~Fetched /\ ~Locked'
    BY <1>4, <1>5 DEF Fetched, Locked, InLock, Readers, IInv, Arrays
  <1>7. Gone(p) = packets
    BY <1>2, <1>3, <1>6 DEF Gone, Published
  <1>8. Line(packets)'
    <2>1. \A n : Line(n) => Line(n)'
      BY <1>4 DEF Line, Accounted, ends, IInv, Arrays, Readers
    <2>2. \A n : n = packets /\ Line(n)' => Line(packets)'
      BY <1>4 DEF Line, Accounted
    <2> QED
      BY <1>2, <1>7, <2>1, <2>2
  <1> QED
    BY <1>6, <1>8 DEF Emptied, Clear

\* Once the queue is cleared, the main thread finds nothing and the pool is freed.
LEMMA EmptiedStays ==
    ASSUME IInv, ~Misused, ~Misused', Cleared, Next
    PROVE  Emptied' /\ Cleared'
  <1>1. /\ Emptied /\ writing = "idle" /\ ~isMainLoopThreadActive
        /\ reading["daemon"] \in { "pool", "returned" }
        /\ \A r \in Readers : reading[r] \notin InLock
    BY DEF IInv, QueueInv, ThreadInv, Cleared, Emptied, Locked
  <1>2. packets \in Int
    BY QueueAssumption DEF IInv, TypeOK
  <1>3. CASE NetworkStep
    BY <1>1, <1>3 DEF NetworkStep, Add, TestNext, Insert, Store, Ready, Publish, ThreadEnds
  <1>4. ASSUME NEW r \in Readers, Read(r)
        PROVE  Emptied' /\ Cleared'
    <2>1. r = "main" /\ TestWrite(r) /\ NothingToRead(r)
      BY <1>1, <1>4 DEF Read, TestWrite, TestReady, Take, Fetch, Unready, Release, InLock, Readers, Emptied
    <2>2. reading' = [reading EXCEPT ![r] = "pop"] /\ UNCHANGED << reader, writer, returned, freed >>
          /\ PushHeld(r) /\ packet' = [packet EXCEPT ![r] = NoPacket]
      BY <2>1 DEF NothingToRead
    <2>3. \A n \in Int : Line(n) => Line(n)'
      BY <2>2, LinePushed DEF IInv
    <2>4. \A n : n = packets /\ Line(n)' => Line(packets)'
      BY <2>2 DEF Line, Accounted, writer
    <2>5. Line(packets)'
      BY <1>1, <1>2, <2>3, <2>4 DEF Emptied
    <2>6. ~Locked' /\ Cleared'
      BY <1>1, <2>1, <2>2 DEF Locked, Cleared, Readers, InLock, IInv, Arrays
    <2> QED
      BY <1>1, <2>2, <2>5, <2>6 DEF Emptied, reader, writer
  <1>5. CASE Receive \/ Pop \/ LeaveLoop
    <2>1. PICK x \in { "loop", "lock", "left" } : reading' = [reading EXCEPT !["main"] = x]
      BY <1>5 DEF Receive, Pop, LeaveLoop
    <2>2. UNCHANGED << reader, writer, packet, freed >>
      BY <1>5 DEF Receive, Pop, LeaveLoop, ends
    <2>3. \A q \in Readers : reading'[q] \in { "unready", "release" } => reading'[q] = reading[q]
      BY <2>1 DEF IInv, Arrays, Readers
    <2>4. \A n : Line(n) => Line(n)'
      <3>1. CASE UNCHANGED << returned, packetPool >>
        BY <2>2, <2>3, <3>1 DEF Line, Accounted, Readers
      <3>2. CASE Pop /\ packetPool # << >>
        <4>1. returned' = Append(returned, Head(packetPool)) /\ packetPool' = Tail(packetPool)
          BY <3>2 DEF Pop
        <4> QED
          BY <2>2, <2>3, <3>2, <4>1, LinePopped DEF IInv
      <3> QED
        BY <1>5, <3>1, <3>2 DEF Receive, Pop, LeaveLoop, ends
    <2>5. \A n : n = packets /\ Line(n)' => Line(packets)'
      BY <2>2 DEF Line, Accounted, writer
    <2>6. ~Locked' /\ Cleared'
      BY <1>1, <2>1 DEF Locked, Cleared, Readers, InLock, IInv, Arrays
    <2> QED
      BY <1>1, <2>2, <2>4, <2>5, <2>6 DEF Emptied, reader, writer
  <1>6. CASE Accept \/ Disconnect \/ WaitForThread \/ Clear
    BY <1>1, <1>6 DEF Accept, Disconnect, WaitForThread, Clear
  <1>7. CASE FreePool
    <2>1. /\ reading' = [reading EXCEPT !["daemon"] = "returned"]
          /\ freed' = freed \cup { packetPool[n] : n \in 1..Len(packetPool) } /\ packetPool' = << >>
          /\ UNCHANGED << reader, writer, packet, returned >>
      BY <1>7 DEF FreePool
    <2>2. reading["main"] \notin InLock /\ reading'["main"] = reading["main"]
          /\ reading'["daemon"] = "returned"
      BY <1>1, <2>1 DEF Readers, IInv, Arrays
    <2>3. /\ Len(packetPool') = 0 /\ Len(packetPool) \in Nat /\ Len(returned) \in Nat
          /\ \A i \in 1..Len(packetPool) : packetPool[i] \in Int
          /\ \A i \in 1..Len(returned) : returned[i] \in Int
      <3>1. \A i \in 1..Len(packetPool) : packetPool[i] \in 1..MaxPackets
        BY ElementOfSeq DEF IInv, TypeOK
      <3>2. \A i \in 1..Len(returned) : returned[i] \in 1..MaxPackets
        BY ElementOfSeq DEF IInv, TypeOK
      <3> QED
        BY <2>1, <3>1, <3>2, LenProperties DEF IInv, TypeOK
    <2>4. packet["main"] \in Int /\ packet["main"] >= 0
      BY QueueAssumption DEF IInv, TypeOK, Readers
    <2>5. Line(packets)'
      <3>1. Line(packets)
        BY <1>1 DEF Emptied
      <3>2. \A i \in 1..Len(returned) : returned[i] <= packets /\ returned[i] \notin freed'
        <4>1. \A i \in 1..Len(returned), j \in 1..Len(packetPool) : returned[i] # packetPool[j]
          BY <2>3, <3>1 DEF Line, Accounted
        <4> QED
          BY <2>1, <3>1, <4>1 DEF Line, Accounted
      <3>3. packet["main"] <= packets /\ packet["main"] \notin freed'
        <4>1. \A i \in 1..Len(packetPool) : packetPool[i] \in 1..MaxPackets
          BY ElementOfSeq DEF IInv, TypeOK
        <4>2. \A i \in 1..Len(packetPool) : packetPool[i] # packet["main"]
          BY <2>3, <2>4, <3>1, <4>1 DEF Line, Accounted, NoPacket
        <4> QED
          BY <2>1, <3>1, <4>2 DEF Line, Accounted
      <3>4. \A q \in freed' : q <= packets
        BY <2>1, <3>1 DEF Line, Accounted
      <3> QED
        BY <2>1, <2>2, <2>3, <3>1, <3>2, <3>3, <3>4 DEF Line, Accounted, writer, InLock
    <2>6. ~Locked' /\ Cleared'
      BY <2>2 DEF Locked, Cleared, Readers, InLock
    <2> QED
      BY <1>1, <2>1, <2>5, <2>6 DEF Emptied, reader, writer
  <1> QED
    BY <1>3, <1>4, <1>5, <1>6, <1>7 DEF Next, MainStep, DaemonStep, Readers

\* The network thread has ended where the daemon thread reads, and stays ended.
LEMMA ThreadStep ==
    ASSUME IInv, ~Misused, Next
    PROVE  ThreadInv'
  <1>5. ThreadInv /\ reading \in [Readers -> ReaderStates] /\ packet \in [Readers -> 0..MaxPackets]
    BY DEF IInv, QueueInv, Arrays, TypeOK
  <1> USE <1>5 DEF ThreadInv, Readers
  <1>1. CASE NetworkStep
    <2>1. UNCHANGED locals
      BY <1>1 DEF NetworkStep, Add, TestNext, Insert, Store, Ready, Publish, ThreadEnds
    <2>2. \/ writing = "idle" /\ isMainLoopThreadActive /\ UNCHANGED isMainLoopThreadActive
          \/ writing # "idle" /\ UNCHANGED isMainLoopThreadActive
          \/ writing = "idle" /\ ~isMainLoopThreadActive' /\ UNCHANGED writing
      BY <1>1 DEF NetworkStep, Add, TestNext, Insert, Store, Ready, Publish, ThreadEnds, thread, writer
    <2> QED
      BY <2>1, <2>2 DEF locals
  <1>2. ASSUME NEW r \in Readers, Read(r)
        PROVE  ThreadInv'
    <2>1. UNCHANGED << writing, isMainLoopThreadActive >>
      BY <1>2 DEF Read, TestWrite, TestReady, Take, Fetch, Unready, Release, NothingToRead, writer, thread
    <2>2. PICK x : reading' = [reading EXCEPT ![r] = x]
                   /\ (x = "fetch" => Take(r)) /\ reading[r] \in InLock \cup { "lock" }
      BY <1>2 DEF Read, TestWrite, TestReady, Take, Fetch, Unready, Release, NothingToRead, InLock
    <2>3. reading'["daemon"] \notin { "accept", "disconnect", "wait" } => ~isMainLoopThreadActive
      BY <2>2 DEF InLock
    <2>4. \/ packet' = packet
          \/ packet' = [packet EXCEPT ![r] = NoPacket]
          \/ r = "main" /\ x # "fetch" /\ packet' = [packet EXCEPT ![r] = object[last[r]]]
      BY <1>2, <2>2 DEF Read, TestWrite, TestReady, Take, Fetch, Unready, Release, NothingToRead
    <2>5. packet'["daemon"] = NoPacket
      BY <2>4
    <2>6. reading'["main"] = "fetch" => packet'["main"] = NoPacket
      <3>1. CASE r = "main" /\ x = "fetch"
        BY <2>2, <3>1 DEF Take
      <3>2. CASE r = "main" /\ x # "fetch"
        BY <2>2, <3>2
      <3>3. CASE r # "main"
        BY <2>2, <2>4, <3>3
      <3> QED
        BY <3>1, <3>2, <3>3
    <2> QED
      BY <2>1, <2>3, <2>5, <2>6
  <1>3. CASE Receive \/ Pop \/ LeaveLoop \/ Accept \/ Disconnect
    <2>1. UNCHANGED << packet, writing, isMainLoopThreadActive >>
      BY <1>3 DEF Receive, Pop, LeaveLoop, Accept, Disconnect, writer, thread
    <2>2. \/ \E x \in { "loop", "lock", "left" } : reading' = [reading EXCEPT !["main"] = x]
          \/ \E x \in { "disconnect", "wait" } : reading' = [reading EXCEPT !["daemon"] = x]
      BY <1>3 DEF Receive, Pop, LeaveLoop, Accept, Disconnect
    <2> QED
      BY <2>1, <2>2
  <1>4. CASE WaitForThread \/ Clear \/ FreePool
    <2>1. UNCHANGED << packet, writing, isMainLoopThreadActive >>
      BY <1>4 DEF WaitForThread, Clear, FreePool, writer, thread
    <2>2. /\ ~isMainLoopThreadActive
          /\ \E x : reading' = [reading EXCEPT !["daemon"] = x]
      BY <1>4 DEF WaitForThread, Clear, FreePool
    <2> QED
      BY <2>1, <2>2
  <1> QED
    BY <1>1, <1>2, <1>3, <1>4 DEF Next, MainStep, DaemonStep

\* What the lock is given is a packet.
LEMMA FetchedIsPacket ==
    ASSUME IInv, ~Misused, NEW r \in Readers, Fetch(r)
    PROVE  last[r] \in Nodes /\ object[last[r]] \in 1..MaxPackets
  <1>1. Locked /\ reading[r] = "fetch"
    BY DEF Fetch, Locked, InLock
  <1>2. ~Cleared
    BY <1>1 DEF IInv, QueueInv, Emptied
  <1>3. PICK g \in [0..Last -> Nodes], p \in 0..Last : Holds(g, p) /\ ReaderAt(g, p)
    BY <1>2 DEF IInv, QueueInv, Going
  <1>4. /\ Last \in Nat /\ packets \in 0..MaxPackets /\ MaxPackets \in Nat /\ p > 0
        /\ Published \in Int /\ Published <= packets
    <2>1. Last \in Nat
      BY Shape DEF IInv, QueueInv
    <2>2. p > 0
      BY <1>1, <1>3 DEF ReaderAt
    <2> QED
      BY <2>1, <2>2, QueueAssumption DEF IInv, TypeOK, Published
  <1>5. last[r] = g[0] /\ g[0] \in Nodes
    BY <1>1, <1>3, <1>4 DEF ReaderAt
  <1>6. object[g[0]] = Published - p + 1 + 0 /\ p <= Published
    <2>1. 0 \in 0..(p - 1)
      BY <1>4
    <2> QED
      BY <1>3, <2>1 DEF Holds
  <1> QED
    BY <1>4, <1>5, <1>6

-----------------------------------------------------------------------------
(* The types.                                                              *)

\* The types of the ring, of the pointers into it, and of the rest.
RingTypes ==
    /\ next \in Seq(Nat) /\ next \in [Nodes -> Nodes]
    /\ readyToRead \in Seq(BOOLEAN) /\ readyToRead \in [Nodes -> BOOLEAN]
    /\ object \in Seq(Nat) /\ object \in [Nodes -> 0..MaxPackets]
    /\ MinimumListSize <= Len(next)

PointerTypes ==
    /\ { readAheadPointer, readPointer, writeAheadPointer, writePointer } \subseteq Nodes
    /\ last \in [Readers -> Nodes \cup { NoNode }]

ThreadTypes ==
    /\ writing \in { "idle", "testNext", "insert", "advance", "ready", "publish" }
    /\ packets \in 0..MaxPackets
    /\ endThreads \in BOOLEAN /\ isMainLoopThreadActive \in BOOLEAN /\ stop \in BOOLEAN
    /\ reading \in [Readers -> ReaderStates]
    /\ reading["main"] \in InLock \cup { "loop", "lock", "pop", "left" }
    /\ reading["daemon"] \in InLock \cup { "accept", "disconnect", "wait", "lock",
                                           "clear", "pool", "returned" }

PacketTypes ==
    /\ packet \in [Readers -> 0..MaxPackets]
    /\ packetPool \in Seq(1..MaxPackets)
    /\ returned \in Seq(1..MaxPackets)
    /\ freed \subseteq 1..MaxPackets

LEMMA TypesAre ==
    (TypeOK /\ Arrays /\ MinimumListSize <= Len(next))
    <=> (RingTypes /\ PointerTypes /\ ThreadTypes /\ PacketTypes)
  BY DEF TypeOK, Arrays, RingTypes, PointerTypes, ThreadTypes, PacketTypes

LEMMA RingTypesStep ==
    ASSUME IInv, Next
    PROVE  RingTypes' /\ Nodes \subseteq Nodes'
  <1>1. ~Misused /\ RingTypes /\ PointerTypes /\ ThreadTypes
    BY TypesAre DEF Next, IInv, QueueInv
  <1>2. /\ Len(next) \in Nat /\ DOMAIN next = Nodes /\ DOMAIN readyToRead = Nodes /\ DOMAIN object = Nodes
        /\ Len(readyToRead) = Len(next) /\ Len(object) = Len(next) /\ Nodes = 1..Len(next)
    BY Shape DEF IInv, QueueInv, Nodes
  <1>3. 0..MaxPackets \subseteq Nat /\ MaxPackets \in Nat
    BY QueueAssumption
  <1>4. CASE UNCHANGED ring
    BY <1>1, <1>4 DEF RingTypes, ring, Nodes
  <1>5. CASE Insert
    <2>1. PICK garbage \in BOOLEAN : readyToRead' = Append(readyToRead, garbage)
      BY <1>5 DEF Insert
    <2> DEFINE linked == [next EXCEPT ![writeAheadPointer] = Len(next) + 1]
               n == next[writeAheadPointer]
    <2>2. writeAheadPointer \in 1..Len(next) /\ next \in Seq(Nat) /\ Len(next) + 1 \in Nat
          /\ next \in [Nodes -> Nodes]
      BY <1>1, <1>2 DEF RingTypes, PointerTypes
    <2>3. /\ linked \in Seq(Nat) /\ Len(linked) = Len(next)
          /\ \A i \in 1..Len(next) : linked[i] = IF i = writeAheadPointer THEN Len(next) + 1 ELSE next[i]
      BY <2>2, ExceptSeq
    <2>4. n \in Nodes /\ n \in Nat /\ \A i \in 1..Len(next) : linked[i] \in 1..(Len(next) + 1)
      BY <1>2, <2>2, <2>3
    <2>5. next' = Append(linked, n) /\ object' = Append(object, NoPacket)
      BY <1>5 DEF Insert
    <2> HIDE DEF linked, n
    <2>6. next' \in Seq(Nat) /\ Len(next') = Len(next) + 1
          /\ (\A i \in 1..Len(next) : next'[i] = linked[i]) /\ next'[Len(next) + 1] = n
      BY <2>3, <2>4, <2>5, AppendProperties
    <2>7. readyToRead' \in Seq(BOOLEAN) /\ Len(readyToRead') = Len(next) + 1
      BY <1>1, <1>2, <2>1, AppendProperties DEF RingTypes
    <2>8. object' \in Seq(Nat) /\ Len(object') = Len(next) + 1
          /\ (\A i \in 1..Len(next) : object'[i] = object[i]) /\ object'[Len(next) + 1] = 0
      <3>1. object \in Seq(Nat) /\ NoPacket \in Nat /\ NoPacket = 0
        BY <1>1 DEF RingTypes, NoPacket
      <3> QED
        BY <1>2, <2>5, <3>1, AppendProperties
    <2>9. Nodes' = 1..(Len(next) + 1) /\ Nodes \subseteq Nodes'
      BY <1>2, <2>6 DEF Nodes
    <2>10. \A i \in 1..(Len(next) + 1) : i \in 1..Len(next) \/ i = Len(next) + 1
      BY <1>2
    <2>11. next' \in [Nodes' -> Nodes']
      <3>1. next' \in [1..(Len(next) + 1) -> Nat]
        BY <2>6, LenProperties
      <3>2. \A i \in 1..(Len(next) + 1) : next'[i] \in Nodes'
        BY <2>4, <2>6, <2>9, <2>10
      <3> QED
        BY <2>9, <3>1, <3>2
    <2>12. readyToRead' \in [Nodes' -> BOOLEAN]
      BY <2>7, <2>9, LenProperties
    <2>13. object' \in [Nodes' -> 0..MaxPackets]
      <3>1. object' \in [1..(Len(next) + 1) -> Nat]
        BY <2>8, LenProperties
      <3>2. \A i \in 1..Len(next) : object[i] \in 0..MaxPackets
        BY <1>1, <1>2 DEF RingTypes
      <3>3. \A i \in 1..(Len(next) + 1) : object'[i] \in 0..MaxPackets
        BY <1>3, <2>8, <2>10, <3>2
      <3> QED
        BY <2>9, <3>1, <3>3
    <2>14. MinimumListSize <= Len(next')
      BY <1>1, <1>2, <2>6, QueueAssumption DEF RingTypes
    <2> QED
      BY <2>6, <2>7, <2>8, <2>9, <2>11, <2>12, <2>13, <2>14 DEF RingTypes
  <1>6. ASSUME NEW n \in Nodes, NEW o \in 0..MaxPackets, NEW b \in BOOLEAN, NEW i \in Nodes,
               \/ next' = [next EXCEPT ![i] = n] /\ UNCHANGED << readyToRead, object >>
               \/ readyToRead' = [readyToRead EXCEPT ![i] = b] /\ UNCHANGED << next, object >>
               \/ object' = [object EXCEPT ![i] = o] /\ UNCHANGED << next, readyToRead >>
        PROVE  RingTypes' /\ Nodes \subseteq Nodes'
    <2>1. i \in 1..Len(next) /\ n \in Nat /\ o \in Nat
      BY <1>2, <1>3, <1>6
    <2>2. CASE next' = [next EXCEPT ![i] = n] /\ UNCHANGED << readyToRead, object >>
      <3>1. next' \in Seq(Nat) /\ Len(next') = Len(next)
        BY <1>1, <2>1, <2>2, ExceptSeq DEF RingTypes
      <3>2. Nodes' = Nodes
        BY <3>1 DEF Nodes
      <3>3. next' \in [Nodes -> Nodes]
        BY <1>1, <1>6, <2>2 DEF RingTypes
      <3> QED
        BY <1>1, <2>2, <3>1, <3>2, <3>3 DEF RingTypes
    <2>3. CASE readyToRead' = [readyToRead EXCEPT ![i] = b] /\ UNCHANGED << next, object >>
      <3>1. readyToRead' \in Seq(BOOLEAN)
        BY <1>1, <1>2, <2>1, <2>3, ExceptSeq DEF RingTypes
      <3>2. readyToRead' \in [Nodes -> BOOLEAN] /\ Nodes' = Nodes
        BY <1>1, <1>6, <2>3 DEF RingTypes, Nodes
      <3> QED
        BY <1>1, <2>3, <3>1, <3>2 DEF RingTypes
    <2>4. CASE object' = [object EXCEPT ![i] = o] /\ UNCHANGED << next, readyToRead >>
      <3>1. object' \in Seq(Nat)
        BY <1>1, <1>2, <2>1, <2>4, ExceptSeq DEF RingTypes
      <3>2. object' \in [Nodes -> 0..MaxPackets] /\ Nodes' = Nodes
        BY <1>1, <1>6, <2>4 DEF RingTypes, Nodes
      <3> QED
        BY <1>1, <2>4, <3>1, <3>2 DEF RingTypes
    <2> QED
      BY <1>6, <2>2, <2>3, <2>4
  <1>7. /\ readAheadPointer \in Nodes /\ readPointer \in Nodes /\ writeAheadPointer \in Nodes
        /\ writePointer \in Nodes /\ packets \in 0..MaxPackets
    BY <1>1 DEF PointerTypes, ThreadTypes
  <1>8. CASE Store
    BY <1>6, <1>7, <1>8 DEF Store
  <1>9. CASE Ready
    BY <1>6, <1>7, <1>9 DEF Ready
  <1>10. ASSUME NEW r \in Readers, Unready(r)
         PROVE  RingTypes' /\ Nodes \subseteq Nodes'
    BY <1>6, <1>7, <1>10 DEF Unready
  <1>11. CASE Clear
    BY <1>1, <1>6, <1>7, <1>11, ClearLinks DEF Clear
  <1>12. ASSUME Next, ~Insert, ~Store, ~Ready, ~Clear, \A r \in Readers : ~Unready(r)
         PROVE  UNCHANGED ring
    <2>1. CASE NetworkStep
      BY <1>12, <2>1 DEF NetworkStep, Add, TestNext, Publish, ThreadEnds
    <2>2. ASSUME NEW r \in Readers, Read(r)
          PROVE  UNCHANGED ring
      BY <1>12, <2>2 DEF Read, TestWrite, TestReady, Take, Fetch, Release, NothingToRead
    <2>3. CASE Receive \/ Pop \/ LeaveLoop \/ Accept \/ Disconnect \/ WaitForThread \/ FreePool
      BY <2>3 DEF Receive, Pop, LeaveLoop, Accept, Disconnect, WaitForThread, FreePool
    <2> QED
      BY <1>12, <2>1, <2>2, <2>3 DEF Next, MainStep, DaemonStep, Readers
  <1> QED
    BY <1>4, <1>5, <1>8, <1>9, <1>10, <1>11, <1>12

LEMMA PointerTypesStep ==
    ASSUME IInv, Next
    PROVE  PointerTypes'
  <1>1. ~Misused /\ RingTypes /\ PointerTypes /\ Nodes \subseteq Nodes'
    BY TypesAre, RingTypesStep DEF Next, IInv, QueueInv
  <1>2. /\ \A n \in Nodes : next[n] \in Nodes' /\ n \in Nodes'
        /\ readAheadPointer \in Nodes /\ readPointer \in Nodes /\ writeAheadPointer \in Nodes
        /\ writePointer \in Nodes
        /\ last \in [Readers -> Nodes' \cup { NoNode }]
    BY <1>1 DEF RingTypes, PointerTypes
  <1> DEFINE moves ==
        /\ readAheadPointer' \in { readAheadPointer, next[readAheadPointer], readPointer }
        /\ readPointer' \in { readPointer, next[readPointer] }
        /\ writeAheadPointer' \in { writeAheadPointer, next[writeAheadPointer], readPointer }
        /\ writePointer' \in { writePointer, next[writePointer], readPointer }
        /\ \/ last' = last
           \/ \E r \in Readers : last' = [last EXCEPT ![r] = readAheadPointer]
                                 \/ last' = [last EXCEPT ![r] = NoNode]
  <1>3. moves
    <2>1. CASE NetworkStep
      BY <2>1 DEF NetworkStep, Add, TestNext, Insert, Store, Ready, Publish, ThreadEnds,
                  reader, writer, locals
    <2>2. ASSUME NEW r \in Readers, Read(r)
          PROVE  moves
      BY <2>2 DEF Read, TestWrite, TestReady, Take, Fetch, Unready, Release, NothingToRead,
                  reader, writer, locals
    <2>3. CASE Receive \/ Pop \/ LeaveLoop \/ Accept \/ Disconnect \/ WaitForThread \/ FreePool
      BY <2>3 DEF Receive, Pop, LeaveLoop, Accept, Disconnect, WaitForThread, FreePool,
                  reader, writer, locals
    <2>4. CASE Clear
      BY <2>4 DEF Clear
    <2> QED
      BY <2>1, <2>2, <2>3, <2>4 DEF Next, MainStep, DaemonStep, Readers
  <1>4. last' \in [Readers -> Nodes' \cup { NoNode }]
    BY <1>2, <1>3
  <1>5. { readAheadPointer', readPointer', writeAheadPointer', writePointer' } \subseteq Nodes'
    BY <1>2, <1>3
  <1> QED
    BY <1>4, <1>5 DEF PointerTypes

LEMMA ThreadTypesStep ==
    ASSUME IInv, Next
    PROVE  ThreadTypes'
  <1>1. ThreadTypes /\ ~Misused
    BY TypesAre DEF Next, IInv, QueueInv
  <1>2. /\ writing' \in { "idle", "testNext", "insert", "advance", "ready", "publish" }
        /\ packets' \in 0..MaxPackets
        /\ endThreads' \in BOOLEAN /\ isMainLoopThreadActive' \in BOOLEAN /\ stop' \in BOOLEAN
    <2>1. CASE NetworkStep
      <3>1. writing' \in { "idle", "testNext", "insert", "advance", "ready", "publish" }
        BY <1>1, <2>1
        DEF NetworkStep, Add, TestNext, Insert, Store, Ready, Publish, ThreadEnds, ThreadTypes, writer
      <3>2. packets' = packets \/ (packets < MaxPackets /\ packets' = packets + 1)
        BY <2>1 DEF NetworkStep, Add, TestNext, Insert, Store, Ready, Publish, ThreadEnds, writer
      <3>3. packets' \in 0..MaxPackets
        BY <1>1, <3>2, QueueAssumption DEF ThreadTypes
      <3>4. /\ endThreads' = endThreads /\ stop' = stop
            /\ isMainLoopThreadActive' \in { isMainLoopThreadActive, FALSE }
        BY <2>1 DEF NetworkStep, Add, TestNext, Insert, Store, Ready, Publish, ThreadEnds, thread
      <3> QED
        BY <1>1, <3>1, <3>3, <3>4 DEF ThreadTypes
    <2>2. ASSUME NEW r \in Readers, Read(r)
          PROVE  UNCHANGED << writing, packets, thread, stop >>
      BY <2>2 DEF Read, TestWrite, TestReady, Take, Fetch, Unready, Release, NothingToRead, writer
    <2>3. CASE Receive \/ Pop \/ LeaveLoop \/ Accept \/ Disconnect \/ WaitForThread \/ Clear \/ FreePool
      BY <1>1, <2>3 DEF Receive, Pop, LeaveLoop, Accept, Disconnect, WaitForThread, Clear, FreePool,
                        thread, writer, ThreadTypes
    <2> QED
      BY <1>1, <2>1, <2>2, <2>3 DEF Next, MainStep, DaemonStep, Readers, thread, ThreadTypes
  <1> DEFINE M == InLock \cup { "loop", "lock", "pop", "left" }
             D == InLock \cup { "accept", "disconnect", "wait", "lock", "clear", "pool", "returned" }
  <1>3. \/ reading' = reading
        \/ \E x \in M : reading' = [reading EXCEPT !["main"] = x]
        \/ \E x \in D : reading' = [reading EXCEPT !["daemon"] = x]
    <2>1. CASE NetworkStep
      BY <2>1 DEF NetworkStep, Add, TestNext, Insert, Store, Ready, Publish, ThreadEnds, locals
    <2>2. CASE Read("main")
      <3>1. \E x \in M : reading' = [reading EXCEPT !["main"] = x]
        BY <2>2 DEF Read, TestWrite, TestReady, Take, Fetch, Unready, Release, NothingToRead, InLock
      <3> QED
        BY <3>1
    <2>3. CASE Read("daemon")
      <3>1. \E x \in D : reading' = [reading EXCEPT !["daemon"] = x]
        BY <2>3 DEF Read, TestWrite, TestReady, Take, Fetch, Unready, Release, NothingToRead, InLock
      <3> QED
        BY <3>1
    <2>4. CASE Receive \/ Pop \/ LeaveLoop
      <3>1. \E x \in M : reading' = [reading EXCEPT !["main"] = x]
        BY <2>4 DEF Receive, Pop, LeaveLoop
      <3> QED
        BY <3>1
    <2>5. CASE Accept \/ Disconnect \/ WaitForThread \/ Clear \/ FreePool
      <3>1. \E x \in D : reading' = [reading EXCEPT !["daemon"] = x]
        BY <2>5 DEF Accept, Disconnect, WaitForThread, Clear, FreePool
      <3> QED
        BY <3>1
    <2> QED
      BY <2>1, <2>2, <2>3, <2>4, <2>5 DEF Next, MainStep, DaemonStep
  <1>4. M \subseteq ReaderStates /\ D \subseteq ReaderStates
        /\ reading["main"] \in M /\ reading["daemon"] \in D /\ reading \in [Readers -> ReaderStates]
    BY <1>1 DEF ThreadTypes, ReaderStates
  <1>5. reading' \in [Readers -> ReaderStates] /\ reading'["main"] \in M /\ reading'["daemon"] \in D
    <2> HIDE DEF M, D
    <2> QED
      BY <1>3, <1>4 DEF Readers
  <1> QED
    BY <1>2, <1>5 DEF ThreadTypes

LEMMA PacketTypesStep ==
    ASSUME IInv, Next
    PROVE  PacketTypes'
  <1>1. ~Misused /\ PacketTypes
    BY TypesAre DEF Next, IInv, QueueInv
  <1> USE <1>1 DEF PacketTypes
  <1>2. CASE UNCHANGED << packet, packetPool, returned, freed >>
    BY <1>2
  <1>3. ASSUME NEW r \in Readers, PushHeld(r), packet' = [packet EXCEPT ![r] = NoPacket],
               UNCHANGED << returned, freed >>
        PROVE  PacketTypes'
    <2>1. NoPacket \in 0..MaxPackets /\ NoPacket = 0
      BY QueueAssumption DEF NoPacket
    <2>2. packetPool' \in Seq(1..MaxPackets)
      <3>1. packet[r] # NoPacket => packet[r] \in 1..MaxPackets
        BY <2>1
      <3> QED
        BY <1>3, <3>1, AppendProperties DEF PushHeld
    <2> QED
      BY <1>3, <2>1, <2>2
  <1>4. ASSUME NEW r \in Readers, Read(r)
        PROVE  PacketTypes'
    <2>1. CASE NothingToRead(r) \/ Take(r)
      BY <1>3, <2>1 DEF NothingToRead, Take
    <2>2. CASE Fetch(r)
      <3>1. object[last[r]] \in 1..MaxPackets
        BY <2>2, FetchedIsPacket
      <3>2. \A n \in 1..MaxPackets : n \in 0..MaxPackets
        BY QueueAssumption
      <3> QED
        BY <2>2, <3>1, <3>2 DEF Fetch
    <2>3. CASE ~NothingToRead(r) /\ ~Take(r) /\ ~Fetch(r)
      BY <1>2, <1>4, <2>3 DEF Read, TestWrite, TestReady, Unready, Release, ends
    <2> QED
      BY <2>1, <2>2, <2>3
  <1>5. CASE Pop
    <2>1. CASE packetPool = << >>
      BY <1>2, <1>5, <2>1 DEF Pop
    <2>2. CASE packetPool # << >>
      <3>1. Head(packetPool) \in 1..MaxPackets /\ Tail(packetPool) \in Seq(1..MaxPackets)
        BY <2>2, HeadTailProperties
      <3>2. Append(returned, Head(packetPool)) \in Seq(1..MaxPackets)
        BY <3>1, AppendProperties
      <3> QED
        BY <1>5, <2>2, <3>1, <3>2 DEF Pop
    <2> QED
      BY <2>1, <2>2
  <1>6. CASE FreePool
    <2>1. \A n \in 1..Len(packetPool) : packetPool[n] \in 1..MaxPackets
      BY ElementOfSeq
    <2>2. << >> \in Seq(1..MaxPackets)
      OBVIOUS
    <2> QED
      BY <1>6, <2>1, <2>2 DEF FreePool
  <1>7. CASE NetworkStep
    BY <1>2, <1>7 DEF NetworkStep, Add, TestNext, Insert, Store, Ready, Publish, ThreadEnds, locals, ends
  <1>8. CASE Receive \/ LeaveLoop \/ Accept \/ Disconnect \/ WaitForThread \/ Clear
    BY <1>2, <1>8 DEF Receive, LeaveLoop, Accept, Disconnect, WaitForThread, Clear, ends
  <1> QED
    BY <1>4, <1>5, <1>6, <1>7, <1>8 DEF Next, MainStep, DaemonStep, Readers

LEMMA TypeStep ==
    ASSUME IInv, Next
    PROVE  TypeOK' /\ Arrays' /\ (MinimumListSize <= Len(next))'
  BY RingTypesStep, PointerTypesStep, ThreadTypesStep, PacketTypesStep
  DEF TypeOK, Arrays, RingTypes, PointerTypes, ThreadTypes, PacketTypes

-----------------------------------------------------------------------------
(* The invariant is inductive.                                             *)

\* Only Clear clears the queue, and only then is its pool freed.
LEMMA ClearedStep ==
    ASSUME IInv, ~Cleared, Next, ~Clear
    PROVE  ~Cleared'
  <1>1. reading \in [Readers -> ReaderStates] /\ reading["daemon"] \notin { "pool", "returned" }
    BY DEF IInv, Arrays, Cleared
  <1>2. CASE NetworkStep
    BY <1>1, <1>2
    DEF NetworkStep, Add, TestNext, Insert, Store, Ready, Publish, ThreadEnds, locals, Cleared
  <1>3. ASSUME NEW r \in Readers, Read(r)
        PROVE  ~Cleared'
    <2>1. \E x \in InLock \cup { "lock", "pop", "clear" } :
             reading' = [reading EXCEPT ![r] = x] /\ (x = "pop" => r = "main")
      BY <1>3 DEF Read, TestWrite, TestReady, Take, Fetch, Unready, Release, NothingToRead, InLock
    <2> QED
      BY <1>1, <2>1 DEF Cleared, InLock, Readers
  <1>4. CASE Receive \/ Pop \/ LeaveLoop \/ Accept \/ Disconnect \/ WaitForThread
    <2>1. \E r \in Readers, x \in { "loop", "lock", "left", "disconnect", "wait" } :
             reading' = [reading EXCEPT ![r] = x]
      BY <1>4 DEF Receive, Pop, LeaveLoop, Accept, Disconnect, WaitForThread, Readers
    <2> QED
      BY <1>1, <2>1 DEF Cleared, Readers
  <1>5. ~FreePool
    BY <1>1 DEF FreePool
  <1> QED
    BY <1>2, <1>3, <1>4, <1>5 DEF Next, MainStep, DaemonStep, Readers

LEMMA QueueStep ==
    ASSUME IInv, Next
    PROVE  QueueInv'
  <1>1. ~Misused
    BY DEF Next
  <1>2. ThreadInv' /\ (MinimumListSize <= Len(next))'
    BY <1>1, ThreadStep, TypeStep
  <1>3. ASSUME ~Misused'
        PROVE  IF Cleared' THEN Emptied' ELSE Going'
    <2>1. CASE Cleared
      BY <1>1, <1>3, <2>1, EmptiedStays
    <2>2. CASE ~Cleared /\ Clear
      <3>1. Cleared'
        BY <2>2 DEF Clear, Cleared, IInv, Arrays, Readers
      <3> QED
        BY <1>1, <1>3, <2>2, <3>1, EmptiedByClear
    <2>3. CASE ~Cleared /\ ~Clear
      <3>1. ~Cleared'
        BY <2>3, ClearedStep
      <3>2. CASE NetworkStep
        BY <1>1, <2>3, <3>1, <3>2, GoingOnNetwork
      <3>3. ASSUME NEW r \in Readers, Read(r)
            PROVE  Going'
        <4>1. CASE reading[r] = "lock" /\ readAheadPointer = writePointer
          <5>1. NothingToRead(r)
            BY <3>3, <4>1 DEF Read, TestWrite, TestReady, Take, Fetch, Unready, Release
          <5> QED
            BY <1>1, <1>3, <2>3, <4>1, <5>1, GoingOnNothing
        <4> QED
          BY <1>1, <1>3, <2>3, <3>3, <4>1, GoingOnLocked
      <3>4. CASE Receive \/ Pop \/ LeaveLoop \/ Accept \/ Disconnect \/ WaitForThread
        BY <1>1, <2>3, <3>1, <3>4, GoingOnOutside
      <3>5. ~FreePool
        BY <2>3 DEF FreePool, Cleared
      <3> QED
        BY <2>3, <3>1, <3>2, <3>3, <3>4, <3>5 DEF Next, MainStep, DaemonStep, Readers
    <2> QED
      BY <2>1, <2>2, <2>3
  <1> QED
    BY <1>2, <1>3 DEF QueueInv

LEMMA IInvStep ==
    ASSUME IInv, [Next]_vars
    PROVE  IInv'
  <1>1. CASE Next
    BY <1>1, TypeStep, QueueStep DEF IInv
  <1>2. CASE UNCHANGED vars
    <2>1. UNCHANGED << ring, reader, writer, thread, locals, ends, stop >>
      BY <1>2 DEF vars
    <2>2. TypeOK' /\ Arrays'
      BY <2>1 DEF IInv, TypeOK, Arrays, Nodes, ring, reader, writer, thread, locals, ends
    <2>3. Last' = Last /\ Nodes' = Nodes /\ Misused' = Misused /\ Cleared' = Cleared
          /\ Locked' = Locked /\ Taken' = Taken /\ Fetched' = Fetched /\ Unreadied' = Unreadied
          /\ Published' = Published
      BY <2>1, SameReaders DEF Last, Nodes, Published, ring, writer
    <2>4. \A n : Line(n) => Line(n)'
      BY <2>1, SameLine
    <2>5. Emptied => Emptied'
      <3>1. \A n : n = packets /\ Line(n)' => Line(packets)'
        BY <2>1 DEF Line, Accounted, writer
      <3> QED
        BY <2>1, <2>3, <2>4, <3>1 DEF Emptied, reader, writer
    <2>6. Going => Going'
      <3> SUFFICES ASSUME NEW g \in [0..Last -> Nodes], NEW p \in 0..Last,
                          Ring(g), WriterAt(g, p), Holds(g, p), ReaderAt(g, p),
                          reading["daemon"] = "clear" => p = 0, Line(Gone(p))
                   PROVE  Going'
        BY DEF Going
      <3>1. Ring(g)'
        BY <2>1, SameRing DEF ring, reader
      <3>2. WriterAt(g, p)'
        BY <2>1, <2>3 DEF WriterAt, ring, writer
      <3>3. Holds(g, p)'
        BY <2>1, <2>3 DEF Holds, ring
      <3>4. ReaderAt(g, p)'
        BY <2>1, <2>3 DEF ReaderAt, reader, locals
      <3>5. Line(Gone(p))'
        <4>1. Gone(p)' = Gone(p)
          BY <2>3 DEF Gone
        <4>2. \A m : m = Gone(p) /\ Line(m)' => Line(Gone(p))'
          BY <4>1 DEF Line, Accounted
        <4> QED
          BY <2>4, <4>2
      <3> QED
        BY <2>1, <3>1, <3>2, <3>3, <3>4, <3>5, GoingWith DEF locals
    <2>7. QueueInv'
      BY <2>1, <2>3, <2>5, <2>6 DEF IInv, QueueInv, ThreadInv, ring, writer, thread, locals
    <2> QED
      BY <2>2, <2>7 DEF IInv
  <1> QED
    BY <1>1, <1>2

-----------------------------------------------------------------------------
(* The theorems.                                                           *)

LEMMA Remainders ==
    ASSUME NEW m \in Nat, m > 0
    PROVE  m % m = 0 /\ \A n \in 1..m : n < m => n % m = n
  OBVIOUS

\* Initially the walk is along the nodes as they are numbered.
LEMMA IInvInit == Init => IInv
  <1> SUFFICES ASSUME Init PROVE IInv
    OBVIOUS
  <1> USE QueueAssumption DEF Init
  <1> DEFINE M == MinimumListSize
  <1>1. \A n \in 1..M : (n % M) + 1 \in 1..M /\ (n % M) + 1 \in Nat
    OBVIOUS
  <1>2. next \in [1..M -> Nat] /\ next \in [1..M -> 1..M]
    BY <1>1
  <1>3. next \in Seq(Nat) /\ Len(next) = M /\ Nodes = 1..M /\ Last = M - 1
    <2>1. next \in Seq(Nat) /\ Len(next) = M
      BY <1>2
    <2> QED
      BY <2>1 DEF Nodes, Last
  <1>4. readyToRead \in Seq(BOOLEAN) /\ object \in [1..M -> Nat] /\ object \in Seq(Nat)
    BY DEF NoPacket
  <1>5. (\A n \in 1..M : n < M => n % M = n) /\ M % M = 0
    <2>1. M \in Nat /\ M > 0
      OBVIOUS
    <2> HIDE DEF M
    <2> QED
      BY ONLY <2>1, Remainders
  <1>7. /\ reading \in [Readers -> ReaderStates] /\ reading["main"] = "loop"
        /\ reading["daemon"] = "accept" /\ \A r \in Readers : reading[r] \notin InLock
    BY DEF Readers, ReaderStates, InLock
  <1>8. TypeOK
    <2>1. packetPool \in Seq(1..MaxPackets) /\ returned \in Seq(1..MaxPackets)
      OBVIOUS
    <2>2. last \in [Readers -> Nodes \cup { NoNode }] /\ packet \in [Readers -> 0..MaxPackets]
      BY DEF NoPacket
    <2>3. object \in [Nodes -> 0..MaxPackets] /\ 1 \in Nodes
      BY <1>3 DEF NoPacket
    <2>4. next \in [Nodes -> Nodes] /\ readyToRead \in [Nodes -> BOOLEAN]
      BY <1>2, <1>3
    <2>5. /\ { readAheadPointer, readPointer, writeAheadPointer, writePointer } \subseteq Nodes
          /\ packets \in 0..MaxPackets /\ freed \subseteq 1..MaxPackets
          /\ writing \in { "idle", "testNext", "insert", "advance", "ready", "publish" }
          /\ endThreads \in BOOLEAN /\ isMainLoopThreadActive \in BOOLEAN /\ stop \in BOOLEAN
      <3>1. packets \in 0..MaxPackets /\ freed \subseteq 1..MaxPackets
        OBVIOUS
      <3>2. { readAheadPointer, readPointer, writeAheadPointer, writePointer } \subseteq Nodes
        BY <2>3
      <3> QED
        BY <3>1, <3>2
    <2> QED
      BY <1>7, <2>1, <2>2, <2>3, <2>4, <2>5 DEF TypeOK
  <1>9. ThreadInv
    BY <1>7 DEF ThreadInv, Readers
  <1>10. PICK g : g = [i \in 0..Last |-> i + 1]
    OBVIOUS
  <1>11. Ring(g)
    <2>1. g \in [0..Last -> Nodes] /\ \A i, j \in 0..Last : g[i] = g[j] => i = j
      BY <1>3, <1>10
    <2>2. ASSUME NEW i \in 0..(Last - 1)
          PROVE  next[g[i]] = g[i + 1]
      <3>1. g[i] = i + 1 /\ g[i + 1] = (i + 1) + 1 /\ i + 1 \in 1..M /\ i + 1 < M
        BY <1>3, <1>10
      <3>2. (i + 1) % M = i + 1
        BY <1>5, <3>1
      <3> QED
        BY <3>1, <3>2
    <2>3. next[g[Last]] = g[0]
      <3>1. g[Last] = M /\ M \in 1..M /\ g[0] = 1
        BY <1>3, <1>10
      <3> QED
        BY <1>5, <3>1
    <2>4. g[0] = readPointer
      BY <1>3, <1>10
    <2> QED
      BY <2>1, <2>2, <2>3, <2>4 DEF Ring
  <1>12. ~Locked /\ ~Taken /\ ~Fetched /\ Published = 0
    BY <1>7 DEF Locked, Taken, Fetched, InLock, Published
  <1>13. g[0] = 1 /\ 0 \in 0..Last
    BY <1>3, <1>10
  <1>14. WriterAt(g, 0) /\ Holds(g, 0) /\ ReaderAt(g, 0)
    <2>1. WriterAt(g, 0)
      BY <1>13 DEF WriterAt
    <2>2. Holds(g, 0)
      BY <1>12 DEF Holds
    <2>3. ReaderAt(g, 0)
      BY <1>7, <1>12, <1>13 DEF ReaderAt, InLock
    <2> QED
      BY <2>1, <2>2, <2>3
  <1>15. Line(Gone(0))
    <2>1. Gone(0) = 0
      BY <1>12 DEF Gone
    <2>2. Len(returned) = 0 /\ Len(packetPool) = 0 /\ packet["main"] = 0
      BY DEF NoPacket, Readers
    <2> QED
      BY <1>7, <2>1, <2>2 DEF Line, NoPacket
  <1>16. Going
    <2>1. g \in [0..Last -> Nodes]
      BY <1>11 DEF Ring
    <2> QED
      BY <1>7, <1>11, <1>13, <1>14, <1>15, <2>1 DEF Going
  <1>17. ~Cleared
    BY <1>7 DEF Cleared
  <1> QED
    BY <1>3, <1>4, <1>7, <1>8, <1>9, <1>16, <1>17 DEF IInv, Arrays, QueueInv

\* The ring goes round and the packets stand in line, or the queue was cleared, or two
\* threads read at once, in all that the three threads do.
THEOREM QueueInvariant == Spec => []IInv
<1>1. Init => IInv
  BY IInvInit
<1>2. IInv /\ [Next]_vars => IInv'
  BY IInvStep
<1> QED
  BY <1>1, <1>2, PTL DEF Spec

\* Every variable keeps its type: no pointer leaves the nodes of the ring, and only packets
\* that AddPacketToProducer put in are pooled, returned and freed.
THEOREM QueueTypeCorrect == Spec => []TypeOK
<1>1. IInv => TypeOK
  BY DEF IInv
<1> QED
  BY <1>1, QueueInvariant, PTL

LEMMA AssertionsFromRing ==
    ASSUME IInv
    PROVE  AssertionsHold
  <1>1. Last \in Nat /\ Last >= 2
    BY Shape DEF IInv, QueueInv
  <1>2. ASSUME writing = "ready"
        PROVE  next[writePointer] # readPointer /\ writePointer # writeAheadPointer
    <2>1. ~Misused /\ ~Cleared
      <3>1. reading["daemon"] \in { "accept", "disconnect", "wait" }
        BY <1>2 DEF IInv, QueueInv, ThreadInv
      <3> QED
        BY <3>1 DEF Misused, Cleared, InLock
    <2>2. PICK g \in [0..Last -> Nodes], p \in 0..Last : Ring(g) /\ WriterAt(g, p)
      BY <2>1 DEF IInv, QueueInv, Going
    <2>3. p < Last /\ writePointer = g[p] /\ writeAheadPointer = g[p + 1]
      BY <1>2, <2>2 DEF WriterAt
    <2>4. next[g[p]] = g[p + 1] /\ g[p + 1] # g[0] /\ g[p + 1] # g[p] /\ g[0] = readPointer
      BY <1>1, <2>2, <2>3 DEF Ring
    <2> QED
      BY <2>3, <2>4
  <1>3. ASSUME NEW r \in Readers, ~Misused, reading[r] = "unready"
        PROVE  readAheadPointer # readPointer /\ readPointer # writePointer
    <2>1. Locked /\ Taken
      BY <1>3 DEF Locked, Taken, InLock
    <2>2. PICK g \in [0..Last -> Nodes], p \in 0..Last : Ring(g) /\ WriterAt(g, p) /\ ReaderAt(g, p)
      BY <1>3, <2>1 DEF IInv, QueueInv, Going, Emptied
    <2>3. p > 0 /\ readAheadPointer = g[1] /\ writePointer = g[p] /\ readPointer = g[0]
      BY <2>1, <2>2 DEF ReaderAt, WriterAt, Ring
    <2> QED
      BY <1>1, <2>2, <2>3 DEF Ring
  <1> QED
    BY <1>2, <1>3 DEF AssertionsHold

\* The assertions of WriteUnlock and ReadUnlock hold until two threads read at once: the
\* writer never takes the node a reader is at, a reader frees only what was written.
THEOREM AssertionsHoldHolds == Spec => []AssertionsHold
<1>1. IInv => AssertionsHold
  BY AssertionsFromRing
<1> QED
  BY <1>1, QueueInvariant, PTL

-----------------------------------------------------------------------------
(* The queue implements the queue that a RakPeer promises (PacketFifo).     *)

\* The mapping of ImplementsFifo.
Pending == ((InRing \cup Pooled \cup InHand) \ Returned) \ freed

\* The ring holds the last p packets, and nothing once the queue is cleared.
LEMMA InRingIs ==
    ASSUME IInv, NEW g, NEW p \in 0..Last, Ring(g), WriterAt(g, p), Holds(g, p)
    PROVE  InRing = (Published - p + 1)..Published
  <1>1. Last \in Nat /\ Published \in Int
    BY Shape DEF IInv, QueueInv, TypeOK, Published
  <1>2. /\ Distance(readPointer, writePointer) = p
        /\ \A k \in 0..Last : After(readPointer, k) = g[k]
    BY Distances DEF IInv, QueueInv, WriterAt
  <1>3. \A k \in 0..(p - 1) : object[After(readPointer, k)] = Published - p + 1 + k
    BY <1>1, <1>2 DEF Holds
  <1>4. ASSUME NEW x \in (Published - p + 1)..Published
        PROVE  \E k \in 0..(p - 1) : x = Published - p + 1 + k
    <2>1. x - (Published - p + 1) \in 0..(p - 1)
      BY <1>1
    <2>2. x = Published - p + 1 + (x - (Published - p + 1))
      BY <1>1
    <2> QED
      BY <2>1, <2>2
  <1>5. \A k \in 0..(p - 1) : Published - p + 1 + k \in (Published - p + 1)..Published
    BY <1>1
  <1>6. InRing = { object[After(readPointer, k)] : k \in 0..(p - 1) }
    BY <1>2 DEF InRing
  <1> QED
    BY <1>3, <1>4, <1>5, <1>6

LEMMA InRingNone ==
    (Len(next) \in Nat /\ writePointer = readPointer) => InRing = {}
  <1> SUFFICES ASSUME Len(next) \in Nat, writePointer = readPointer
               PROVE  InRing = {}
    OBVIOUS
  <1>1. After(readPointer, 0) = readPointer
    <2>1. PICK f : f = [k \in 0..0 |-> IF k = 0 THEN readPointer ELSE next[f[k - 1]]]
      <3>1. [k \in 0..0 |-> readPointer] = [k \in 0..0 |-> IF k = 0 THEN readPointer ELSE
                                              next[[i \in 0..0 |-> readPointer][k - 1]]]
        OBVIOUS
      <3> QED
        BY <3>1
    <2>2. After(readPointer, 0) = f[0]
      BY <2>1, AfterIs
    <2> QED
      BY <2>1, <2>2
  <1>2. \A k \in 0..(0 - 1) : After(readPointer, k) # readPointer
    OBVIOUS
  <1>3. Distance(readPointer, writePointer) = 0
    BY <1>1, <1>2, DistanceIs
  <1> QED
    BY <1>3 DEF InRing

LEMMA InRingNoneNext ==
    ((Len(next) \in Nat /\ writePointer = readPointer) => InRing = {})'
  BY InRingNone, PTL

\* How many of the packets that were put in were read: those up to it are accounted for,
\* and the others are in the ring.
LEMMA ReadUpTo ==
    ASSUME IInv, ~Misused
    PROVE  \E n \in Nat : /\ n <= Published /\ Published \in Nat /\ Line(n)
                          /\ InRing \subseteq 1..Published
                          /\ \A q \in 1..Published : q <= n \/ q \in InRing
  <1>1. packets \in Nat /\ Last \in Nat /\ Len(next) \in Nat
    BY Shape, QueueAssumption DEF IInv, QueueInv, TypeOK
  <1>2. CASE Cleared
    <2>1. Emptied /\ Published = packets
      BY <1>2 DEF IInv, QueueInv, Cleared, ThreadInv, Published
    <2>2. InRing = {}
      BY <1>1, <2>1, InRingNone DEF Emptied
    <2>3. Line(packets) /\ \A q \in 1..packets : q <= packets
      BY <1>1, <2>1 DEF Emptied
    <2>4. \A m : m = packets /\ Line(packets) => Line(m)
      OBVIOUS
    <2> QED
      BY <1>1, <2>1, <2>2, <2>3
  <1>3. CASE ~Cleared
    <2>1. PICK g \in [0..Last -> Nodes], p \in 0..Last :
            Ring(g) /\ WriterAt(g, p) /\ Holds(g, p) /\ ReaderAt(g, p) /\ Line(Gone(p))
      BY <1>3 DEF IInv, QueueInv, Going
    <2>2. InRing = (Published - p + 1)..Published
      BY <2>1, InRingIs
    <2>3. Published \in Int /\ p \in Nat /\ p <= Published /\ (Fetched => p > 0)
      BY <1>1, <2>1 DEF Published, Holds, ReaderAt, Fetched, Locked, InLock
    <2>4. Gone(p) \in Nat /\ Gone(p) <= Published /\ Published - p <= Gone(p)
      BY <2>3 DEF Gone
    <2> QED
      BY <2>1, <2>2, <2>3, <2>4
  <1> QED
    BY <1>2, <1>3

\* Only the main thread has a packet in hand.
LEMMA HandIs ==
    ASSUME IInv
    PROVE  InHand = { packet["main"] } \ { 0 }
  BY DEF InHand, NoPacket, Readers, IInv, QueueInv, ThreadInv

\* What waits is what was put in and was neither handed out nor freed.
LEMMA PendingIs ==
    IInv /\ ~Misused =>
        /\ Published \in Nat
        /\ Returned \subseteq 1..Published
        /\ freed \subseteq 1..Published
        /\ Pending = (1..Published) \ (Returned \cup freed)
  <1> SUFFICES ASSUME IInv, ~Misused
               PROVE  /\ Published \in Nat
                      /\ Returned \subseteq 1..Published
                      /\ freed \subseteq 1..Published
                      /\ Pending = (1..Published) \ (Returned \cup freed)
    OBVIOUS
  <1>1. PICK n \in Nat : /\ n <= Published /\ Published \in Nat /\ Line(n)
                         /\ InRing \subseteq 1..Published
                         /\ \A q \in 1..Published : q <= n \/ q \in InRing
    BY ReadUpTo
  <1>2. /\ \A i \in 1..Len(returned) : returned[i] \in 1..MaxPackets
        /\ \A i \in 1..Len(packetPool) : packetPool[i] \in 1..MaxPackets
        /\ packet["main"] \in 0..MaxPackets /\ freed \subseteq 1..MaxPackets /\ MaxPackets \in Nat
    BY QueueAssumption, ElementOfSeq DEF IInv, TypeOK, Readers
  <1>3. \A q \in 0..MaxPackets : q <= n /\ q # 0 => q \in 1..Published
    BY <1>1, <1>2
  <1>4. Returned \subseteq 1..Published
    BY <1>1, <1>2, <1>3 DEF Returned, Line
  <1>5. freed \subseteq 1..Published
    BY <1>1, <1>2, <1>3 DEF Line
  <1>6. Pooled \subseteq 1..Published
    BY <1>1, <1>2, <1>3 DEF Pooled, Line
  <1>7. InHand \subseteq 1..Published
    BY <1>1, <1>2, <1>3, HandIs DEF Line
  <1>8. ASSUME NEW q \in 1..Published, q \notin Returned, q \notin freed
        PROVE  q \in InRing \cup Pooled \cup InHand
    <2>1. CASE q <= n
      <3>1. Accounted(q)
        BY <1>1, <2>1 DEF Line
      <3> QED
        BY <1>8, <3>1, HandIs DEF Accounted, Returned, Pooled
    <2> QED
      BY <1>1, <2>1
  <1>9. Pending = (1..Published) \ (Returned \cup freed)
    BY <1>1, <1>6, <1>7, <1>8 DEF Pending
  <1> QED
    BY <1>1, <1>4, <1>5, <1>9

LEMMA PendingIsNext ==
    (IInv /\ ~Misused =>
        /\ Published \in Nat
        /\ Returned \subseteq 1..Published
        /\ freed \subseteq 1..Published
        /\ Pending = (1..Published) \ (Returned \cup freed))'
  BY PendingIs, PTL

\* The head of the pool is the oldest packet that waits, and all of the pool waits.
LEMMA PoolWaits ==
    ASSUME IInv, ~Misused
    PROVE  /\ Pooled \subseteq Pending
           /\ packetPool # << >> => /\ Head(packetPool) \in Pending
                                    /\ \A q \in Pending : Head(packetPool) <= q
  <1>1. PICK n \in Nat : /\ n <= Published /\ Published \in Nat /\ Line(n)
                         /\ \A q \in 1..Published : q <= n \/ q \in InRing
    BY ReadUpTo
  <1>2. /\ \A i \in 1..Len(returned) : returned[i] \in Int
        /\ \A i \in 1..Len(packetPool) : packetPool[i] \in Int
        /\ packet["main"] \in Int
    BY QueueAssumption, ElementOfSeq, SMTT(30) DEF IInv, TypeOK, Readers
  <1>3. Pooled \subseteq Pending
    <2>1. \A i \in 1..Len(returned), j \in 1..Len(packetPool) : returned[i] # packetPool[j]
      BY <1>1, <1>2 DEF Line
    <2>2. \A j \in 1..Len(packetPool) : packetPool[j] \notin freed
      BY <1>1 DEF Line
    <2> QED
      BY <2>1, <2>2 DEF Pending, Pooled, Returned
  <1>4. ASSUME packetPool # << >>
        PROVE  /\ Head(packetPool) \in Pending
               /\ \A q \in Pending : Head(packetPool) <= q
    <2>1. Len(packetPool) \in Nat /\ 1 \in 1..Len(packetPool) /\ Head(packetPool) = packetPool[1]
      BY <1>4, HeadTailProperties, LenProperties, EmptySeq DEF IInv, TypeOK
    <2>2. Head(packetPool) \in Pending
      BY <1>3, <2>1 DEF Pooled
    <2>3. ASSUME NEW q \in Pending
          PROVE  packetPool[1] <= q
      <3>1. q \in 1..Published /\ q \notin Returned /\ q \notin freed
        BY PendingIs
      <3>2. CASE q <= n
        <4>1. Accounted(q) /\ \A i \in 1..Len(returned) : returned[i] # q
          BY <1>1, <3>1, <3>2 DEF Line, Returned
        <4>2. CASE packet["main"] = q
          <5>1. packetPool[1] < packet["main"]
            BY <1>1, <2>1, <3>1, <4>2 DEF Line, NoPacket
          <5> QED
            BY <1>2, <2>1, <4>2, <5>1
        <4>3. ASSUME NEW i \in 1..Len(packetPool), packetPool[i] = q
              PROVE  packetPool[1] <= q
          <5>1. i = 1 \/ 1 < i
            BY <2>1
          <5>2. packetPool[1] = packetPool[i] \/ packetPool[1] < packetPool[i]
            BY <1>1, <2>1, <5>1 DEF Line
          <5> QED
            BY <1>2, <2>1, <4>3, <5>2
        <4> QED
          BY <3>1, <4>1, <4>2, <4>3 DEF Accounted
      <3>3. CASE q > n
        <4>1. packetPool[1] <= n
          BY <1>1, <2>1 DEF Line
        <4> QED
          BY <1>1, <1>2, <2>1, <3>1, <3>3, <4>1
      <3> QED
        BY <1>1, <3>1, <3>2, <3>3
    <2> QED
      BY <2>1, <2>2, <2>3
  <1> QED
    BY <1>3, <1>4

\* What a reader puts into the pool it had in hand.
LEMMA PushedWasHeld ==
    ASSUME IInv, NEW r \in Readers, PushHeld(r), packet' = [packet EXCEPT ![r] = NoPacket]
    PROVE  Pooled' \cup InHand' = Pooled \cup InHand
  <1>1. InHand = { packet["main"] } \ { 0 }
    BY HandIs
  <1>2. packet \in [Readers -> 0..MaxPackets] /\ packetPool \in Seq(1..MaxPackets)
        /\ packet["daemon"] = 0
    BY DEF IInv, TypeOK, QueueInv, ThreadInv, NoPacket
  <1>3. InHand' = { packet'["main"] } \ { 0 }
    <2>1. packet'["daemon"] = 0
      BY <1>2 DEF Readers, NoPacket
    <2> QED
      BY <2>1 DEF InHand, NoPacket, Readers
  <1>4. CASE r = "main" /\ packet["main"] # 0
    <2>1. packetPool' = Append(packetPool, packet["main"]) /\ packet'["main"] = 0
          /\ packet["main"] \in 1..MaxPackets
      BY <1>2, <1>4 DEF PushHeld, Readers, NoPacket
    <2>2. /\ Len(packetPool) \in Nat /\ Len(packetPool') = Len(packetPool) + 1
          /\ \A i \in 1..Len(packetPool) : packetPool'[i] = packetPool[i]
          /\ packetPool'[Len(packetPool) + 1] = packet["main"]
      BY <1>2, <2>1, AppendProperties, LenProperties
    <2>3. /\ \A i \in 1..Len(packetPool') : i \in 1..Len(packetPool) \/ i = Len(packetPool) + 1
          /\ \A i \in 1..Len(packetPool) : i \in 1..Len(packetPool')
          /\ Len(packetPool) + 1 \in 1..Len(packetPool')
      BY <2>2
    <2>4. Pooled' = Pooled \cup { packet["main"] }
      BY <2>2, <2>3 DEF Pooled
    <2> QED
      BY <1>1, <1>3, <1>4, <2>1, <2>4
  <1>5. CASE r # "main" \/ packet["main"] = 0
    <2>1. packetPool' = packetPool /\ packet'["main"] = packet["main"]
      BY <1>2, <1>5 DEF PushHeld, Readers, NoPacket
    <2> QED
      BY <1>1, <1>3, <2>1 DEF Pooled
  <1> QED
    BY <1>4, <1>5

\* Steps that leave what waits, what was handed out and what was freed as they are.
Same == Pending' = Pending /\ returned' = returned /\ freed' = freed

LEMMA SamePending ==
    ASSUME UNCHANGED << next, object, readPointer, writePointer, returned, freed >>,
           Pooled' \cup InHand' = Pooled \cup InHand
    PROVE  Same
  <1>1. InRing' = InRing
    BY SMT DEF InRing, Distance, After
  <1>2. Returned' = Returned
    BY DEF Returned
  <1> QED
    BY <1>1, <1>2 DEF Same, Pending

\* Only the tests of the lock and Clear can be the step that makes two threads read at once.
LEMMA SameOnTests ==
    ASSUME IInv, ~Misused, NEW r \in Readers, TestWrite(r) \/ TestReady(r)
    PROVE  Same
  <1>1. UNCHANGED << next, object, readPointer, writePointer, returned, freed >>
    BY DEF TestWrite, TestReady, NothingToRead, ring, reader, writer, ends
  <1>2. CASE NothingToRead(r)
    BY <1>1, <1>2, PushedWasHeld, SamePending DEF NothingToRead
  <1>3. CASE UNCHANGED << packet, packetPool >>
    <2>1. Pooled' = Pooled /\ InHand' = InHand
      BY <1>3 DEF Pooled, InHand
    <2> QED
      BY <1>1, <2>1, SamePending
  <1> QED
    BY <1>2, <1>3 DEF TestWrite, TestReady, ends

\* Clear clears an empty queue.
LEMMA SameOnClear ==
    ASSUME IInv, Next, Clear
    PROVE  Same
  <1>1. ~Misused /\ ~Cleared /\ reading["daemon"] = "clear"
    BY DEF Next, Clear, Cleared
  <1>2. PICK g \in [0..Last -> Nodes], p \in 0..Last :
          Ring(g) /\ WriterAt(g, p) /\ Holds(g, p) /\ p = 0
    BY <1>1 DEF IInv, QueueInv, Going
  <1>3. InRing = {}
    <2>1. Published \in Int
      BY DEF IInv, TypeOK, Published
    <2>2. (Published - p + 1)..Published = {}
      BY <1>2, <2>1
    <2> QED
      BY <1>2, <2>2, InRingIs
  <1>4. InRing' = {}
    <2>1. Len(next') \in Nat
      BY RingTypesStep, LenProperties DEF RingTypes
    <2>2. writePointer' = readPointer'
      BY DEF Clear
    <2> QED
      BY <2>1, <2>2, InRingNoneNext
  <1>5. UNCHANGED << packet, packetPool, returned, freed >>
    BY DEF Clear, ends
  <1>6. Pooled' = Pooled /\ InHand' = InHand /\ Returned' = Returned
    BY <1>5 DEF Pooled, InHand, Returned
  <1> QED
    BY <1>3, <1>4, <1>5, <1>6 DEF Same, Pending

\* No other step makes two threads read at once.
LEMMA StillOneReader ==
    ASSUME IInv, Next, ~Clear, \A r \in Readers : ~TestWrite(r) /\ ~TestReady(r)
    PROVE  ~Misused'
  <1>1. ~Misused /\ reading \in [Readers -> ReaderStates]
    BY DEF Next, IInv, Arrays
  <1>2. CASE NetworkStep
    BY <1>1, <1>2
    DEF NetworkStep, Add, TestNext, Insert, Store, Ready, Publish, ThreadEnds, locals, Misused
  <1>3. ASSUME NEW r \in Readers, Read(r)
        PROVE  ~Misused'
    <2>1. /\ reading[r] \in InLock
          /\ \E x \in InLock \cup { "lock" } : reading' = [reading EXCEPT ![r] = x]
      BY <1>3 DEF Read, Take, Fetch, Unready, Release, InLock
    <2>2. \A q \in Readers : q # r => reading[q] \notin InLock
      BY <1>1, <2>1, OtherOutside
    <2>3. reading["daemon"] # "clear"
      BY <1>1, <2>1 DEF Misused, Readers, InLock
    <2>4. reading["main"] = "pop" => reading'["main"] = "pop" /\ r = "daemon"
      BY <1>1, <2>1 DEF InLock, Readers
    <2> QED
      BY <1>1, <2>1, <2>2, <2>3, <2>4 DEF Misused, Readers, InLock
  <1>4. CASE Receive \/ Pop \/ LeaveLoop
    <2>1. \E x \in { "loop", "lock", "left" } : reading' = [reading EXCEPT !["main"] = x]
      BY <1>4 DEF Receive, Pop, LeaveLoop
    <2> QED
      BY <1>1, <2>1 DEF Misused, Readers, InLock
  <1>5. CASE Accept \/ Disconnect \/ WaitForThread \/ FreePool
    <2>1. \E x \in { "disconnect", "wait", "lock", "returned" } :
             reading' = [reading EXCEPT !["daemon"] = x]
      BY <1>5 DEF Accept, Disconnect, WaitForThread, FreePool
    <2> QED
      BY <1>1, <2>1 DEF Misused, Readers, InLock
  <1> QED
    BY <1>2, <1>3, <1>4, <1>5 DEF Next, MainStep, DaemonStep, Readers

\* Only Publish puts a packet where a reader finds it.
LEMMA PublishedStep ==
    ASSUME IInv, Next
    PROVE  /\ Publish => Published' = Published + 1
           /\ ~Publish => Published' = Published
  <1>1. packets \in Int
    BY DEF IInv, TypeOK
  <1>2. CASE NetworkStep
    BY <1>1, <1>2 DEF NetworkStep, Add, TestNext, Insert, Store, Ready, Publish, ThreadEnds,
                      writer, Published
  <1>3. ASSUME UNCHANGED << writing, packets >>, ~NetworkStep
        PROVE  Published' = Published /\ ~Publish
    BY <1>3 DEF Published, NetworkStep
  <1>4. ASSUME NEW r \in Readers, Read(r)
        PROVE  UNCHANGED << writing, packets >>
    BY <1>4 DEF Read, TestWrite, TestReady, Take, Fetch, Unready, Release, NothingToRead, writer
  <1>5. CASE Receive \/ Pop \/ LeaveLoop \/ Accept \/ Disconnect \/ WaitForThread \/ Clear \/ FreePool
    <2>1. UNCHANGED << writing, packets >>
      BY <1>5 DEF Receive, Pop, LeaveLoop, Accept, Disconnect, WaitForThread, Clear, FreePool, writer
    <2> QED
      BY <1>2, <1>3, <2>1
  <1> QED
    BY <1>2, <1>3, <1>4, <1>5 DEF Next, MainStep, DaemonStep, Readers

\* Each step puts in the newest packet, hands out the oldest, frees some, or changes nothing.
LEMMA FifoStep ==
    ASSUME IInv, IInv', Next
    PROVE  [Fifo!FifoNext]_(Fifo!fifoVars)
  <1>1. ~Misused
    BY DEF Next
  <1>2. ASSUME Same
        PROVE  [Fifo!FifoNext]_(Fifo!fifoVars)
    BY <1>2 DEF Same, Pending, Fifo!fifoVars
  <1>3. CASE Clear \/ \E r \in Readers : TestWrite(r) \/ TestReady(r)
    BY <1>1, <1>2, <1>3, SameOnTests, SameOnClear
  <1>4. CASE ~Clear /\ \A r \in Readers : ~TestWrite(r) /\ ~TestReady(r)
    <2> DEFINE out == Returned \cup freed
    <2>1. /\ Published \in Nat /\ Returned \subseteq 1..Published /\ freed \subseteq 1..Published
          /\ Pending = (1..Published) \ (Returned \cup freed)
      BY <1>1, PendingIs
    <2>2. Pending' = (1..Published') \ (Returned' \cup freed')
      BY <1>4, StillOneReader, PendingIsNext
    <2>3. /\ Publish => Published' = Published + 1
          /\ ~Publish => Published' = Published
      BY PublishedStep
    <2>4. CASE Publish
      <3>1. returned' = returned /\ freed' = freed
        BY <2>4 DEF Publish, ends
      <3>2. PICK n : n = Published + 1
        OBVIOUS
      <3>3. Pending' = Pending \cup { n } /\ n \in Pending' \ Pending
        BY <2>1, <2>2, <2>3, <2>4, <3>1, <3>2 DEF Returned
      <3>4. \A q \in Pending \cup Returned \cup freed : q < n
        BY <2>1, <3>2
      <3> QED
        BY <3>1, <3>3, <3>4 DEF Pending, Returned, Fifo!FifoNext, Fifo!Put, Fifo!Returned
    <2>5. CASE Pop /\ packetPool # << >>
      <3>1. /\ ~Publish /\ freed' = freed
            /\ returned' = Append(returned, Head(packetPool))
        BY <1>1, <2>5 DEF Pop, Publish, writer, IInv, TypeOK
      <3>2. Head(packetPool) \in Pending /\ \A q \in Pending : Head(packetPool) <= q
        BY <1>1, <2>5, PoolWaits
      <3>3. Returned' = Returned \cup { Head(packetPool) }
        <4>1. Head(packetPool) \in 1..MaxPackets /\ returned \in Seq(1..MaxPackets)
          BY <2>5, HeadTailProperties DEF IInv, TypeOK
        <4>2. /\ Len(returned) \in Nat /\ Len(returned') = Len(returned) + 1
              /\ \A i \in 1..Len(returned) : returned'[i] = returned[i]
              /\ returned'[Len(returned) + 1] = Head(packetPool)
          BY <3>1, <4>1, AppendProperties, LenProperties
        <4>3. /\ \A i \in 1..Len(returned') : i \in 1..Len(returned) \/ i = Len(returned) + 1
              /\ \A i \in 1..Len(returned) : i \in 1..Len(returned')
              /\ Len(returned) + 1 \in 1..Len(returned')
          BY <4>2
        <4> QED
          BY <4>2, <4>3 DEF Returned
      <3>4. Pending' = Pending \ { Head(packetPool) }
        BY <2>1, <2>2, <2>3, <3>1, <3>3
      <3> QED
        BY <3>1, <3>2, <3>4 DEF Pending, Fifo!FifoNext, Fifo!Return
    <2>6. ASSUME ~Publish, returned' = returned, freed \subseteq freed', freed' \ freed \subseteq Pending
          PROVE  [Fifo!FifoNext]_(Fifo!fifoVars)
      <3>1. Pending' = Pending \ freed'
        BY <2>1, <2>2, <2>3, <2>6 DEF Returned
      <3> QED
        BY <2>6, <3>1 DEF Pending, Fifo!FifoNext, Fifo!Free
    <2>7. CASE Fetch("daemon")
      <3>1. /\ reading["daemon"] = "fetch" /\ returned' = returned
            /\ freed' = freed \cup { object[last["daemon"]] }
        BY <2>7 DEF Fetch
      <3>2. Locked /\ Taken /\ "daemon" \in Readers
        BY <3>1 DEF Locked, Taken, InLock, Readers
      <3>3. PICK g \in [0..Last -> Nodes], p \in 0..Last :
              Ring(g) /\ WriterAt(g, p) /\ Holds(g, p) /\ ReaderAt(g, p) /\ Line(Gone(p))
        BY <1>1, <3>2 DEF IInv, QueueInv, Emptied, Going
      <3>4. ~Fetched
        <4>1. reading["main"] \notin InLock
          BY <1>1, <3>1 DEF Misused, InLock
        <4> QED
          BY <3>1, <4>1 DEF Fetched, Readers, InLock
      <3>5. p \in Nat /\ p > 0 /\ last["daemon"] = g[0]
        BY <3>1, <3>2, <3>3, Shape DEF ReaderAt, IInv, QueueInv
      <3>6. object[g[0]] = Published - p + 1 + 0 /\ p <= Published /\ Gone(p) = Published - p
        BY <2>1, <3>3, <3>4, <3>5 DEF Holds, Gone
      <3>7. object[last["daemon"]] = Gone(p) + 1 /\ Gone(p) \in Nat /\ Gone(p) + 1 \in 1..Published
        BY <2>1, <3>5, <3>6
      <3>8. \A q \in Returned \cup freed : q <= Gone(p)
        BY <3>3 DEF Line, Returned
      <3>9. object[last["daemon"]] \in Pending
        BY <2>1, <3>7, <3>8
      <3>10. ~Publish
        BY <2>7 DEF Fetch, Publish, writer, IInv, TypeOK
      <3> QED
        BY <2>6, <3>1, <3>9, <3>10
    <2>8. CASE FreePool
      <3>1. freed' = freed \cup Pooled /\ returned' = returned /\ ~Publish
        BY <2>8 DEF FreePool, Pooled, Publish, writer, IInv, TypeOK
      <3> QED
        BY <1>1, <2>6, <3>1, PoolWaits
    <2>9. CASE ~Publish /\ UNCHANGED << returned, freed >>
      <3>1. returned' = returned /\ freed' = freed
        BY <2>9
      <3>2. Pending' = Pending
        BY <2>1, <2>2, <2>3, <2>9, <3>1 DEF Returned
      <3> QED
        BY <1>2, <3>1, <3>2 DEF Same
    <2>10. ASSUME ~Publish, ~(Pop /\ packetPool # << >>), ~Fetch("daemon"), ~FreePool
           PROVE  UNCHANGED << returned, freed >>
      <3>1. CASE NetworkStep
        BY <2>10, <3>1 DEF NetworkStep, Add, TestNext, Insert, Store, Ready, ThreadEnds, ends
      <3>2. ASSUME NEW r \in Readers, Read(r)
            PROVE  UNCHANGED << returned, freed >>
        BY <2>10, <3>2 DEF Read, TestWrite, TestReady, Take, Fetch, Unready, Release, NothingToRead,
                           ends, Readers
      <3>3. CASE Receive \/ Pop \/ LeaveLoop \/ Accept \/ Disconnect \/ WaitForThread \/ Clear
        BY <2>10, <3>3 DEF Receive, Pop, LeaveLoop, Accept, Disconnect, WaitForThread, Clear, ends
      <3> QED
        BY <2>10, <3>1, <3>2, <3>3 DEF Next, MainStep, DaemonStep, Readers
    <2> QED
      BY <2>4, <2>5, <2>7, <2>8, <2>9, <2>10
  <1> QED
    BY <1>3, <1>4

\* The initial states map to the initial state, a stutter to a stutter.
LEMMA FifoStutter == ASSUME UNCHANGED vars PROVE [Fifo!FifoNext]_(Fifo!fifoVars)
  <1>1. UNCHANGED << next, object, readPointer, writePointer, returned, freed, packetPool, packet >>
    BY DEF vars, ring, reader, writer, locals, ends
  <1>2. Pooled' = Pooled /\ InHand' = InHand
    BY <1>1 DEF Pooled, InHand
  <1>3. Same
    BY <1>1, <1>2, SamePending
  <1> QED
    BY <1>3 DEF Same, Pending, Fifo!fifoVars

LEMMA FifoStart == ASSUME Init PROVE Fifo!FifoInit
  <1>1. IInv
    BY IInvInit
  <1>2. ~Misused /\ Published = 0
    BY DEF Init, Misused, Published, InLock, Readers
  <1>3. Pending = {} /\ returned = << >> /\ freed = {}
    <2>1. /\ Returned \subseteq 1..Published /\ freed \subseteq 1..Published
          /\ Pending = (1..Published) \ (Returned \cup freed)
      BY <1>1, <1>2, PendingIs
    <2>2. 1..0 = {}
      OBVIOUS
    <2>3. returned = << >>
      BY DEF Init
    <2> QED
      BY <1>2, <2>1, <2>2, <2>3
  <1> QED
    BY <1>3 DEF Pending, Fifo!FifoInit

\* The ring, the pool and the three threads implement PacketFifo: what the network thread
\* adds comes out of Receive in order or is freed by Disconnect, and no packet is lost or
\* does both, whatever the steps of the threads interleave, up to a misuse.
THEOREM ImplementsFifoHolds == Spec => ImplementsFifo
<1>1. Init => Fifo!FifoInit
  BY FifoStart
<1>2. IInv /\ IInv' /\ [Next]_vars => [Fifo!FifoNext]_(Fifo!fifoVars)
  BY FifoStep, FifoStutter
<1> QED
  BY <1>1, <1>2, QueueInvariant, PTL DEF Spec, ImplementsFifo, Fifo!FifoSpec

=============================================================================
