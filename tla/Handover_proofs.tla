---------------------------- MODULE Handover_proofs ----------------------------
(***************************************************************************)
(* What a handover of one end of the connection preserves, for every       *)
(* number range, traffic, schedule and number of handovers.                *)
(*                                                                         *)
(* The receiving half forgets at a handover which messages it had beyond   *)
(* its base index, so the invariant of ReliabilityLayer_proofs, that the   *)
(* window tells exactly what was accepted, is lost.  What is left is said  *)
(* of the process that has the connection now: the window knows what this  *)
(* process has handed up or holds.                                         *)
(***************************************************************************)
EXTENDS Handover, ReliabilityLayer_proofs

\* The last time the receiving half got a new process.
Since == IF mover = "receiver" /\ handovers # << >>
         THEN handovers[Len(handovers)] ELSE [output |-> 0, base |-> 0]

\* A window q over the base b knows message j: it turns it away.
KnownIn(b, q, j) ==
    j < b \/ (j - b + 1 \in 1..Len(q) /\ q[j - b + 1] = "got")

Known(j) == KnownIn(receivedPacketsBaseIndex, hasReceivedPacketQueue, j)

HandoversOK ==
    /\ mover \in { "sender", "receiver" }
    /\ handovers \in Seq([output : Nat, base : Nat])
    /\ \A h \in 1..Len(handovers) : handovers[h].output <= Len(outputQueue)

\* What the window has after a handover: no more than it.
WindowOK ==
    /\ WindowFits
    /\ Len(hasReceivedPacketQueue) > 0 => hasReceivedPacketQueue[1] # "got"

\* What this process has handed up or holds it knows, and has in one place only.
HandedUpOnce ==
    /\ Since.base <= receivedPacketsBaseIndex
    /\ \A n \in 1..Len(outputQueue) : \A j \in Nat :
          n > Since.output /\ j = outputQueue[n] => Known(j) /\ j >= Since.base
    /\ \A m, n \in 1..Len(outputQueue) :
          m > Since.output /\ n > Since.output /\ outputQueue[m] = outputQueue[n] => m = n
    /\ \A c \in Channels : \A j \in orderingList[c] :
          /\ Known(j) /\ j >= Since.base
          /\ \A n \in 1..Len(outputQueue) : n > Since.output => outputQueue[n] # j

-----------------------------------------------------------------------------
(* The window.                                                             *)

LEMMA NewIsUnknown ==
    ASSUME TypeOK, InUseIsRecent, WindowOK, RateIsSafe, NEW i \in wire, ~IsDuplicate(i)
    PROVE  i >= receivedPacketsBaseIndex /\ ~Known(i)
<1> DEFINE b == receivedPacketsBaseIndex
           q == hasReceivedPacketQueue
<1>1. WindowFits
  BY DEF WindowOK
<1>2. /\ i \in Nat /\ b \in Nat /\ Len(q) \in Nat /\ i >= b /\ HoleCount(i) = i - b
  <2>1. Len(q) \in Nat
    BY DEF TypeOK
  <2> QED
    BY <1>1, <2>1, HoleCountValue DEF IsDuplicate
<1>3. ASSUME i - b + 1 \in 1..Len(q), q[i - b + 1] = "got" PROVE FALSE
  <2>1. i - b # 0
    BY <1>2, <1>3 DEF WindowOK
  <2>2. i - b < Len(q)
    BY <1>2, <1>3
  <2> QED
    BY <1>2, <1>3, <2>1, <2>2 DEF IsDuplicate, AlreadyGot
<1> QED
  BY <1>2, <1>3 DEF Known, KnownIn

\* Entering a message makes it known and forgets none.
LEMMA AcceptKnows ==
    ASSUME TypeOK, InUseIsRecent, WindowOK, RateIsSafe,
           NEW i \in wire, ~IsDuplicate(i), Accept(i), UNCHANGED sent
    PROVE  /\ WindowOK' /\ Known(i)'
           /\ \A j \in Nat : Known(j) => Known(j)'
           /\ receivedPacketsBaseIndex' >= receivedPacketsBaseIndex
<1> DEFINE b == receivedPacketsBaseIndex
           q == hasReceivedPacketQueue
           h == HoleCount(i)
           w == Entered(i)
           c == b + (IF h = 0 THEN 1 ELSE 0)
           S == { "got", "hole", "expired" }
<1>1. /\ i \in Nat /\ b \in Nat /\ h \in Nat /\ h = i - b /\ i >= b
  <2>1. WindowFits
    BY DEF WindowOK
  <2> QED
    BY <2>1, HoleCountValue DEF IsDuplicate
<1>2. /\ q \in Seq(S) /\ Len(q) \in Nat
      /\ messageNumber \in Nat /\ i < messageNumber
      /\ b + Len(q) <= messageNumber
  <2>1. i \in Ids /\ messageNumber \in Nat
    BY DEF TypeOK, messageNumber
  <2> QED
    BY <2>1 DEF TypeOK, Ids, WindowOK, WindowFits
<1>3. c \in Nat /\ c >= b
  BY <1>1
<1> HIDE DEF b, h
\* the window and its base once message i is entered
<1>4. /\ w \in Seq(S) /\ Len(w) \in Nat
      /\ c + Len(w) <= messageNumber
      /\ KnownIn(c, w, i)
      /\ \A j \in Nat : KnownIn(b, q, j) => KnownIn(c, w, j)
  <2>1. CASE h = 0 /\ q = << >>
    <3>1. w = << >> /\ Len(w) = 0 /\ Len(q) = 0 /\ w \in Seq(S)
      BY <2>1 DEF Entered, h
    <3>2. i = b /\ c = b + 1
      BY <1>1, <2>1
    <3>3. \A j \in Nat : KnownIn(b, q, j) => j < b
      BY <3>1 DEF KnownIn
    <3> QED
      BY <1>1, <1>2, <3>1, <3>2, <3>3 DEF KnownIn
  <2>2. CASE h = 0 /\ q # << >>
    <3>1. i = b /\ c = b + 1
      BY <1>1, <2>2
    <3>2. /\ w = Tail(q) /\ w \in Seq(S) /\ Len(w) = Len(q) - 1
          /\ \A k \in 1..Len(w) : w[k] = q[k + 1]
      BY <1>2, <2>2 DEF Entered, h
    <3>3. c + Len(w) = b + Len(q) /\ Len(w) \in Nat
      BY <1>1, <1>2, <2>2, <3>1, <3>2
    <3>4. ASSUME NEW j \in Nat, KnownIn(b, q, j) PROVE KnownIn(c, w, j)
      <4>1. CASE j < c
        BY <4>1 DEF KnownIn
      <4>2. CASE j >= c
        <5>1. j - b + 1 \in 1..Len(q) /\ q[j - b + 1] = "got"
          BY <1>1, <3>1, <3>4, <4>2 DEF KnownIn
        <5>2. j - c + 1 \in 1..Len(w) /\ j - b + 1 = (j - c + 1) + 1
          BY <1>1, <1>2, <3>1, <3>2, <4>2, <5>1
        <5> QED
          BY <3>2, <5>1, <5>2 DEF KnownIn
      <4> QED
        BY <1>3, <4>1, <4>2
    <3> QED
      BY <1>1, <1>2, <3>1, <3>2, <3>3, <3>4 DEF KnownIn
  <2>3. CASE h # 0 /\ h < Len(q)
    <3>1. c = b /\ i = b + h /\ h + 1 \in 1..Len(q) /\ i - c + 1 = h + 1
      BY <1>1, <1>2, <2>3
    <3>2. w = [q EXCEPT ![h + 1] = "got"]
      BY <2>3 DEF Entered, h
    <3>3. /\ w \in Seq(S) /\ Len(w) = Len(q)
          /\ w[h + 1] = "got"
          /\ \A k \in 1..Len(q) : q[k] = "got" => w[k] = "got"
      BY <1>2, <3>1, <3>2
    <3> QED
      BY <1>1, <1>2, <3>1, <3>3 DEF KnownIn
  <2>4. CASE h # 0 /\ h >= Len(q)
    <3>1. c = b /\ i = b + h /\ i - c + 1 = h + 1
      BY <1>1, <2>4
    <3> DEFINE f == [n \in 1..(h + 1) |-> IF n <= Len(q) THEN q[n]
                                         ELSE IF n <= h THEN "hole" ELSE "got"]
    <3>2. w = f
      BY <1>1, <1>2, <2>4 DEF Entered, h
    <3>3. f \in [1..(h + 1) -> S]
      <4>1. \A n \in 1..(h + 1) : n <= Len(q) => q[n] \in S
        BY <1>1, <1>2
      <4> QED
        BY <4>1
    <3>4. w \in Seq(S) /\ Len(w) = h + 1
      <4> HIDE DEF f
      <4> QED
        BY <1>1, <3>2, <3>3
    <3>5. /\ \A k \in 1..Len(q) : k \in 1..(h + 1) /\ w[k] = q[k]
          /\ w[h + 1] = "got"
      <4>1. \A n \in 1..(h + 1) : w[n] = IF n <= Len(q) THEN q[n]
                                         ELSE IF n <= h THEN "hole" ELSE "got"
        BY <3>2
      <4>2. \A k \in 1..Len(q) : k \in 1..(h + 1) /\ k <= Len(q)
        BY <1>1, <1>2, <2>4
      <4>3. h + 1 \in 1..(h + 1) /\ ~(h + 1 <= Len(q)) /\ ~(h + 1 <= h)
        BY <1>1, <1>2, <2>4
      <4> QED
        BY <4>1, <4>2, <4>3
    <3>6. KnownIn(c, w, i)
      BY <1>1, <3>1, <3>4, <3>5 DEF KnownIn
    <3>7. ASSUME NEW j \in Nat, KnownIn(b, q, j) PROVE KnownIn(c, w, j)
      BY <3>1, <3>4, <3>5, <3>7 DEF KnownIn
    <3>8. c + Len(w) <= messageNumber
      BY <1>1, <1>2, <3>1, <3>4
    <3> QED
      BY <1>1, <3>4, <3>6, <3>7, <3>8
  <2> QED
    BY <1>1, <1>2, <2>1, <2>2, <2>3, <2>4
\* the closed entries at its head are popped
<1>5. PICK n \in 0..Len(w) :
            /\ Closed(w, n)
            /\ receivedPacketsBaseIndex' = c + n
            /\ hasReceivedPacketQueue' = Without(w, n)
  BY DEF Accept, b, h
<1> HIDE DEF w, c, S
<1>6. n \in Nat /\ n <= Len(w)
  BY <1>4, <1>5
<1>7. /\ Len(hasReceivedPacketQueue') = Len(w) - n
      /\ \A k \in 1..(Len(w) - n) : hasReceivedPacketQueue'[k] = w[n + k]
  <2>1. w \in Seq(S) /\ n \in 0..Len(w)
    BY <1>4, <1>5
  <2>2. hasReceivedPacketQueue' = Without(w, n)
    BY <1>5
  <2> QED
    BY <2>1, <2>2, WithoutType
<1>8. ASSUME NEW j \in Nat, KnownIn(c, w, j) PROVE Known(j)'
  <2>1. Known(j)' = KnownIn(receivedPacketsBaseIndex', hasReceivedPacketQueue', j)
    BY DEF Known, KnownIn
  <2>2. CASE j < c + n
    BY <1>5, <2>1, <2>2 DEF KnownIn
  <2>3. CASE j >= c + n
    <3>1. j - c + 1 \in 1..Len(w) /\ w[j - c + 1] = "got"
      BY <1>3, <1>6, <1>8, <2>3 DEF KnownIn
    <3>2. /\ j - (c + n) + 1 \in 1..(Len(w) - n)
          /\ n + (j - (c + n) + 1) = j - c + 1
      BY <1>3, <1>4, <1>6, <2>3, <3>1
    <3>3. hasReceivedPacketQueue'[j - (c + n) + 1] = "got"
      BY <1>7, <3>1, <3>2
    <3> QED
      BY <1>5, <1>7, <2>1, <3>2, <3>3 DEF KnownIn
  <2> QED
    BY <1>3, <1>6, <2>2, <2>3
<1>9. WindowOK'
  <2>1. messageNumber' = messageNumber
    BY DEF messageNumber
  <2>2. receivedPacketsBaseIndex' + Len(hasReceivedPacketQueue') = c + Len(w)
    BY <1>3, <1>4, <1>5, <1>6, <1>7
  <2>3. Len(hasReceivedPacketQueue') > 0 => hasReceivedPacketQueue'[1] # "got"
    <3> SUFFICES ASSUME Len(hasReceivedPacketQueue') > 0
                 PROVE  hasReceivedPacketQueue'[1] # "got"
      OBVIOUS
    <3>1. n < Len(w) /\ 1 \in 1..(Len(w) - n)
      BY <1>4, <1>6, <1>7
    <3>2. w[n + 1] = "hole"
      BY <1>5, <3>1 DEF Closed
    <3> QED
      BY <1>7, <3>1, <3>2
  <2> QED
    BY <1>4, <2>1, <2>2, <2>3 DEF WindowOK, WindowFits
<1>10. receivedPacketsBaseIndex' >= b
  BY <1>1, <1>3, <1>5, <1>6
<1> QED
  BY <1>1, <1>4, <1>8, <1>9, <1>10 DEF Known, b


LEMMA HolesRunOutKnows ==
    ASSUME TypeOK, WindowOK, NEW n \in 1..Len(hasReceivedPacketQueue), HolesRunOut(n)
    PROVE  WindowOK' /\ \A j : Known(j)' = Known(j)
<1> DEFINE q == hasReceivedPacketQueue
           r == [m \in 1..Len(q) |-> IF m <= n /\ q[m] = "hole" THEN "expired" ELSE q[m]]
<1>1. q' = r /\ UNCHANGED << sent, receivedPacketsBaseIndex >>
  BY DEF HolesRunOut, sender
<1>2. Len(q) \in Nat
  BY DEF TypeOK
<1>3. /\ Len(r) = Len(q)
      /\ \A k \in 1..Len(q) : r[k] = "got" <=> q[k] = "got"
  <2>1. \A k \in 1..Len(q) : r[k] = "got" <=> q[k] = "got"
    OBVIOUS
  <2>2. DOMAIN r = 1..Len(q) /\ Len(r) = Len(q)
    BY <1>2
  <2> QED
    BY <2>1, <2>2
<1>4. messageNumber' = messageNumber
  BY <1>1 DEF messageNumber
<1> HIDE DEF r
<1>5. WindowOK'
  <2>1. Len(q) > 0 => q[1] # "got" /\ 1 \in 1..Len(q)
    BY <1>2 DEF WindowOK
  <2> QED
    BY <1>1, <1>2, <1>3, <1>4, <2>1 DEF WindowOK, WindowFits
<1>6. \A j : Known(j)' = Known(j)
  BY <1>1, <1>3 DEF Known, KnownIn
<1> QED
  BY <1>5, <1>6

-----------------------------------------------------------------------------
(* The bound on the rate.                                                  *)

\* No action but Send puts a message in use that was not.
LEMMA InUseShrinks ==
    ASSUME TypeOK, [Next]_vars, ~\E k \in Traffic : Send(k)
    PROVE  InUse' \subseteq InUse /\ UNCHANGED sent
<1>1. UNCHANGED sendPacketSet => QueuedIds' = QueuedIds
  BY DEF QueuedIds
<1>2. CASE Resend
  <2>1. PICK n \in 0..(Len(resendQueue) - 1) :
          /\ HolesAtHead(n)
          /\ wire' = wire \cup { resendQueue[n + 1] }
    BY <1>2 DEF Resend
  <2>2. n < Len(resendQueue)
    BY DEF TypeOK
  <2>3. resendQueue[n + 1] \in resendList
    BY <2>1, <2>2 DEF HolesAtHead
  <2> QED
    BY <1>1, <1>2, <2>1, <2>3 DEF Resend, InUse, receiver
<1>3. CASE Transmit
  <2>1. PICK i \in QueuedIds :
          /\ QueuedIds' \subseteq QueuedIds
          /\ wire' = wire \cup { i }
          /\ resendList' = resendList \cup { i } \/ resendList' = resendList
    BY <1>3, TransmitMoves
  <2> QED
    BY <1>3, <2>1 DEF Transmit, InUse, receiver
<1>4. CASE \E a \in ackWire : ReceiveAck(a)
  BY <1>1, <1>4 DEF ReceiveAck, InUse, receiver
<1>5. CASE GiveUpConnection
  BY <1>1, <1>5 DEF GiveUpConnection, InUse, receiver
<1>6. CASE \E i \in wire : Deliver(i)
  BY <1>1, <1>6 DEF Deliver, InUse, sender
<1>7. CASE SendAcks
  BY <1>1, <1>7 DEF SendAcks, InUse, sender
<1>8. CASE \E n \in 1..Len(hasReceivedPacketQueue) : HolesRunOut(n)
  BY <1>1, <1>8 DEF HolesRunOut, InUse, sender
<1>9. CASE \E i \in wire : Lose(i)
  BY <1>1, <1>9 DEF Lose, InUse, sender, receiver
<1>10. CASE \E a \in ackWire : LoseAck(a)
  BY <1>1, <1>10 DEF LoseAck, InUse, sender, receiver
<1>11. CASE UNCHANGED vars
  BY <1>1, <1>11 DEF vars, InUse, sender, receiver
<1> QED
  BY <1>2, <1>3, <1>4, <1>5, <1>6, <1>7, <1>8, <1>9, <1>10, <1>11 DEF Next

LEMMA RecentStays ==
    ASSUME TypeOK, TypeOK', InUseIsRecent, InUse' \subseteq InUse, UNCHANGED sent,
           receivedPacketsBaseIndex' >= receivedPacketsBaseIndex
    PROVE  InUseIsRecent'
<1>1. messageNumber' = messageNumber /\ messageNumber \in Nat
  BY DEF messageNumber, TypeOK
<1>2. \A j \in InUse' : messageNumber' - j <= SendLimit
  BY <1>1 DEF InUseIsRecent
<1>3. /\ receivedPacketsBaseIndex \in Nat /\ receivedPacketsBaseIndex' \in Nat
      /\ messageNumber - receivedPacketsBaseIndex <= WindowLimit + 1
      /\ WindowLimit \in Nat
  BY ConstantFacts DEF TypeOK, InUseIsRecent
<1>4. messageNumber' - receivedPacketsBaseIndex' <= WindowLimit + 1
  <2> DEFINE mn == messageNumber
             b == receivedPacketsBaseIndex
             c == receivedPacketsBaseIndex'
  <2>1. mn \in Nat /\ b \in Nat /\ c \in Nat /\ mn - b <= WindowLimit + 1 /\ c >= b
    BY <1>1, <1>3
  <2> HIDE DEF mn, b, c
  <2>2. mn - c <= WindowLimit + 1
    BY <1>3, <2>1
  <2> QED
    BY <1>1, <2>2 DEF mn, c
<1> QED
  BY <1>2, <1>4 DEF InUseIsRecent

-----------------------------------------------------------------------------
(* Handing up once.                                                        *)

\* What the queue of output and the stored messages get from a message i: either
\* i is dropped or stored, or i is handed up with a run of stored ones behind it.
LEMMA PassUpMoves ==
    ASSUME TypeOK, TypeOK', StoredOnStream, NEW i \in Ids,
           PassUpSequenced(i) \/ PassUpOrdered(i) \/ PassUpOther(i)
    PROVE  \/ /\ outputQueue' = outputQueue
              /\ \A c \in Channels : orderingList'[c] \subseteq orderingList[c] \cup { i }
           \/ \E run \in Seq(Ids) :
              /\ Joins(outputQueue', outputQueue, i, run)
              /\ \A k \in 1..Len(run) : run[k] \in orderingList[Message(i).channel]
              /\ \A k, l \in 1..Len(run) : run[k] = run[l] => k = l
              /\ \A c \in Channels :
                    /\ orderingList'[c] \subseteq orderingList[c]
                    /\ \A k \in 1..Len(run) : run[k] \notin orderingList'[c]
<1> DEFINE d == Message(i).channel
           out == outputQueue
<1>1. /\ d \in Channels /\ out \in Seq(Ids) /\ Len(out) \in Nat
      /\ orderingList \in [Channels -> SUBSET Ids]
  <2>1. d \in Channels
    BY MessageType
  <2> HIDE DEF d
  <2> QED
    BY <2>1 DEF TypeOK
<1>2. CASE out' = out /\ \A c \in Channels : orderingList'[c] \subseteq orderingList[c] \cup { i }
  BY <1>2
<1>3. CASE out' = Append(out, i) /\ orderingList' = orderingList
  <2> DEFINE run == << >>
  <2>1. run \in Seq(Ids) /\ Len(run) = 0
    OBVIOUS
  <2>2. /\ Len(out') = Len(out) + 1 /\ out'[Len(out) + 1] = i
        /\ \A m \in 1..Len(out) : out'[m] = out[m]
    BY <1>1, <1>3
  <2>3. \A m \in 1..(Len(out) + 1) : m \in 1..Len(out) \/ m = Len(out) + 1
    BY <1>1
  <2>4. Joins(out', out, i, run)
    BY <1>1, <2>1, <2>2, <2>3 DEF Joins
  <2>5. \A c \in Channels : orderingList'[c] \subseteq orderingList[c]
    BY <1>3
  <2>6. \A k \in 1..Len(run) : FALSE
    BY <2>1
  <2> HIDE DEF run
  <2>7. /\ \A k \in 1..Len(run) : run[k] \in orderingList[d]
        /\ \A k, l \in 1..Len(run) : run[k] = run[l] => k = l
        /\ \A c \in Channels : \A k \in 1..Len(run) : run[k] \notin orderingList'[c]
    BY <2>6
  <2> HIDE DEF d
  <2>8. \E r \in Seq(Ids) :
          /\ Joins(out', out, i, r)
          /\ \A k \in 1..Len(r) : r[k] \in orderingList[d]
          /\ \A k, l \in 1..Len(r) : r[k] = r[l] => k = l
          /\ \A c \in Channels : /\ orderingList'[c] \subseteq orderingList[c]
                                 /\ \A k \in 1..Len(r) : r[k] \notin orderingList'[c]
    BY <2>1, <2>4, <2>5, <2>7
  <2> QED
    BY <2>8 DEF d
<1> HIDE DEF d
<1>4. CASE PassUpOrdered(i)
  <2> DEFINE waiting == waitingForOrderedPacketReadIndex[d]
  <2>1. CASE Message(i).index % NumberRange # waiting % NumberRange
    <3>1. /\ orderingList' = [orderingList EXCEPT ![d] = @ \cup { i }]
          /\ out' = out
      BY <1>4, <2>1 DEF PassUpOrdered, d
    <3>2. \A c \in Channels : orderingList'[c] \subseteq orderingList[c] \cup { i }
      BY <1>1, <3>1
    <3> QED
      BY <1>2, <3>1, <3>2
  <2>2. CASE Message(i).index % NumberRange = waiting % NumberRange
    <3>1. PICK n \in 0..(NumberRange - 1) : \E run \in [1..n -> orderingList[d]] :
            /\ IsRun(run, n, d, waiting)
            /\ outputQueue' = Append(outputQueue, i) \o run
            /\ orderingList' = [orderingList EXCEPT ![d] = @ \ { run[k] : k \in 1..n }]
      BY <1>4, <2>2 DEF PassUpOrdered, d
    <3>2. PICK run \in [1..n -> orderingList[d]] :
            /\ IsRun(run, n, d, waiting)
            /\ outputQueue' = Append(outputQueue, i) \o run
            /\ orderingList' = [orderingList EXCEPT ![d] = @ \ { run[k] : k \in 1..n }]
      BY <3>1
    <3>3. n \in Nat /\ Len(run) = n /\ run \in Seq(Ids)
      <4>1. n \in Nat
        BY ConstantFacts
      <4>2. orderingList[d] \subseteq Ids
        BY <1>1
      <4> QED
        BY <4>1, <4>2
    <3>4. \A k \in 1..n : run[k] \in orderingList[d]
      OBVIOUS
    <3>5. ASSUME NEW k \in 1..n, NEW l \in 1..n, run[k] = run[l] PROVE k = l
      <4>1. IsRun(run, n, d, waiting) /\ run \in [1..n -> orderingList[d]]
        BY <3>2
      <4>2. waiting \in Nat
        BY <1>1 DEF TypeOK
      <4> HIDE DEF waiting
      <4> QED
        BY <1>1, <3>5, <4>1, <4>2, RunIsDistinct
    <3>6. Joins(outputQueue', outputQueue, i, run)
      <4> DEFINE next == outputQueue'
      <4>1. next = Append(out, i) \o run
        BY <3>2
      <4> HIDE DEF out, next
      <4>2. Joins(next, out, i, run)
        BY <1>1, <3>3, <4>1, AppendRun
      <4> QED
        BY <4>2 DEF next, out
    <3>7. ASSUME NEW c \in Channels
          PROVE  /\ orderingList'[c] \subseteq orderingList[c]
                 /\ \A k \in 1..n : run[k] \notin orderingList'[c]
      <4>1. CASE c = d
        BY <1>1, <3>2, <4>1
      <4>2. CASE c # d
        <5>1. orderingList'[c] = orderingList[c]
          BY <1>1, <3>2, <4>2
        <5>2. \A j \in orderingList[c] : j \notin orderingList[d]
          BY <1>1, <4>2 DEF StoredOnStream, OnOrdered
        <5> QED
          BY <3>4, <5>1, <5>2
      <4> QED
        BY <4>1, <4>2
    <3> QED
      BY <3>3, <3>4, <3>5, <3>6, <3>7 DEF d
  <2> QED
    BY <2>1, <2>2
<1>5. CASE PassUpSequenced(i)
  BY <1>2, <1>3, <1>5 DEF PassUpSequenced
<1>6. CASE PassUpOther(i)
  BY <1>3, <1>6 DEF PassUpOther
<1> QED
  BY <1>4, <1>5, <1>6

\* The entries of q past s are distinct.
DistinctPast(s, q) ==
    \A m, n \in 1..Len(q) : m > s /\ n > s /\ q[m] = q[n] => m = n

\* Entries past s that are distinct, followed by others that are, stay distinct.
LEMMA JoinedDistinct ==
    ASSUME NEW s \in Nat, NEW out, NEW e, NEW run, NEW t, Joins(t, out, e, run),
           s <= Len(out),
           DistinctPast(s, out), DistinctPast(0, run),
           \A m \in 1..Len(out) : m > s => out[m] # e,
           \A m \in 1..Len(out) : m > s => \A k \in 1..Len(run) : out[m] # run[k],
           \A k \in 1..Len(run) : run[k] # e
    PROVE  DistinctPast(s, t)
<1> SUFFICES ASSUME NEW m \in 1..Len(t), NEW n \in 1..Len(t), m > s, n > s, t[m] = t[n]
             PROVE  m = n
  BY DEF DistinctPast
<1> DEFINE L == Len(out)
           N == Len(run)
<1>1. /\ L \in Nat /\ N \in Nat /\ Len(t) = L + 1 + N
      /\ \A j \in 1..L : t[j] = out[j]
      /\ t[L + 1] = e
      /\ \A k \in 1..N : t[L + 1 + k] = run[k]
      /\ \A j \in 1..Len(t) : j \in 1..L \/ j = L + 1 \/ \E k \in 1..N : j = L + 1 + k
  BY DEF Joins
<1>2. m \in 1..L \/ m = L + 1 \/ \E k \in 1..N : m = L + 1 + k
  BY <1>1
<1>3. n \in 1..L \/ n = L + 1 \/ \E k \in 1..N : n = L + 1 + k
  BY <1>1
<1> HIDE DEF L, N
<1>4. \A j \in 1..L : j > s => t[j] # e /\ \A k \in 1..N : t[j] # run[k]
  BY <1>1 DEF L, N
<1>5. ASSUME NEW x \in 1..L, NEW y \in 1..Len(t), x > s, y > s, t[x] = t[y]
      PROVE  x = y
  <2>1. CASE y \in 1..L
    BY <1>1, <1>5, <2>1 DEF L, DistinctPast
  <2>2. CASE y = L + 1
    BY <1>1, <1>4, <1>5, <2>2
  <2>3. ASSUME NEW k \in 1..N, y = L + 1 + k PROVE FALSE
    <3>1. t[L + 1 + k] = run[k]
      BY <1>1
    <3> QED
      BY <1>4, <1>5, <2>3, <3>1
  <2> QED
    BY <1>1, <2>1, <2>2, <2>3
<1>6. CASE m \in 1..L \/ n \in 1..L
  <2>1. n \in 1..L => n = m
    BY <1>1, <1>5
  <2> QED
    BY <1>5, <1>6, <2>1
<1>7. CASE m \notin 1..L /\ n \notin 1..L
  <2>1. \A k \in 1..N : run[k] # e
    BY DEF N
  <2>2. \A k, l \in 1..N : run[k] = run[l] => k = l
    <3> SUFFICES ASSUME NEW k \in 1..N, NEW l \in 1..N, run[k] = run[l] PROVE k = l
      OBVIOUS
    <3>1. k > 0 /\ l > 0
      BY <1>1
    <3> QED
      BY <3>1 DEF N, DistinctPast
  <2>0. \A k \in 1..N : t[L + 1 + k] # t[L + 1]
    BY <1>1, <2>1
  <2>3. CASE m = L + 1
    BY <1>3, <1>7, <2>0, <2>3
  <2>4. CASE n = L + 1
    BY <1>2, <1>7, <2>0, <2>4
  <2>5. ASSUME NEW k \in 1..N, NEW l \in 1..N, m = L + 1 + k, n = L + 1 + l
        PROVE  m = n
    <3>1. run[k] = run[l]
      BY <1>1, <2>5
    <3> QED
      BY <2>2, <2>5, <3>1
  <2> QED
    BY <1>2, <1>3, <1>7, <2>3, <2>4, <2>5
<1> QED
  BY <1>6, <1>7


LEMMA SeqElement ==
    ASSUME NEW S, NEW q \in Seq(S), NEW n \in 1..Len(q)
    PROVE  q[n] \in S
OBVIOUS

LEMMA SinceFacts ==
    ASSUME TypeOK, HandoversOK
    PROVE  /\ Since.output \in Nat /\ Since.base \in Nat
           /\ Since.output <= Len(outputQueue)
           /\ Since.output > 0 =>
                 /\ mover = "receiver" /\ Len(handovers) \in 1..Len(handovers)
                 /\ Since = handovers[Len(handovers)]
<1>1. Len(outputQueue) \in Nat
  BY DEF TypeOK
<1>2. CASE mover = "receiver" /\ handovers # << >>
  <2>1. handovers \in Seq([output : Nat, base : Nat]) /\ Len(handovers) \in 1..Len(handovers)
    BY <1>2 DEF HandoversOK
  <2>2. handovers[Len(handovers)].output <= Len(outputQueue)
    BY <2>1 DEF HandoversOK
  <2>3. Since = handovers[Len(handovers)]
    BY <1>2 DEF Since
  <2>4. handovers[Len(handovers)] \in [output : Nat, base : Nat]
    BY <2>1, SeqElement
  <2>5. Since.output \in Nat /\ Since.base \in Nat
    BY <2>3, <2>4
  <2> QED
    BY <1>2, <2>1, <2>2, <2>3, <2>5
<1>3. CASE ~(mover = "receiver" /\ handovers # << >>)
  <2>1. Since = [output |-> 0, base |-> 0]
    BY <1>3 DEF Since
  <2> QED
    BY <1>1, <2>1
<1> QED
  BY <1>2, <1>3

\* A message that this process does not know is handed up, or held, once.
LEMMA PassUpKeepsHandedUpOnce ==
    ASSUME TypeOK, TypeOK', StoredOnStream, HandoversOK, HandedUpOnce,
           NEW i \in Ids, ~Known(i), i >= receivedPacketsBaseIndex, Known(i)',
           \A j \in Nat : Known(j) => Known(j)',
           receivedPacketsBaseIndex' >= receivedPacketsBaseIndex,
           UNCHANGED << sent, mover, handovers >>,
           PassUpSequenced(i) \/ PassUpOrdered(i) \/ PassUpOther(i)
    PROVE  HandedUpOnce' /\ Extends(outputQueue', outputQueue)
<1> SUFFICES ASSUME NEW s, s = Since.output, NEW f, f = Since.base
             PROVE  HandedUpOnce' /\ Extends(outputQueue', outputQueue)
  OBVIOUS
<1>1. /\ s \in Nat /\ f \in Nat /\ s <= Len(outputQueue)
      /\ s = Since'.output /\ f = Since'.base
  BY SinceFacts DEF Since
<1>2. /\ outputQueue \in Seq(Ids) /\ Len(outputQueue) \in Nat /\ Ids \subseteq Nat
      /\ \A c \in Channels : orderingList[c] \subseteq Ids
      /\ receivedPacketsBaseIndex \in Nat /\ receivedPacketsBaseIndex' \in Nat
  BY DEF TypeOK, Ids
<1>3. /\ f <= receivedPacketsBaseIndex
      /\ \A n \in 1..Len(outputQueue) : \A j \in Nat :
            n > s /\ j = outputQueue[n] => Known(j) /\ j >= f
      /\ \A m, n \in 1..Len(outputQueue) :
            m > s /\ n > s /\ outputQueue[m] = outputQueue[n] => m = n
      /\ \A c \in Channels : \A j \in orderingList[c] :
            /\ Known(j) /\ j >= f
            /\ \A n \in 1..Len(outputQueue) : n > s => outputQueue[n] # j
  BY DEF HandedUpOnce
<1>4. f <= receivedPacketsBaseIndex' /\ i >= f
  <2>1. i \in Nat
    BY <1>2
  <2> QED
    BY <1>1, <1>2, <1>3, <2>1
\* what was known stays known, and differs from i
<1>5. \A n \in 1..Len(outputQueue) : \A j \in Nat :
         n > s /\ j = outputQueue[n] => Known(j)' /\ j # i
  BY <1>2, <1>3
<1>6. \A c \in Channels : \A j \in Nat : j \in orderingList[c] => Known(j)' /\ j # i /\ j >= f
  BY <1>2, <1>3
<1>7. CASE /\ outputQueue' = outputQueue
           /\ \A c \in Channels : orderingList'[c] \subseteq orderingList[c] \cup { i }
  <2>1. \A n \in 1..Len(outputQueue') : \A j \in Nat :
          n > s /\ j = outputQueue'[n] => Known(j)' /\ j >= f
    BY <1>3, <1>5, <1>7
  <2>2. ASSUME NEW c \in Channels, NEW j \in orderingList'[c]
        PROVE  /\ Known(j)' /\ j >= f
               /\ \A n \in 1..Len(outputQueue') : n > s => outputQueue'[n] # j
    <3>1. CASE j \in orderingList[c]
      <4>1. j \in Nat
        BY <1>2, <3>1
      <4>2. Known(j)' /\ j >= f
        BY <1>6, <3>1, <4>1
      <4>3. \A n \in 1..Len(outputQueue) : n > s => outputQueue[n] # j
        BY <1>3, <3>1
      <4> QED
        BY <1>7, <4>2, <4>3
    <3>2. CASE j = i
      <4>1. \A n \in 1..Len(outputQueue) : n > s => outputQueue[n] # i
        BY <1>2, <1>5
      <4>2. Known(j)'
        BY <3>2
      <4> QED
        BY <1>4, <1>7, <3>2, <4>1, <4>2
    <3> QED
      BY <1>7, <3>1, <3>2
  <2>3. HandedUpOnce'
    BY <1>1, <1>3, <1>4, <1>7, <2>1, <2>2 DEF HandedUpOnce
  <2>4. Extends(outputQueue', outputQueue)
    BY <1>2, <1>7 DEF Extends
  <2> QED
    BY <2>3, <2>4
<1>8. ASSUME NEW run \in Seq(Ids), Joins(outputQueue', outputQueue, i, run),
             \A k \in 1..Len(run) : run[k] \in orderingList[Message(i).channel],
             \A k, l \in 1..Len(run) : run[k] = run[l] => k = l,
             \A c \in Channels :
                /\ orderingList'[c] \subseteq orderingList[c]
                /\ \A k \in 1..Len(run) : run[k] \notin orderingList'[c]
      PROVE  HandedUpOnce' /\ Extends(outputQueue', outputQueue)
  <2>1. Message(i).channel \in Channels
    BY MessageType
  <2>2. \A k \in 1..Len(run) :
           /\ run[k] \in Nat /\ run[k] # i /\ run[k] >= f
           /\ \A n \in 1..Len(outputQueue) : n > s => outputQueue[n] # run[k]
    <3> SUFFICES ASSUME NEW k \in 1..Len(run), NEW j, j = run[k]
                 PROVE  /\ j \in Nat /\ j # i /\ j >= f
                        /\ \A n \in 1..Len(outputQueue) : n > s => outputQueue[n] # j
      OBVIOUS
    <3>1. j \in orderingList[Message(i).channel]
      BY <1>8
    <3>2. j \in Nat
      BY <1>2, <2>1, <3>1
    <3> QED
      BY <1>3, <1>6, <2>1, <3>1, <3>2
  <2>3. ASSUME NEW k \in 1..Len(run), NEW j, j = run[k] PROVE Known(j)'
    <3>1. j \in orderingList[Message(i).channel]
      BY <1>8, <2>3
    <3>2. j \in Nat
      BY <2>2, <2>3
    <3> QED
      BY <1>6, <2>1, <3>1, <3>2
  <2>4. Extends(outputQueue', outputQueue)
    BY <1>8, HandedUpTogether
  <2>5. ASSUME NEW n \in 1..Len(outputQueue'), n > s, NEW j, j = outputQueue'[n]
        PROVE  \/ n \in 1..Len(outputQueue) /\ j = outputQueue[n]
               \/ j = i
               \/ \E k \in 1..Len(run) : j = run[k]
    <3>1. CASE n > Len(outputQueue)
      BY <1>8, <2>5, <3>1, HandedUpTogether
    <3>2. CASE ~(n > Len(outputQueue))
      <4>1. n \in 1..Len(outputQueue)
        BY <1>2, <1>8, <3>2 DEF Joins
      <4> QED
        BY <2>4, <2>5, <4>1 DEF Extends
    <3> QED
      BY <3>1, <3>2
  <2>6. ASSUME NEW n \in 1..Len(outputQueue'), n > s, NEW j, j = outputQueue'[n]
        PROVE  Known(j)' /\ j >= f
    <3>1. CASE n \in 1..Len(outputQueue) /\ j = outputQueue[n]
      <4>1. j \in Nat /\ Known(j) /\ j >= f
        <5>1. outputQueue[n] \in Ids
          BY <1>2, <3>1, SeqElement
        <5>2. j \in Nat
          BY <1>2, <3>1, <5>1
        <5> QED
          BY <1>3, <2>6, <3>1, <5>2
      <4> QED
        BY <4>1
    <3>2. CASE j = i
      BY <1>4, <3>2
    <3>3. CASE \E k \in 1..Len(run) : j = run[k]
      BY <2>2, <2>3, <3>3
    <3> QED
      BY <2>5, <2>6, <3>1, <3>2, <3>3
  <2>7. ASSUME NEW m \in 1..Len(outputQueue'), NEW n \in 1..Len(outputQueue'),
               m > s, n > s, outputQueue'[m] = outputQueue'[n]
        PROVE  m = n
    <3> DEFINE out == outputQueue
               next == outputQueue'
    <3>1. Joins(next, out, i, run) /\ s \in Nat /\ s <= Len(out)
      BY <1>1, <1>8
    <3>2. DistinctPast(s, out)
      BY <1>3 DEF DistinctPast
    <3>3. /\ \A x \in 1..Len(out) : x > s => out[x] # i
          /\ \A x \in 1..Len(out) : x > s => \A k \in 1..Len(run) : out[x] # run[k]
      BY <1>2, <1>5, <2>2
    <3>4. DistinctPast(0, run) /\ \A k \in 1..Len(run) : run[k] # i
      BY <1>8, <2>2 DEF DistinctPast
    <3> HIDE DEF out, next
    <3>5. DistinctPast(s, next)
      BY <3>1, <3>2, <3>3, <3>4, JoinedDistinct
    <3> QED
      BY <2>7, <3>5 DEF DistinctPast, next
  <2>8. ASSUME NEW c \in Channels, NEW j \in orderingList'[c]
        PROVE  /\ Known(j)' /\ j >= f
               /\ \A n \in 1..Len(outputQueue') : n > s => outputQueue'[n] # j
    <3>1. j \in orderingList[c] /\ \A k \in 1..Len(run) : run[k] # j
      BY <1>8
    <3>3. j \in Nat /\ j # i /\ Known(j)' /\ j >= f
      BY <1>2, <1>6, <3>1
    <3>2. \A n \in 1..Len(outputQueue) : n > s => outputQueue[n] # j
      BY <1>3, <3>1
    <3> QED
      BY <2>5, <3>1, <3>2, <3>3
  <2>9. \A n \in 1..Len(outputQueue') : \A j \in Nat :
          n > s /\ j = outputQueue'[n] => Known(j)' /\ j >= f
    BY <2>6
  <2>10. HandedUpOnce'
    BY <1>1, <1>4, <2>7, <2>8, <2>9 DEF HandedUpOnce
  <2> QED
    BY <2>4, <2>10
<1> QED
  BY <1>7, <1>8, PassUpMoves

\* What this process hands up again another one had handed up before.
LEMMA RepeatsFollow ==
    ASSUME TypeOK, TypeOK', HandoversOK, HandedUpOnce', RepeatsAfterHandover,
           Extends(outputQueue', outputQueue), UNCHANGED << mover, handovers >>
    PROVE  HandoversOK' /\ RepeatsAfterHandover'
<1> SUFFICES ASSUME NEW s, s = Since.output, NEW f, f = Since.base
             PROVE  HandoversOK' /\ RepeatsAfterHandover'
  OBVIOUS
<1>1. /\ s \in Nat /\ f \in Nat /\ s <= Len(outputQueue)
      /\ s = Since'.output /\ f = Since'.base
      /\ s > 0 => /\ mover = "receiver" /\ Len(handovers) \in 1..Len(handovers)
                  /\ s = handovers[Len(handovers)].output
                  /\ f = handovers[Len(handovers)].base
  BY SinceFacts DEF Since
<1>2. /\ Len(outputQueue) \in Nat /\ Len(outputQueue') \in Nat
      /\ Len(outputQueue) <= Len(outputQueue')
      /\ \A m \in 1..Len(outputQueue) : outputQueue'[m] = outputQueue[m]
  BY DEF TypeOK, Extends
<1>3. HandoversOK'
  <2>1. \A h \in 1..Len(handovers) : handovers[h].output \in Nat
    <3> SUFFICES ASSUME NEW h \in 1..Len(handovers) PROVE handovers[h].output \in Nat
      OBVIOUS
    <3>1. handovers[h] \in [output : Nat, base : Nat]
      BY SeqElement DEF HandoversOK
    <3> QED
      BY <3>1
  <2>2. \A h \in 1..Len(handovers) : handovers[h].output <= Len(outputQueue')
    BY <1>2, <2>1 DEF HandoversOK
  <2> QED
    BY <2>2 DEF HandoversOK
<1>4. ASSUME NEW m \in 1..Len(outputQueue'), NEW n \in 1..Len(outputQueue'), m < n,
             outputQueue'[m] = outputQueue'[n]
      PROVE  /\ mover' = "receiver"
             /\ \E h \in 1..Len(handovers) :
                /\ m <= handovers[h].output /\ handovers[h].output < n
                /\ outputQueue'[n] >= handovers[h].base
  <2>1. CASE n > s
    <3>1. ~(m > s)
      BY <1>1, <1>4, <2>1 DEF HandedUpOnce
    <3>2. s > 0 /\ m <= s
      BY <1>1, <3>1
    <3>3. outputQueue'[n] >= f
      <4>1. outputQueue'[n] \in Nat
        <5>1. outputQueue' \in Seq(Ids')
          BY DEF TypeOK
        <5>2. outputQueue'[n] \in Ids'
          BY <5>1, SeqElement
        <5> QED
          BY <5>2 DEF Ids
      <4> QED
        BY <1>1, <2>1, <4>1 DEF HandedUpOnce
    <3> QED
      BY <1>1, <2>1, <3>2, <3>3
  <2>2. CASE ~(n > s)
    <3>1. m \in 1..Len(outputQueue) /\ n \in 1..Len(outputQueue)
      BY <1>1, <1>2, <1>4, <2>2
    <3> QED
      BY <1>2, <1>4, <3>1 DEF RepeatsAfterHandover
  <2> QED
    BY <2>1, <2>2
<1>5. RepeatsAfterHandover'
  BY <1>4 DEF RepeatsAfterHandover
<1> QED
  BY <1>3, <1>5

-----------------------------------------------------------------------------
(* The ordered streams.                                                    *)

\* Until the indexes of a channel come round every index tells its message, and
\* no run can pass the last index: no message has it yet.
LEMMA OrderedBeforeWrap ==
    ASSUME TypeOK, TypeOK', NEW c \in Channels, IndexesFollowSend, StoredOnStream,
           OrderedStream(c), waitingForOrderedPacketWriteIndex[c] < NumberRange,
           NEW i \in OnOrdered(c), PassUpOrdered(i),
           UNCHANGED << sent, waitingForOrderedPacketWriteIndex >>
    PROVE  OrderedStream(c)'
<1> DEFINE r == waitingForOrderedPacketReadIndex[c]
           w == waitingForOrderedPacketWriteIndex[c]
           R == NumberRange
<1>1. /\ \A j : Message(j)' = Message(j)
      /\ OnOrdered(c)' = OnOrdered(c)
  BY SentStays
<1>2. i \in Ids /\ Message(i).channel = c
  BY OnType
<1>3. /\ r \in Nat /\ w \in Nat /\ R \in Nat \ {0} /\ r <= w /\ w < R
      /\ waitingForOrderedPacketReadIndex \in [Channels -> Nat]
      /\ orderingList \in [Channels -> SUBSET Ids]
      /\ orderingList[c] \subseteq OnOrdered(c)
  BY ConstantFacts DEF TypeOK, StoredOnStream, OrderedStream
<1>4. \A j \in OnOrdered(c) :
         Message(j).index \in Nat /\ Message(j).index < w /\ Message(j).index < R
  BY <1>3, OnType DEF IndexesFollowSend
<1> HIDE DEF r, w, R
<1>5. \A j \in OnOrdered(c) : \A y \in Nat :
         y < R /\ Message(j).index % R = y % R => Message(j).index = y
  <2> SUFFICES ASSUME NEW j \in OnOrdered(c), NEW y \in Nat, y < R,
                      NEW x, x = Message(j).index, x % R = y % R
               PROVE  x = y
    OBVIOUS
  <2>1. x \in Nat /\ x < R
    BY <1>4
  <2>2. x - y < R /\ y - x < R /\ x \in Int /\ y \in Int
    BY <1>3, <2>1
  <2> QED
    BY <1>3, <2>2, NearAndAlike
<1>6. CASE Message(i).index % R # r % R
  <2>1. UNCHANGED << waitingForOrderedPacketReadIndex, outputQueue >>
    BY <1>2, <1>6 DEF PassUpOrdered, r, R
  <2> QED
    BY <1>1, <2>1 DEF OrderedStream, HandedUp, At
<1>7. CASE Message(i).index % R = r % R
  <2>1. PICK n \in 0..(R - 1) : \E run \in [1..n -> orderingList[c]] :
          /\ IsRun(run, n, c, r)
          /\ outputQueue' = Append(outputQueue, i) \o run
          /\ waitingForOrderedPacketReadIndex' =
                [waitingForOrderedPacketReadIndex EXCEPT ![c] = @ + n + 1]
    BY <1>2, <1>7 DEF PassUpOrdered, r, R
  <2>2. PICK run \in [1..n -> orderingList[c]] :
          /\ IsRun(run, n, c, r)
          /\ outputQueue' = Append(outputQueue, i) \o run
          /\ waitingForOrderedPacketReadIndex' =
                [waitingForOrderedPacketReadIndex EXCEPT ![c] = @ + n + 1]
    BY <2>1
  <2>3. n \in Nat /\ n <= R - 1 /\ Len(run) = n /\ run \in Seq(Ids)
    <3>1. n \in Nat /\ n <= R - 1
      BY <1>3
    <3>2. orderingList[c] \subseteq Ids
      BY <1>3
    <3> QED
      BY <3>1, <3>2
  <2>4. Message(i).index = r
    BY <1>3, <1>5, <1>7
  <2>5. \A k \in 1..n : /\ run[k] \in OnOrdered(c)
                        /\ Message(run[k]).index % R = (r + k) % R
    BY <1>3, <2>2 DEF IsRun, Buffered, R
  <2>6. r + n < R
    <3> SUFFICES ASSUME r + n >= R PROVE FALSE
      BY <1>3, <2>3
    <3>1. r < w
      BY <1>4, <2>4
    <3> DEFINE k == R - 1 - r
    <3>2. k \in 1..n /\ r + k = R - 1 /\ R - 1 \in Nat /\ R - 1 < R
      BY <1>3, <2>3, <3>1
    <3> HIDE DEF k
    <3>3. run[k] \in OnOrdered(c) /\ Message(run[k]).index % R = (R - 1) % R
      BY <2>5, <3>2
    <3>4. Message(run[k]).index = R - 1
      BY <1>5, <3>2, <3>3
    <3>5. Message(run[k]).index < w
      BY <1>4, <3>3
    <3> QED
      BY <1>3, <3>4, <3>5
  <2>7. ASSUME NEW k \in 1..n
        PROVE  run[k] \in OnOrdered(c) /\ Message(run[k]).index = r + k
    <3>1. r + k \in Nat /\ r + k < R
      BY <1>3, <2>3, <2>6
    <3> QED
      BY <1>5, <2>5, <3>1
  <2>8. waitingForOrderedPacketReadIndex'[c] = r + n + 1
    BY <1>3, <2>2 DEF r
  <2> QED
    BY <2>2, <2>3, <2>4, <2>7, <2>8, OrderedHandedUp DEF r
<1> QED
  BY <1>6, <1>7

-----------------------------------------------------------------------------
(* The invariant of a direction with handovers.                            *)

OrderedUntil ==
    \A c \in Channels :
        waitingForOrderedPacketWriteIndex[c] < NumberRange => OrderedStream(c)

HInv ==
    /\ TypeOK
    /\ HandoversOK
    /\ InUseIsRecent
    /\ WindowOK
    /\ IndexesFollowSend
    /\ StoredOnStream
    /\ OrderedUntil
    /\ HandedUpOnce
    /\ RepeatsAfterHandover

Theirs == << mover, handovers >>

\* What depends on the receiving half only, and on who has it.
LEMMA ReceiverStays ==
    ASSUME TypeOK, HandoversOK, HandedUpOnce, RepeatsAfterHandover, StoredOnStream,
           UNCHANGED << mover, handovers, receivedPacketsBaseIndex, streams >>,
           \A j : Known(j)' = Known(j)
    PROVE  HandoversOK' /\ HandedUpOnce' /\ RepeatsAfterHandover'
<1>1. Since' = Since
  BY DEF Since
<1>2. HandoversOK' /\ RepeatsAfterHandover'
  BY DEF HandoversOK, RepeatsAfterHandover, streams
<1>3. HandedUpOnce'
  BY <1>1 DEF HandedUpOnce, streams
<1> QED
  BY <1>2, <1>3

LEMMA KnownStays ==
    ASSUME UNCHANGED << receivedPacketsBaseIndex, hasReceivedPacketQueue >>
    PROVE  \A j : Known(j)' = Known(j)
  BY DEF Known, KnownIn

LEMMA SendKeepsHInv ==
    ASSUME HInv, TypeOK', NEW k \in Traffic, Send(k), UNCHANGED Theirs PROVE HInv'
<1> USE DEF HInv, Theirs
<1>1. UNCHANGED << receivedPacketsBaseIndex, hasReceivedPacketQueue, streams >>
  BY DEF Send, receiver, window
<1>2. WindowOK'
  <2>1. messageNumber' = messageNumber + 1 /\ messageNumber \in Nat
    BY SendAdds
  <2>2. /\ receivedPacketsBaseIndex \in Nat /\ Len(hasReceivedPacketQueue) \in Nat
    BY DEF TypeOK
  <2> QED
    BY <1>1, <2>1, <2>2 DEF WindowOK, WindowFits
<1>3. InUseIsRecent' /\ IndexesFollowSend' /\ StoredOnStream'
  BY SendKeepsRecent, SendKeepsIndexes, SendKeepsStored
<1>4. OrderedUntil'
  <2> SUFFICES ASSUME NEW c \in Channels,
                      waitingForOrderedPacketWriteIndex'[c] < NumberRange
               PROVE  OrderedStream(c)'
    BY DEF OrderedUntil
  <2>1. waitingForOrderedPacketWriteIndex[c] < NumberRange
    BY SendOnStream, ConstantFacts
  <2> QED
    BY <2>1, SendKeepsOrderedStream DEF OrderedUntil
<1>5. HandoversOK' /\ HandedUpOnce' /\ RepeatsAfterHandover'
  BY <1>1, KnownStays, ReceiverStays
<1> QED
  BY <1>2, <1>3, <1>4, <1>5

LEMMA DeliverKeepsHInv ==
    ASSUME HInv, TypeOK', RateIsSafe, NEW i \in wire, Deliver(i), ~IsDuplicate(i),
           InUse' \subseteq InUse, UNCHANGED Theirs
    PROVE  HInv'
<1> USE DEF HInv, Theirs
<1>1. /\ Accept(i)
      /\ PassUpSequenced(i) \/ PassUpOrdered(i) \/ PassUpOther(i)
      /\ UNCHANGED << sent, waitingForOrderedPacketWriteIndex,
                      waitingForSequencedPacketWriteIndex >>
      /\ i \in Ids
  BY DEF Deliver, sender, TypeOK
<1>2. /\ WindowOK' /\ Known(i)'
      /\ \A j \in Nat : Known(j) => Known(j)'
      /\ receivedPacketsBaseIndex' >= receivedPacketsBaseIndex
  BY <1>1, AcceptKnows
<1>3. InUseIsRecent'
  BY <1>1, <1>2, RecentStays
<1>4. i >= receivedPacketsBaseIndex /\ ~Known(i)
  BY NewIsUnknown
<1>5. HandedUpOnce' /\ Extends(outputQueue', outputQueue)
  BY <1>1, <1>2, <1>4, PassUpKeepsHandedUpOnce
<1>6. HandoversOK' /\ RepeatsAfterHandover'
  BY <1>5, RepeatsFollow
<1>7. IndexesFollowSend' /\ StoredOnStream'
  BY <1>1, IndexesStay, PassUpKeepsStored
<1>8. OrderedUntil'
  <2> SUFFICES ASSUME NEW c \in Channels,
                      waitingForOrderedPacketWriteIndex[c] < NumberRange
               PROVE  OrderedStream(c)'
    BY <1>1 DEF OrderedUntil
  <2>1. OrderedStream(c)
    BY DEF OrderedUntil
  <2>2. CASE i \in OnOrdered(c)
    <3>1. PassUpOrdered(i)
      BY <1>1, <2>2, OnType DEF PassUpSequenced, PassUpOther
    <3> QED
      BY <1>1, <2>1, <2>2, <3>1, OrderedBeforeWrap
  <2>3. CASE i \notin OnOrdered(c)
    BY <1>1, <2>1, <2>3, OthersPassedUp
  <2> QED
    BY <2>2, <2>3
<1> QED
  BY <1>2, <1>3, <1>5, <1>6, <1>7, <1>8

\* Everything else leaves the streams alone, and the window but for its holes.
LEMMA IdleKeepsHInv ==
    ASSUME HInv, TypeOK', InUse' \subseteq InUse, UNCHANGED Theirs,
           UNCHANGED << sent, waitingForOrderedPacketWriteIndex,
                        waitingForSequencedPacketWriteIndex, streams,
                        receivedPacketsBaseIndex >>,
           WindowOK', \A j : Known(j)' = Known(j)
    PROVE  HInv'
<1> USE DEF HInv, Theirs
<1>1. InUseIsRecent'
  <2>1. receivedPacketsBaseIndex' >= receivedPacketsBaseIndex
    BY DEF TypeOK
  <2> QED
    BY <2>1, RecentStays
<1>2. IndexesFollowSend'
  BY IndexesStay
<1>3. StoredOnStream' /\ OrderedUntil'
  BY SentStays DEF StoredOnStream, OrderedUntil, OrderedStream, HandedUp, At, streams
<1>4. HandoversOK' /\ HandedUpOnce' /\ RepeatsAfterHandover'
  BY ReceiverStays
<1> QED
  BY <1>1, <1>2, <1>3, <1>4


LEMMA NextKeepsHInv ==
    ASSUME HInv, TypeOK', RateIsSafe, [Next]_vars, UNCHANGED Theirs PROVE HInv'
<1>1. CASE \E k \in Traffic : Send(k)
  BY <1>1, SendKeepsHInv
<1> SUFFICES ASSUME ~\E k \in Traffic : Send(k) PROVE HInv'
  BY <1>1
<1>2. InUse' \subseteq InUse /\ UNCHANGED sent
  BY InUseShrinks DEF HInv
<1>3. ASSUME UNCHANGED << hasReceivedPacketQueue, receivedPacketsBaseIndex >>
      PROVE  WindowOK' /\ \A j : Known(j)' = Known(j)
  BY <1>2, <1>3, KnownStays DEF WindowOK, WindowFits, messageNumber, HInv
<1>4. ASSUME NEW i \in wire, Deliver(i) PROVE HInv'
  <2>1. CASE IsDuplicate(i)
    <3>1. UNCHANGED << waitingForOrderedPacketWriteIndex,
                       waitingForSequencedPacketWriteIndex, streams,
                       hasReceivedPacketQueue, receivedPacketsBaseIndex >>
      BY <1>4, <2>1 DEF Deliver, sender, window
    <3> QED
      BY <1>2, <1>3, <3>1, IdleKeepsHInv
  <2>2. CASE ~IsDuplicate(i)
    BY <1>2, <1>4, <2>2, DeliverKeepsHInv
  <2> QED
    BY <2>1, <2>2
<1> SUFFICES ASSUME ~\E i \in wire : Deliver(i) PROVE HInv'
  BY <1>4
<1>5. UNCHANGED << waitingForOrderedPacketWriteIndex,
                   waitingForSequencedPacketWriteIndex, streams >>
  BY OtherActions
<1>6. CASE \E n \in 1..Len(hasReceivedPacketQueue) : HolesRunOut(n)
  <2>1. PICK n \in 1..Len(hasReceivedPacketQueue) : HolesRunOut(n)
    BY <1>6
  <2>2. WindowOK' /\ \A j : Known(j)' = Known(j)
    BY <2>1, HolesRunOutKnows DEF HInv
  <2>3. UNCHANGED receivedPacketsBaseIndex
    BY <2>1 DEF HolesRunOut
  <2> QED
    BY <1>2, <1>5, <2>2, <2>3, IdleKeepsHInv
<1>7. CASE ~\E n \in 1..Len(hasReceivedPacketQueue) : HolesRunOut(n)
  <2>1. UNCHANGED << hasReceivedPacketQueue, receivedPacketsBaseIndex >>
    <3>1. CASE Resend
      BY <3>1 DEF Resend, receiver, window
    <3>2. CASE Transmit
      BY <3>2 DEF Transmit, receiver, window
    <3>3. CASE \E a \in ackWire : ReceiveAck(a)
      BY <3>3 DEF ReceiveAck, receiver, window
    <3>4. CASE GiveUpConnection
      BY <3>4 DEF GiveUpConnection, receiver, window
    <3>5. CASE SendAcks
      BY <3>5 DEF SendAcks, window
    <3>6. CASE \E i \in wire : Lose(i)
      BY <3>6 DEF Lose, receiver, window
    <3>7. CASE \E a \in ackWire : LoseAck(a)
      BY <3>7 DEF LoseAck, receiver, window
    <3>8. CASE UNCHANGED vars
      BY <3>8 DEF vars, receiver, window
    <3> QED
      BY <1>7, <3>1, <3>2, <3>3, <3>4, <3>5, <3>6, <3>7, <3>8 DEF Next
  <2> QED
    BY <1>2, <1>3, <1>5, <2>1, IdleKeepsHInv
<1> QED
  BY <1>6, <1>7

-----------------------------------------------------------------------------
(* A handover.                                                             *)

LEMMA FreshType ==
    ASSUME TypeOK, HandOver
    PROVE  /\ TypeOK' /\ UNCHANGED << sent, outputQueue, receivedPacketsBaseIndex, mover,
                                      waitingForOrderedPacketReadIndex,
                                      waitingForSequencedPacketReadIndex,
                                      waitingForOrderedPacketWriteIndex,
                                      waitingForSequencedPacketWriteIndex >>
           /\ InUse' \subseteq InUse
<1>1. CASE FreshSender
  <2>1. UNCHANGED << sent, outputQueue, receivedPacketsBaseIndex, mover,
                     waitingForOrderedPacketReadIndex, waitingForSequencedPacketReadIndex,
                     waitingForOrderedPacketWriteIndex,
                     waitingForSequencedPacketWriteIndex,
                     wire, ackWire, acknowlegements, hasReceivedPacketQueue,
                     orderingList, accepted, gaveUp >>
    BY <1>1 DEF FreshSender, receiver, window, streams, HandOver
  <2>2. Ids' = Ids
    BY <2>1 DEF Ids, messageNumber
  <2>3. /\ sendPacketSet' \in [Priorities -> Seq(Ids)]
        /\ resendQueue' \in Seq(Ids)
        /\ resendList' \subseteq Ids
        /\ ackTimerRuns' \in BOOLEAN /\ deadConnection' \in BOOLEAN
    <3>1. << >> \in Seq(Ids) /\ {} \subseteq Ids
      OBVIOUS
    <3> QED
      BY <1>1, <3>1 DEF FreshSender
  <2>4. QueuedIds' = {}
    <3>1. \A p \in Priorities : sendPacketSet'[p] = << >>
      BY <1>1 DEF FreshSender
    <3> QED
      BY <3>1 DEF QueuedIds
  <2>5. InUse' \subseteq InUse
    BY <1>1, <2>1, <2>4 DEF InUse, FreshSender
  <2> QED
    BY <2>1, <2>2, <2>3, <2>5 DEF TypeOK
<1>2. CASE FreshReceiver
  <2>1. UNCHANGED << sent, outputQueue, receivedPacketsBaseIndex, mover,
                     waitingForOrderedPacketReadIndex, waitingForSequencedPacketReadIndex,
                     waitingForOrderedPacketWriteIndex,
                     waitingForSequencedPacketWriteIndex,
                     sendPacketSet, resendQueue, resendList, ackTimerRuns,
                     deadConnection, wire, ackWire, accepted, gaveUp >>
    BY <1>2 DEF FreshReceiver, sender, HandOver
  <2>2. Ids' = Ids /\ QueuedIds' = QueuedIds
    BY <2>1 DEF Ids, messageNumber, QueuedIds
  <2>3. /\ hasReceivedPacketQueue' \in Seq({ "got", "hole", "expired" })
        /\ acknowlegements' \subseteq Ids
        /\ orderingList' \in [Channels -> SUBSET Ids]
    BY <1>2 DEF FreshReceiver
  <2>4. InUse' \subseteq InUse
    BY <1>2, <2>1, <2>2 DEF InUse, FreshReceiver
  <2> QED
    BY <2>1, <2>2, <2>3, <2>4 DEF TypeOK
<1> QED
  BY <1>1, <1>2 DEF HandOver

LEMMA HandOverRecorded ==
    ASSUME TypeOK, HandoversOK, HandOver
    PROVE  /\ HandoversOK'
           /\ Len(handovers) \in Nat /\ Len(handovers') = Len(handovers) + 1
           /\ \A h \in 1..Len(handovers) : handovers'[h] = handovers[h]
           /\ handovers'[Len(handovers')] =
                 [output |-> Len(outputQueue), base |-> receivedPacketsBaseIndex]
<1> DEFINE S == [output : Nat, base : Nat]
           e == [output |-> Len(outputQueue), base |-> receivedPacketsBaseIndex]
<1>1. handovers \in Seq(S) /\ e \in S
  BY DEF TypeOK, HandoversOK
<1>2. handovers' = Append(handovers, e)
  BY DEF HandOver
<1>3. e.output = Len(outputQueue) /\ Len(outputQueue) \in Nat
  BY DEF TypeOK
<1>4. UNCHANGED << outputQueue, mover >>
  BY FreshType
<1> HIDE DEF S, e
<1>5. /\ handovers' \in Seq(S)
      /\ Len(handovers) \in Nat /\ Len(handovers') = Len(handovers) + 1
      /\ \A h \in 1..Len(handovers) : handovers'[h] = handovers[h]
      /\ handovers'[Len(handovers) + 1] = e
  BY <1>1, <1>2
<1>6. \A h \in 1..Len(handovers') : handovers'[h].output <= Len(outputQueue)
  <2> SUFFICES ASSUME NEW h \in 1..Len(handovers')
               PROVE  handovers'[h].output <= Len(outputQueue)
    OBVIOUS
  <2>1. CASE h \in 1..Len(handovers)
    BY <1>5, <2>1 DEF HandoversOK
  <2>2. CASE h = Len(handovers) + 1
    BY <1>3, <1>5, <2>2
  <2> QED
    BY <1>5, <2>1, <2>2
<1> QED
  BY <1>4, <1>5, <1>6 DEF HandoversOK, S, e

LEMMA HandOverKeepsHInv ==
    ASSUME HInv, RateIsSafe, HandOver PROVE HInv'
<1> USE DEF HInv
<1>1. /\ TypeOK' /\ InUse' \subseteq InUse
      /\ UNCHANGED << sent, outputQueue, receivedPacketsBaseIndex, mover,
                      waitingForOrderedPacketReadIndex,
                      waitingForOrderedPacketWriteIndex,
                      waitingForSequencedPacketWriteIndex >>
  BY FreshType
<1>2. InUseIsRecent' /\ IndexesFollowSend'
  <2>1. receivedPacketsBaseIndex' >= receivedPacketsBaseIndex
    BY <1>1 DEF TypeOK
  <2> QED
    BY <1>1, <2>1, RecentStays, IndexesStay
<1>3. OrderedUntil'
  BY <1>1, SentStays DEF OrderedUntil, OrderedStream, HandedUp, At
<1>4. HandoversOK'
  BY HandOverRecorded
<1>5. RepeatsAfterHandover'
  <2> SUFFICES ASSUME NEW m \in 1..Len(outputQueue), NEW n \in 1..Len(outputQueue),
                      m < n, outputQueue[m] = outputQueue[n]
               PROVE  /\ mover = "receiver"
                      /\ \E h \in 1..Len(handovers') :
                         /\ m <= handovers'[h].output /\ handovers'[h].output < n
                         /\ outputQueue[n] >= handovers'[h].base
    BY <1>1 DEF RepeatsAfterHandover
  <2>1. mover = "receiver"
    BY DEF RepeatsAfterHandover
  <2>2. PICK h \in 1..Len(handovers) :
           /\ m <= handovers[h].output /\ handovers[h].output < n
           /\ outputQueue[n] >= handovers[h].base
    BY DEF RepeatsAfterHandover
  <2>3. h \in 1..Len(handovers') /\ handovers'[h] = handovers[h]
    BY HandOverRecorded
  <2> QED
    BY <2>1, <2>2, <2>3
<1>6. CASE mover = "sender" /\ FreshSender
  <2>1. UNCHANGED << hasReceivedPacketQueue, orderingList >>
    BY <1>6 DEF FreshSender, receiver, window, streams
  <2>2. WindowOK'
    BY <1>1, <2>1 DEF WindowOK, WindowFits, messageNumber
  <2>3. StoredOnStream'
    BY <1>1, <2>1, SentStays DEF StoredOnStream
  <2>4. Since' = Since
    BY <1>1, <1>6 DEF Since
  <2>5. HandedUpOnce'
    BY <1>1, <2>1, <2>4, KnownStays DEF HandedUpOnce
  <2> QED
    BY <1>1, <1>2, <1>3, <1>4, <1>5, <2>2, <2>3, <2>5
<1>7. CASE mover = "receiver" /\ FreshReceiver
  <2>1. /\ hasReceivedPacketQueue' = << >>
        /\ \A c \in Channels : orderingList'[c] = {}
    BY <1>7 DEF FreshReceiver
  <2>2. WindowOK'
    <3>1. /\ messageNumber' = messageNumber /\ messageNumber \in Nat
          /\ receivedPacketsBaseIndex \in Nat /\ Len(hasReceivedPacketQueue) \in Nat
      BY <1>1 DEF TypeOK, messageNumber
    <3>2. receivedPacketsBaseIndex <= messageNumber
      BY <3>1 DEF WindowOK, WindowFits
    <3> QED
      BY <1>1, <2>1, <3>1, <3>2 DEF WindowOK, WindowFits
  <2>3. StoredOnStream'
    BY <2>1 DEF StoredOnStream
  <2>4. Since' = [output |-> Len(outputQueue), base |-> receivedPacketsBaseIndex]
    <3>1. handovers' # << >>
      BY HandOverRecorded
    <3> QED
      BY <1>1, <1>7, <3>1, HandOverRecorded DEF Since
  <2>5. HandedUpOnce'
    <3>1. \A n \in 1..Len(outputQueue) : ~(n > Len(outputQueue))
      BY DEF TypeOK
    <3>2. Since'.output = Len(outputQueue) /\ Since'.base = receivedPacketsBaseIndex
      BY <2>4
    <3>3. receivedPacketsBaseIndex <= receivedPacketsBaseIndex
      BY DEF TypeOK
    <3> QED
      BY <1>1, <2>1, <3>1, <3>2, <3>3 DEF HandedUpOnce
  <2> QED
    BY <1>1, <1>2, <1>3, <1>4, <1>5, <2>2, <2>3, <2>5
<1> QED
  BY <1>6, <1>7 DEF HandOver

LEMMA InitIsHInv == ASSUME InitH PROVE HInv
<1>1. Init /\ handovers = << >> /\ mover \in Movers
  BY DEF InitH
<1>2. TypeOK
  BY <1>1, TypeInit
<1>3. IndexesFollowSend /\ StoredOnStream
  BY <1>1, InitIsStreams DEF StreamsInv
<1>4. /\ messageNumber = 0 /\ InUse = {} /\ outputQueue = << >>
      /\ hasReceivedPacketQueue = << >> /\ receivedPacketsBaseIndex = 0
      /\ \A c \in Channels : orderingList[c] = {} /\ waitingForOrderedPacketReadIndex[c] = 0
                             /\ waitingForOrderedPacketWriteIndex[c] = 0
  BY <1>1 DEF Init, messageNumber, InUse, QueuedIds
<1>5. InUseIsRecent /\ WindowOK
  BY <1>4, ConstantFacts DEF InUseIsRecent, WindowOK, WindowFits
<1>6. HandoversOK
  <2>1. << >> \in Seq([output : Nat, base : Nat])
    OBVIOUS
  <2> QED
    BY <1>1, <2>1, HandoverAssumption DEF HandoversOK
<1>7. Since.base = 0 /\ HandedUpOnce /\ RepeatsAfterHandover
  BY <1>1, <1>4 DEF Since, HandedUpOnce, RepeatsAfterHandover
<1>8. OrderedUntil
  <2>1. Ids = {}
    BY <1>4 DEF Ids
  <2> QED
    BY <1>4, <2>1 DEF OrderedUntil, OrderedStream, OnOrdered, HandedUp, At
<1> QED
  BY <1>2, <1>3, <1>5, <1>6, <1>7, <1>8 DEF HInv

-----------------------------------------------------------------------------
(* The theorems.                                                           *)

\* In a direction with handovers every variable of the layer keeps its type: a
\* new process is started from values the layer can have.
THEOREM HandoverTypeCorrect == SpecH => []TypeOK
<1>1. InitH => TypeOK
  BY TypeInit DEF InitH
<1>2. TypeOK /\ [NextH]_varsH => TypeOK'
  BY FreshType, TypeStep DEF NextH, varsH
<1> QED
  BY <1>1, <1>2, PTL DEF SpecH

LEMMA HandoverInvariant == ASSUME RateIsSafe PROVE SpecH => []HInv
<1>1. InitH => HInv
  BY InitIsHInv
<1>2. HInv /\ [NextH]_varsH => HInv'
  <2> SUFFICES ASSUME HInv, [NextH]_varsH PROVE HInv'
    OBVIOUS
  <2>1. CASE HandOver
    BY <2>1, HandOverKeepsHInv
  <2>2. CASE [Next]_vars /\ UNCHANGED << mover, handovers >>
    <3>1. TypeOK'
      BY <2>2, TypeStep DEF HInv
    <3> QED
      BY <2>2, <3>1, NextKeepsHInv DEF Theirs
  <2> QED
    BY <2>1, <2>2 DEF NextH, varsH
<1> QED
  BY <1>1, <1>2, PTL DEF SpecH

\* A message is handed up again only by a process that took the receiving half over
\* (raknet_plugin.hpp:99-112, dllmain.cpp), and only if it is not under the base
\* index that process was given.
THEOREM RepeatsAfterHandoverHolds ==
    ASSUME RateIsSafe PROVE SpecH => []RepeatsAfterHandover
<1>1. HInv => RepeatsAfterHandover
  BY DEF HInv
<1> QED
  BY <1>1, HandoverInvariant, PTL

\* However often the connection changes hands, ordered messages are handed up in
\* the order of Send, none left out and none again, until the ordering indexes of
\* their channel come round: the read and write indexes are handed over
\* (raknet_plugin.hpp:106-111).
THEOREM OrderedUntilWrapHolds ==
    ASSUME RateIsSafe PROVE SpecH => []OrderedUntilWrap
<1>1. HInv => OrderedUntilWrap
  <2> SUFFICES ASSUME HInv, NEW n \in 1..Len(outputQueue), NEW i, i = outputQueue[n],
                      Ordered(i),
                      waitingForOrderedPacketWriteIndex[Message(i).channel] < NumberRange
               PROVE  /\ \A m \in 1..(n - 1) : outputQueue[m] # i
                      /\ \A j \in 0..(i - 1) :
                            Ordered(j) /\ Message(j).channel = Message(i).channel
                            => \E m \in 1..(n - 1) : outputQueue[m] = j
    BY DEF OrderedUntilWrap
  <2> DEFINE c == Message(i).channel
  <2>1. i \in Ids /\ c \in Channels
    BY MessageType DEF HInv, TypeOK
  <2>2. i \in OnOrdered(c) /\ OrderedStream(c)
    BY <2>1 DEF OnOrdered, HInv, OrderedUntil
  <2> HIDE DEF c
  <2>3. ASSUME NEW m \in 1..(n - 1), outputQueue[m] = i PROVE FALSE
    <3>1. m \in Nat /\ n \in Nat /\ m < n /\ m \in 1..Len(outputQueue)
      BY DEF HInv, TypeOK
    <3>2. At(m, i) /\ At(n, i) /\ Message(i).index \in Nat
      BY <2>1, <2>2, <2>3, <3>1, OnType DEF At, HInv
    <3>3. Message(i).index < Message(i).index
      BY <2>1, <2>2, <3>1, <3>2 DEF OrderedStream
    <3> QED
      BY <3>2, <3>3
  <2>4. ASSUME NEW j \in 0..(i - 1), Ordered(j), Message(j).channel = c
        PROVE  \E m \in 1..(n - 1) : outputQueue[m] = j
    <3>1. j \in OnOrdered(c) /\ j < i
      BY <2>4, HandedUpOnStream DEF HInv, c
    <3> QED
      BY <2>1, <2>2, <3>1, EarlierAreHandedUp DEF HInv
  <2> QED
    BY <2>3, <2>4 DEF c
<1> QED
  BY <1>1, HandoverInvariant, PTL

\* Nor does a sequenced stream go back at a handover: its read index is handed
\* over, so that what the old process had passed by the new one passes by too.
THEOREM SequencedForwardAcrossHandovers ==
    ASSUME RateIsSafe, SequencedRateIsSafe PROVE SpecH => []SequencedForward
<1>1. InitH => SequencedInv
  BY InitIsStreams DEF InitH
<1>2. HInv /\ HInv' /\ SequencedInv /\ [NextH]_varsH => SequencedInv'
  <2> SUFFICES ASSUME HInv, HInv', SequencedInv, [NextH]_varsH PROVE SequencedInv'
    OBVIOUS
  <2>1. CASE HandOver
    <3>1. UNCHANGED << sent, outputQueue, waitingForSequencedPacketReadIndex,
                       waitingForSequencedPacketWriteIndex >>
      BY <2>1, FreshType DEF HInv
    <3> QED
      BY <3>1, SentStays DEF SequencedInv, SequencedStream, At
  <2>2. CASE [Next]_vars
    BY <2>2, SequencedInvIsInductive DEF HInv
  <2> QED
    BY <2>1, <2>2 DEF NextH, varsH
<1>3. HInv /\ SequencedInv => SequencedForward
  BY ForwardFromStreams DEF HInv
<1> QED
  BY <1>1, <1>2, <1>3, HandoverInvariant, PTL DEF SpecH


\* With the write indexes handed over (raknet_plugin.hpp:100-103) the order of an
\* ordered stream survives every change of the sending process as it survives
\* everything else: until a missing message has been passed by for a whole round.
THEOREM OrderedAcrossNewSenders ==
    ASSUME RateIsSafe PROVE SpecH => [](mover = "sender" => OrderedInOrder)
<1> DEFINE SInv == mover = "sender" => StreamsInv
<1>1. InitH => SInv
  BY InitIsStreams DEF InitH
<1>2. HInv /\ HInv' /\ SInv /\ [NextH]_varsH => SInv'
  <2> SUFFICES ASSUME HInv, HInv', StreamsInv, [NextH]_varsH, mover = "sender"
               PROVE  StreamsInv'
    BY DEF NextH, HandOver, varsH
  <2>1. CASE HandOver
    <3>1. UNCHANGED << sent, waitingForOrderedPacketWriteIndex,
                       waitingForSequencedPacketWriteIndex, streams >>
      BY <2>1 DEF HandOver, FreshSender, receiver
    <3> QED
      BY <3>1, IdleKeepsStreams
  <2>2. CASE [Next]_vars
    <3>1. Since.output = 0
      BY DEF Since
    <3>2. ASSUME NEW i \in wire, ~IsDuplicate(i), HandedUp(i) PROVE FALSE
      <4>1. PICK n \in 1..Len(outputQueue) : outputQueue[n] = i
        BY <3>2 DEF HandedUp
      <4>2. n > 0 /\ i \in Nat
        <5>1. i \in Ids
          BY DEF HInv, TypeOK
        <5> QED
          BY <5>1 DEF Ids
      <4>3. Known(i)
        BY <3>1, <4>1, <4>2 DEF HInv, HandedUpOnce
      <4> QED
        BY <3>2, <4>3, NewIsUnknown DEF HInv
    <3> QED
      BY <2>2, <3>2, StreamsInvIsInductive DEF HInv
  <2> QED
    BY <2>1, <2>2 DEF NextH, varsH
<1>3. HInv /\ SInv => (mover = "sender" => OrderedInOrder)
  BY OrderFromStreams DEF HInv
<1> QED
  BY <1>1, <1>2, <1>3, HandoverInvariant, PTL DEF SpecH

===============================================================================
