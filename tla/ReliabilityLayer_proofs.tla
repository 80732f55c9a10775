----------------------- MODULE ReliabilityLayer_proofs -----------------------
(***************************************************************************)
(* Machine-checked proofs about ReliabilityLayer, for every value of its   *)
(* constants.                                                              *)
(***************************************************************************)
EXTENDS ReliabilityLayer, SequenceTheorems, TLAPS

-----------------------------------------------------------------------------
(* Type correctness.                                                       *)

LEMMA SeqGrows ==
    ASSUME NEW S, NEW T, S \subseteq T, NEW s \in Seq(S)
    PROVE  s \in Seq(T)
  OBVIOUS

LEMMA WithoutType ==
    ASSUME NEW S, NEW s \in Seq(S), NEW n \in 0..Len(s)
    PROVE  /\ Without(s, n) \in Seq(S)
           /\ Len(Without(s, n)) = Len(s) - n
           /\ \A m \in 1..(Len(s) - n) : Without(s, n)[m] = s[n + m]
  BY DEF Without

LEMMA MessageType ==
    ASSUME TypeOK, NEW i \in Ids
    PROVE  /\ i \in Nat
           /\ Message(i) \in [reliability : Reliability, channel : Channels, index : Nat]
<1> DEFINE T == [reliability : Reliability, channel : Channels, index : Nat]
<1>1. sent \in Seq(T)
  BY DEF TypeOK
<1> HIDE DEF T
<1>2. i \in Nat /\ i + 1 \in 1..Len(sent)
  BY <1>1 DEF Ids, messageNumber
<1>3. sent[i + 1] \in T
  BY <1>1, <1>2
<1> USE DEF T
<1> QED
  BY <1>2, <1>3 DEF Message

LEMMA SendType == ASSUME TypeOK, NEW k \in Traffic, Send(k) PROVE TypeOK'
<1>1. k \in Kinds
  BY ConstantsAssumption
<1>2. OrderingIndex(k) \in Nat
  BY <1>1 DEF TypeOK, OrderingIndex, Kinds
<1>3. sent' \in Seq([reliability : Reliability, channel : Channels, index : Nat])
  BY <1>1, <1>2 DEF TypeOK, Send, Kinds
<1>4. Len(sent') = Len(sent) + 1 /\ Len(sent) \in Nat
  BY DEF TypeOK, Send
<1>5. Ids \subseteq Ids' /\ messageNumber \in Ids'
  BY <1>4 DEF Ids, messageNumber
<1>6. /\ waitingForOrderedPacketWriteIndex' \in [Channels -> Nat]
      /\ waitingForSequencedPacketWriteIndex' \in [Channels -> Nat]
  <2>1. TakeOrderingIndex(k) /\ k.channel \in Channels
    BY <1>1 DEF Send, Kinds
  <2>2. /\ waitingForOrderedPacketWriteIndex \in [Channels -> Nat]
        /\ waitingForSequencedPacketWriteIndex \in [Channels -> Nat]
    BY DEF TypeOK
  <2> QED
    BY <2>1, <2>2 DEF TakeOrderingIndex
<1>7. sendPacketSet' \in [Priorities -> Seq(Ids')]
  <2>1. sendPacketSet \in [Priorities -> Seq(Ids')]
    BY <1>5, SeqGrows DEF TypeOK
  <2> QED
    BY <2>1, <1>5, <1>1 DEF Send, Kinds
<1>8. resendQueue' \in Seq(Ids') /\ outputQueue' \in Seq(Ids')
  BY <1>5, SeqGrows DEF TypeOK, Send, receiver, streams
<1>9. orderingList' \in [Channels -> SUBSET Ids']
  BY <1>5 DEF TypeOK, Send, receiver, streams
<1> QED
  BY <1>3, <1>5, <1>6, <1>7, <1>8, <1>9
     DEF TypeOK, Send, receiver, streams, window

LEMMA AcceptType ==
    ASSUME TypeOK, NEW i \in Ids, Accept(i), UNCHANGED sent
    PROVE  /\ receivedPacketsBaseIndex' \in Nat
           /\ hasReceivedPacketQueue' \in Seq({ "got", "hole", "expired" })
           /\ accepted' \subseteq Ids'
           /\ gaveUp' \subseteq Nat
<1> DEFINE S == { "got", "hole", "expired" }
           b == receivedPacketsBaseIndex + (IF HoleCount(i) = 0 THEN 1 ELSE 0)
<1>1. HoleCount(i) \in Nat
  <2>1. i \in Nat /\ receivedPacketsBaseIndex \in Nat
    BY MessageType DEF TypeOK
  <2>2. i % NumberRange \in Nat /\ receivedPacketsBaseIndex % NumberRange \in Nat
    BY <2>1, ConstantsAssumption
  <2> QED
    BY <2>2, ConstantsAssumption DEF HoleCount
<1>2. Entered(i) \in Seq(S)
  <2>1. hasReceivedPacketQueue \in Seq(S)
    BY DEF TypeOK
  <2>2. CASE HoleCount(i) = 0
    BY <2>1, <2>2 DEF Entered
  <2>3. CASE HoleCount(i) # 0 /\ HoleCount(i) < Len(hasReceivedPacketQueue)
    BY <2>1, <2>3, <1>1 DEF Entered
  <2>4. CASE HoleCount(i) # 0 /\ ~(HoleCount(i) < Len(hasReceivedPacketQueue))
    <3> DEFINE q == hasReceivedPacketQueue
               f == [n \in 1..(HoleCount(i) + 1) |-> IF n <= Len(q) THEN q[n]
                                   ELSE IF n <= HoleCount(i) THEN "hole" ELSE "got"]
    <3>1. Entered(i) = f
      BY <2>4 DEF Entered
    <3>2. \A n \in 1..(HoleCount(i) + 1) : n <= Len(q) => q[n] \in S
      BY <2>1, <1>1
    <3>3. f \in [1..(HoleCount(i) + 1) -> S]
      BY <3>2
    <3>4. f \in Seq(S)
      BY <3>3, <1>1
    <3> QED
      BY <3>1, <3>4
  <2> QED
    BY <2>2, <2>3, <2>4
<1>3. b \in Nat
  BY DEF TypeOK
<1>4. PICK n \in 0..Len(Entered(i)) :
            /\ receivedPacketsBaseIndex' = b + n
            /\ hasReceivedPacketQueue' = Without(Entered(i), n)
            /\ gaveUp' = gaveUp \cup
                  { b + m - 1 : m \in { k \in 1..n : Entered(i)[k] = "expired" } }
            /\ accepted' = accepted \cup { i }
  BY DEF Accept
<1>5. n \in Nat
  BY <1>2, <1>4
<1>6. hasReceivedPacketQueue' \in Seq(S)
  BY <1>2, <1>4, WithoutType
<1>7. gaveUp' \subseteq Nat
  <2>1. \A m \in { k \in 1..n : Entered(i)[k] = "expired" } : b + m - 1 \in Nat
    BY <1>3, <1>5
  <2>2. gaveUp \subseteq Nat
    BY DEF TypeOK
  <2> QED
    BY <1>4, <2>1, <2>2
<1>8. receivedPacketsBaseIndex' \in Nat
  BY <1>3, <1>4, <1>5
<1>9. accepted' \subseteq Ids'
  BY <1>4 DEF TypeOK, Ids, messageNumber
<1> QED
  BY <1>6, <1>7, <1>8, <1>9

LEMMA PassUpType ==
    ASSUME TypeOK, NEW i \in Ids, UNCHANGED sent,
           PassUpSequenced(i) \/ PassUpOrdered(i) \/ PassUpOther(i)
    PROVE  /\ waitingForOrderedPacketReadIndex' \in [Channels -> Nat]
           /\ waitingForSequencedPacketReadIndex' \in [Channels -> Nat]
           /\ orderingList' \in [Channels -> SUBSET Ids']
           /\ outputQueue' \in Seq(Ids')
<1>0. Ids' = Ids
  BY DEF Ids, messageNumber
<1>1. Message(i).channel \in Channels /\ Message(i).index \in Nat
  BY MessageType
<1>2. CASE PassUpSequenced(i)
  <2> DEFINE c == Message(i).channel
             x == Message(i).index + 1
  <2>1. /\ waitingForOrderedPacketReadIndex' = waitingForOrderedPacketReadIndex
        /\ orderingList' = orderingList
        /\ \/ /\ waitingForSequencedPacketReadIndex' = waitingForSequencedPacketReadIndex
              /\ outputQueue' = outputQueue
           \/ /\ waitingForSequencedPacketReadIndex' =
                    [waitingForSequencedPacketReadIndex EXCEPT ![c] = x]
              /\ outputQueue' = Append(outputQueue, i)
    BY <1>2 DEF PassUpSequenced
  <2>2. c \in Channels /\ x \in Nat
    BY <1>1
  <2> HIDE DEF c, x
  <2>3. /\ waitingForSequencedPacketReadIndex \in [Channels -> Nat]
        /\ outputQueue \in Seq(Ids)
    BY DEF TypeOK
  <2>4. waitingForSequencedPacketReadIndex' \in [Channels -> Nat]
    BY <2>1, <2>2, <2>3
  <2>5. outputQueue' \in Seq(Ids)
    BY <2>1, <2>3
  <2> QED
    BY <2>1, <2>4, <2>5, <1>0 DEF TypeOK
<1>3. CASE PassUpOrdered(i)
  <2> DEFINE c == Message(i).channel
             waiting == waitingForOrderedPacketReadIndex[c]
  <2>2. CASE Message(i).index % NumberRange = waiting % NumberRange
    <3>0. PICK n \in 0..(NumberRange - 1) : \E run \in [1..n -> orderingList[c]] :
            /\ outputQueue' = Append(outputQueue, i) \o run
            /\ waitingForOrderedPacketReadIndex' =
                  [waitingForOrderedPacketReadIndex EXCEPT ![c] = @ + n + 1]
            /\ orderingList' =
                  [orderingList EXCEPT ![c] = @ \ { run[k] : k \in 1..n }]
      BY <1>3, <2>2 DEF PassUpOrdered
    <3>1. PICK run \in [1..n -> orderingList[c]] :
            /\ outputQueue' = Append(outputQueue, i) \o run
            /\ waitingForOrderedPacketReadIndex' =
                  [waitingForOrderedPacketReadIndex EXCEPT ![c] = @ + n + 1]
            /\ orderingList' =
                  [orderingList EXCEPT ![c] = @ \ { run[k] : k \in 1..n }]
      BY <3>0
    <3>2. n \in Nat /\ run \in [1..n -> Ids]
      BY <1>1, ConstantsAssumption DEF TypeOK
    <3>3. run \in Seq(Ids)
      BY <3>2
    <3>4. outputQueue' \in Seq(Ids)
      BY <3>1, <3>3 DEF TypeOK
    <3> QED
      BY <1>0, <1>1, <1>3, <3>1, <3>2, <3>4 DEF TypeOK, PassUpOrdered
  <2>3. CASE Message(i).index % NumberRange # waiting % NumberRange
    <3>1. /\ orderingList' = [orderingList EXCEPT ![c] = @ \cup { i }]
          /\ UNCHANGED << waitingForOrderedPacketReadIndex, outputQueue,
                          waitingForSequencedPacketReadIndex >>
      BY <1>3, <2>3 DEF PassUpOrdered
    <3>2. c \in Channels
      BY <1>1
    <3> QED
      BY <1>0, <3>1, <3>2 DEF TypeOK
  <2> QED
    BY <2>2, <2>3
<1>4. CASE PassUpOther(i)
  BY <1>0, <1>4 DEF PassUpOther, TypeOK
<1> QED
  BY <1>2, <1>3, <1>4

LEMMA TypeStep == TypeOK /\ [Next]_vars => TypeOK'
<1> SUFFICES ASSUME TypeOK, [Next]_vars PROVE TypeOK'
  OBVIOUS
<1>0. UNCHANGED sent => Ids' = Ids
  BY DEF Ids, messageNumber
<1>1. ASSUME NEW k \in Traffic, Send(k) PROVE TypeOK'
  BY <1>1, SendType
<1>2. CASE Resend
  <2>1. PICK n \in 0..(Len(resendQueue) - 1) :
          /\ wire' = wire \cup { resendQueue[n + 1] }
          /\ resendQueue' = Append(Without(resendQueue, n + 1), resendQueue[n + 1])
    BY <1>2 DEF Resend
  <2>2. n + 1 \in 0..Len(resendQueue) /\ n + 1 \in 1..Len(resendQueue)
    BY DEF TypeOK
  <2>3. resendQueue[n + 1] \in Ids /\ Without(resendQueue, n + 1) \in Seq(Ids)
    <3>1. resendQueue \in Seq(Ids)
      BY DEF TypeOK
    <3> QED
      BY <2>2, <3>1, WithoutType
  <2>4. resendQueue' \in Seq(Ids) /\ wire' \subseteq Ids
    BY <2>1, <2>3 DEF TypeOK
  <2> QED
    BY <1>0, <1>2, <2>4 DEF TypeOK, Resend, receiver, window, streams
<1>3. CASE Transmit
  <2>1. PICK p \in Priorities, n \in 0..Len(resendQueue) :
          /\ sendPacketSet[p] # << >>
          /\ sendPacketSet' = [sendPacketSet EXCEPT ![p] = Tail(@)]
          /\ wire' = wire \cup { Head(sendPacketSet[p]) }
          /\ \/ /\ resendList' = resendList \cup { Head(sendPacketSet[p]) }
                /\ resendQueue' = Append(Without(resendQueue, n), Head(sendPacketSet[p]))
                /\ ackTimerRuns' = TRUE
             \/ /\ resendQueue' = Without(resendQueue, n)
                /\ UNCHANGED << resendList, ackTimerRuns >>
    BY <1>3 DEF Transmit
  <2>2. sendPacketSet[p] \in Seq(Ids)
    BY DEF TypeOK
  <2>3. Head(sendPacketSet[p]) \in Ids /\ Tail(sendPacketSet[p]) \in Seq(Ids)
    BY <2>1, <2>2
  <2>4. Without(resendQueue, n) \in Seq(Ids)
    BY WithoutType DEF TypeOK
  <2>5. sendPacketSet' \in [Priorities -> Seq(Ids)]
    <3>1. sendPacketSet \in [Priorities -> Seq(Ids)]
      BY DEF TypeOK
    <3> QED
      BY <2>1, <2>3, <3>1
  <2>6. resendQueue' \in Seq(Ids)
    BY <2>1, <2>3, <2>4
  <2>7. resendList' \subseteq Ids /\ wire' \subseteq Ids /\ ackTimerRuns' \in BOOLEAN
    BY <2>1, <2>3 DEF TypeOK
  <2> QED
    BY <1>0, <1>3, <2>5, <2>6, <2>7 DEF TypeOK, Transmit, receiver, window, streams
<1>4. ASSUME NEW a \in ackWire, ReceiveAck(a) PROVE TypeOK'
  BY <1>0, <1>4 DEF TypeOK, ReceiveAck, receiver, window, streams
<1>5. CASE GiveUpConnection
  BY <1>0, <1>5 DEF TypeOK, GiveUpConnection, receiver, window, streams
<1>6. ASSUME NEW i \in wire, Deliver(i) PROVE TypeOK'
  <2>1. i \in Ids /\ UNCHANGED sender
    BY <1>6 DEF TypeOK, Deliver
  <2>2. CASE IsDuplicate(i)
    BY <1>0, <1>6, <2>1, <2>2 DEF TypeOK, Deliver, sender, window, streams
  <2>3. CASE ~IsDuplicate(i)
    <3>1. /\ Accept(i)
          /\ PassUpSequenced(i) \/ PassUpOrdered(i) \/ PassUpOther(i)
      BY <1>6, <2>3 DEF Deliver
    <3>2. UNCHANGED sent
      BY <2>1 DEF sender
    <3> HIDE DEF Ids
    <3>3. /\ receivedPacketsBaseIndex' \in Nat
          /\ hasReceivedPacketQueue' \in Seq({ "got", "hole", "expired" })
          /\ accepted' \subseteq Ids'
          /\ gaveUp' \subseteq Nat
      BY <2>1, <3>1, <3>2, AcceptType
    <3>4. /\ waitingForOrderedPacketReadIndex' \in [Channels -> Nat]
          /\ waitingForSequencedPacketReadIndex' \in [Channels -> Nat]
          /\ orderingList' \in [Channels -> SUBSET Ids']
          /\ outputQueue' \in Seq(Ids')
      BY <2>1, <3>1, <3>2, PassUpType
    <3> QED
      BY <1>0, <1>6, <2>1, <3>2, <3>3, <3>4 DEF TypeOK, Deliver, sender
  <2> QED
    BY <2>2, <2>3
<1>7. CASE SendAcks
  BY <1>0, <1>7 DEF TypeOK, SendAcks, sender, window, streams
<1>8. ASSUME NEW n \in 1..Len(hasReceivedPacketQueue), HolesRunOut(n) PROVE TypeOK'
  BY <1>0, <1>8 DEF TypeOK, HolesRunOut, sender, streams
<1>9. ASSUME NEW i \in wire, Lose(i) PROVE TypeOK'
  BY <1>0, <1>9 DEF TypeOK, Lose, sender, receiver, window, streams
<1>10. ASSUME NEW a \in ackWire, LoseAck(a) PROVE TypeOK'
  BY <1>0, <1>10 DEF TypeOK, LoseAck, sender, receiver, window, streams
<1>11. CASE UNCHANGED vars
  BY <1>0, <1>11 DEF TypeOK, vars, sender, receiver, window, streams
<1> QED
  BY <1>1, <1>2, <1>3, <1>4, <1>5, <1>6, <1>7, <1>8, <1>9, <1>10, <1>11 DEF Next

LEMMA TypeInit == Init => TypeOK
<1>1. \A S : << >> \in Seq(S)
  OBVIOUS
<1> SUFFICES ASSUME Init PROVE TypeOK
  OBVIOUS
<1>2. sendPacketSet \in [Priorities -> Seq(Ids)]
  BY <1>1 DEF Init
<1>3. /\ waitingForOrderedPacketWriteIndex \in [Channels -> Nat]
      /\ waitingForSequencedPacketWriteIndex \in [Channels -> Nat]
      /\ waitingForOrderedPacketReadIndex \in [Channels -> Nat]
      /\ waitingForSequencedPacketReadIndex \in [Channels -> Nat]
      /\ orderingList \in [Channels -> SUBSET Ids]
  BY DEF Init
<1>4. /\ sent \in Seq([reliability : Reliability, channel : Channels, index : Nat])
      /\ resendQueue \in Seq(Ids)
      /\ outputQueue \in Seq(Ids)
      /\ hasReceivedPacketQueue \in Seq({ "got", "hole", "expired" })
  BY <1>1 DEF Init
<1> QED
  BY <1>2, <1>3, <1>4 DEF Init, TypeOK

\* Every reachable state has the types of TypeOK: the counters, queues and lists
\* of both halves keep their shape through every handler.
THEOREM TypeCorrect == Spec => []TypeOK
  BY TypeInit, TypeStep, PTL DEF Spec

-----------------------------------------------------------------------------
(* Arithmetic modulo NumberRange.                                          *)

LEMMA DivMod ==
    ASSUME NEW R \in Nat \ {0}, NEW x \in Int
    PROVE  /\ x % R \in 0..(R - 1)
           /\ x \div R \in Int
           /\ x = R * (x \div R) + (x % R)
  BY SMT

LEMMA OnlyZeroMultiple ==
    ASSUME NEW R \in Nat \ {0}, NEW k \in Int, R * k < R, -R < R * k
    PROVE  k = 0
  BY SMT

LEMMA RemainderUnique ==
    ASSUME NEW R \in Nat \ {0}, NEW q \in Int, NEW r \in 0..(R - 1)
    PROVE  (R * q + r) % R = r
<1> DEFINE x == R * q + r
<1>1. x \in Int
  BY SMT
<1>2. x % R \in 0..(R - 1) /\ x \div R \in Int /\ x = R * (x \div R) + (x % R)
  BY <1>1, DivMod
<1>3. R * (q - (x \div R)) = (x % R) - r
  BY <1>1, <1>2, SMT
<1>4. q - (x \div R) = 0
  BY <1>2, <1>3, OnlyZeroMultiple, SMT
<1> QED
  BY <1>2, <1>3, <1>4, SMT

\* The wrapped difference of two wrapped counters is the wrapped difference of
\* the counters.
LEMMA DifferenceWraps ==
    ASSUME NEW R \in Nat \ {0}, NEW x \in Int, NEW y \in Int
    PROVE  ((x % R) - (y % R)) % R = (x - y) % R
<1> DEFINE z == (x % R) - (y % R)
<1>1. /\ x % R \in Int /\ x \div R \in Int /\ x = R * (x \div R) + (x % R)
      /\ y % R \in Int /\ y \div R \in Int /\ y = R * (y \div R) + (y % R)
  BY DivMod
<1>2. /\ (x - y) % R \in 0..(R - 1) /\ (x - y) \div R \in Int
      /\ x - y = R * ((x - y) \div R) + ((x - y) % R)
  <2>1. \A d \in Int : /\ d % R \in 0..(R - 1) /\ d \div R \in Int
                       /\ d = R * (d \div R) + (d % R)
    BY DivMod
  <2>2. x - y \in Int
    OBVIOUS
  <2> QED
    BY <2>1, <2>2
<1> DEFINE k == ((x - y) \div R) - (x \div R) + (y \div R)
<1>3. k \in Int
  BY <1>1, <1>2
<1>4. R * k = R * ((x - y) \div R) - R * (x \div R) + R * (y \div R)
  BY <1>1, <1>2, SMT
<1>5. z = R * k + ((x - y) % R)
  BY <1>1, <1>2, <1>4, SMT
<1>6. (R * k + ((x - y) % R)) % R = (x - y) % R
  BY <1>2, <1>3, RemainderUnique
<1> QED
  BY <1>5, <1>6

LEMMA SmallRemainder ==
    ASSUME NEW R \in Nat \ {0}, NEW x \in Int
    PROVE  /\ 0 <= x /\ x < R => x % R = x
           /\ -R <= x /\ x < 0 => x % R = x + R
  BY SMT

\* Two counters less than the range apart that look the same are the same.
LEMMA NearAndAlike ==
    ASSUME NEW R \in Nat \ {0}, NEW x \in Int, NEW y \in Int,
           x % R = y % R, x - y < R, y - x < R
    PROVE  x = y
<1>1. (x - y) % R = 0
  <2>1. x % R \in Int /\ y % R \in Int
    BY DivMod
  <2>2. ((x % R) - (y % R)) % R = 0 % R
    BY <2>1
  <2>3. 0 % R = 0
    BY SmallRemainder
  <2> QED
    BY <2>2, <2>3, DifferenceWraps
<1> QED
  BY <1>1, SmallRemainder

-----------------------------------------------------------------------------
(* What the bounds say.                                                    *)

LEMMA ConstantFacts ==
    /\ NumberRange \in Nat \ {0}
    /\ Half \in Nat /\ Half < NumberRange
    /\ SendLimit \in Nat /\ WindowLimit \in Nat
    /\ SendLimit < NumberRange
  BY ConstantsAssumption DEF Half

-----------------------------------------------------------------------------
(* The duplicate check.                                                    *)

\* The window reaches no further than the messages sent.
WindowFits == receivedPacketsBaseIndex + Len(hasReceivedPacketQueue) <= messageNumber

\* What the wrapped subtraction makes of a message in flight.
LEMMA HoleCountValue ==
    ASSUME TypeOK, InUseIsRecent, WindowFits, RateIsSafe, NEW i \in wire
    PROVE  /\ i \in Nat /\ receivedPacketsBaseIndex \in Nat
           /\ HoleCount(i) \in Nat
           /\ i >= receivedPacketsBaseIndex =>
                 HoleCount(i) = i - receivedPacketsBaseIndex /\ ~CountedPast(i)
           /\ i < receivedPacketsBaseIndex => CountedPast(i)
<1> DEFINE b == receivedPacketsBaseIndex
           R == NumberRange
<1>1. i \in Ids /\ b \in Nat /\ messageNumber \in Nat
  BY DEF TypeOK, messageNumber
<1>2. i \in Nat /\ i < messageNumber
  BY <1>1 DEF Ids
<1>3. b <= messageNumber
  <2>1. Len(hasReceivedPacketQueue) \in Nat
    BY DEF TypeOK
  <2> QED
    BY <1>1, <2>1 DEF WindowFits
<1>4. messageNumber - i <= SendLimit /\ messageNumber - b <= WindowLimit + 1
  BY DEF InUseIsRecent, InUse
<1>5. i - b <= Half /\ b - i < R - Half
  BY <1>1, <1>2, <1>3, <1>4, ConstantFacts DEF RateIsSafe
<1>6. R \in Nat \ {0} /\ Half \in Nat /\ Half < R
  BY ConstantFacts
<1> HIDE DEF b, R
<1>7. i \in Int /\ b \in Int /\ i - b \in Int
  BY <1>1, <1>2
<1>8. ((i % R) - (b % R)) % R = (i - b) % R
  BY <1>6, <1>7, DifferenceWraps
<1>9. /\ 0 <= i - b => (i - b) % R = i - b
      /\ i - b < 0 => (i - b) % R = i - b + R
  <2>1. i - b < R /\ -R <= i - b
    BY <1>1, <1>2, <1>5, <1>6
  <2> QED
    BY <1>6, <1>7, <2>1, SmallRemainder
<1>10. HoleCount(i) = (i - b) % R
  BY <1>8 DEF HoleCount, b, R
<1> QED
  BY <1>1, <1>2, <1>5, <1>6, <1>9, <1>10 DEF CountedPast, b

LEMMA DuplicateIsKnown ==
    ASSUME TypeOK, InUseIsRecent, WindowIsExact, RateIsSafe, NEW i \in wire
    PROVE  /\ IsDuplicate(i) => i \in accepted \cup gaveUp
           /\ ~IsDuplicate(i) => i \notin accepted /\ i >= receivedPacketsBaseIndex
<1> DEFINE b == receivedPacketsBaseIndex
           q == hasReceivedPacketQueue
<1>1. WindowFits
  BY DEF WindowFits, WindowIsExact
<1>2. /\ i \in Nat /\ b \in Nat /\ Len(q) \in Nat /\ accepted \subseteq Nat
      /\ HoleCount(i) \in Nat
  <2>1. Len(q) \in Nat /\ accepted \subseteq Nat
    BY DEF TypeOK, Ids
  <2> QED
    BY <1>1, <2>1, HoleCountValue
<1>3. CASE i < b
  <2>1. CountedPast(i) /\ i \in 0..(b - 1)
    BY <1>2, <1>3, <1>1, HoleCountValue
  <2> QED
    BY <2>1 DEF IsDuplicate, WindowIsExact
<1>4. CASE i >= b
  <2>1. HoleCount(i) = i - b /\ ~CountedPast(i)
    BY <1>4, <1>1, HoleCountValue
  <2>2. CASE i - b < Len(q)
    <3>1. i - b + 1 \in 1..Len(q) /\ b + (i - b + 1) - 1 = i
      BY <1>2, <1>4, <2>2
    <3>2. q[i - b + 1] = "got" <=> i \in accepted
      BY <3>1 DEF WindowIsExact
    <3>3. i - b = 0 => q[i - b + 1] # "got"
      BY <1>2, <2>2 DEF WindowIsExact
    <3> QED
      BY <1>4, <2>1, <2>2, <3>2, <3>3 DEF IsDuplicate, AlreadyGot
  <2>3. CASE i - b >= Len(q)
    <3>1. i \notin accepted
      BY <1>2, <2>3 DEF WindowIsExact
    <3>2. ~AlreadyGot(i)
      BY <1>2, <2>1, <2>3 DEF AlreadyGot
    <3> QED
      BY <1>4, <2>1, <3>1, <3>2 DEF IsDuplicate
  <2> QED
    BY <1>2, <2>2, <2>3
<1> QED
  BY <1>2, <1>3, <1>4

\* Entering a message that is not a duplicate keeps the window exact.
LEMMA AcceptKeepsWindow ==
    ASSUME TypeOK, InUseIsRecent, WindowIsExact, RateIsSafe,
           NEW i \in wire, ~IsDuplicate(i), Accept(i), UNCHANGED sent
    PROVE  /\ WindowIsExact'
           /\ accepted' = accepted \cup { i }
           /\ gaveUp \subseteq gaveUp'
           /\ receivedPacketsBaseIndex' >= receivedPacketsBaseIndex
           /\ \A j \in gaveUp' :
                 j \in gaveUp \/ (j < receivedPacketsBaseIndex' /\ j \notin accepted')
<1> DEFINE b == receivedPacketsBaseIndex
           q == hasReceivedPacketQueue
           h == HoleCount(i)
           w == Entered(i)
           c == b + (IF h = 0 THEN 1 ELSE 0)
           S == { "got", "hole", "expired" }
<1>1. /\ i \in Nat /\ b \in Nat /\ h \in Nat /\ h = i - b
      /\ i \notin accepted
  <2>1. WindowFits
    BY DEF WindowFits, WindowIsExact
  <2> QED
    BY <2>1, HoleCountValue, DuplicateIsKnown
<1>2. /\ q \in Seq(S) /\ Len(q) \in Nat /\ accepted \subseteq Nat
      /\ messageNumber \in Nat /\ i < messageNumber
  <2>1. i \in Ids
    BY DEF TypeOK
  <2>2. messageNumber \in Nat
    BY DEF TypeOK, messageNumber
  <2> QED
    BY <2>1, <2>2 DEF TypeOK, Ids
<1>3. /\ b + Len(q) <= messageNumber
      /\ \A k \in 1..Len(q) : q[k] = "got" <=> b + k - 1 \in accepted
      /\ Len(q) > 0 => q[1] # "got"
      /\ \A j \in 0..(b - 1) : j \in accepted \cup gaveUp
      /\ \A j \in accepted : j < b + Len(q)
  BY DEF WindowIsExact
<1>4. c \in Nat
  BY <1>1
<1> HIDE DEF b, h
\* the window and its base once message i is entered
<1>5. /\ w \in Seq(S) /\ Len(w) \in Nat
      /\ c + Len(w) <= messageNumber
      /\ \A k \in 1..Len(w) : w[k] = "got" <=> c + k - 1 \in accepted \cup { i }
      /\ \A j \in 0..(c - 1) : j \in accepted \cup { i } \cup gaveUp
      /\ \A j \in accepted \cup { i } : j < c + Len(w)
  <2>1. CASE h = 0
    <3>1. i = b /\ c = b + 1
      BY <1>1, <2>1
    <3>2. CASE q = << >>
      <4>1. w = << >> /\ Len(w) = 0 /\ Len(q) = 0
        BY <2>1, <3>2 DEF Entered, h
      <4>2. \A j \in accepted : j < b
        BY <1>1, <1>2, <1>3, <4>1
      <4>3. \A j \in 0..(c - 1) : j = i \/ j \in 0..(b - 1)
        BY <1>1, <3>1
      <4>4. w \in Seq(S)
        BY <4>1
      <4> QED
        BY <1>1, <1>2, <1>3, <3>1, <4>1, <4>2, <4>3, <4>4
    <3>3. CASE q # << >>
      <4>1. /\ w = Tail(q) /\ w \in Seq(S) /\ Len(w) = Len(q) - 1
            /\ \A k \in 1..Len(w) : k + 1 \in 1..Len(q) /\ w[k] = q[k + 1]
        BY <1>2, <2>1, <3>3 DEF Entered, h
      <4>2. c + Len(w) = b + Len(q) /\ Len(w) \in Nat
        BY <1>1, <1>2, <3>1, <3>3, <4>1
      <4>3. \A k \in 1..Len(w) : w[k] = "got" <=> c + k - 1 \in accepted
        BY <1>1, <1>2, <1>3, <3>1, <4>1, <4>2
      <4>4. \A k \in 1..Len(w) : c + k - 1 # i
        BY <1>1, <3>1, <4>2
      <4>5. \A j \in 0..(c - 1) : j = i \/ j \in 0..(b - 1)
        BY <1>1, <3>1
      <4> QED
        BY <1>1, <1>2, <1>3, <3>1, <3>3, <4>1, <4>2, <4>3, <4>4, <4>5
    <3> QED
      BY <3>2, <3>3
  <2>2. CASE h # 0 /\ h < Len(q)
    <3>1. c = b /\ i = b + h /\ h + 1 \in 1..Len(q)
      BY <1>1, <1>2, <2>2
    <3>2. w = [q EXCEPT ![h + 1] = "got"]
      BY <2>2 DEF Entered, h
    <3>3. /\ w \in Seq(S) /\ Len(w) = Len(q)
          /\ w[h + 1] = "got"
          /\ \A k \in 1..Len(q) : k # h + 1 => w[k] = q[k]
      BY <1>2, <3>1, <3>2
    <3>4. \A k \in 1..Len(w) : w[k] = "got" <=> c + k - 1 \in accepted \cup { i }
      BY <1>1, <1>2, <1>3, <3>1, <3>3
    <3> QED
      BY <1>1, <1>2, <1>3, <3>1, <3>3, <3>4
  <2>3. CASE h # 0 /\ h >= Len(q)
    <3>1. c = b /\ i = b + h
      BY <1>1, <2>3
    <3> DEFINE f == [n \in 1..(h + 1) |-> IF n <= Len(q) THEN q[n]
                                         ELSE IF n <= h THEN "hole" ELSE "got"]
    <3>2. w = f
      BY <1>1, <1>2, <2>3 DEF Entered, h
    <3>3. f \in [1..(h + 1) -> S]
      <4>1. \A n \in 1..(h + 1) : n <= Len(q) => q[n] \in S
        BY <1>1, <1>2
      <4> QED
        BY <4>1
    <3>4. w \in Seq(S) /\ Len(w) = h + 1
      <4> HIDE DEF f
      <4> QED
        BY <1>1, <3>2, <3>3
    <3>5. \A n \in 1..(h + 1) : w[n] = IF n <= Len(q) THEN q[n]
                                         ELSE IF n <= h THEN "hole" ELSE "got"
      BY <3>2
    <3>6. \A k \in 1..Len(w) : w[k] = "got" <=> c + k - 1 \in accepted \cup { i }
      <4> SUFFICES ASSUME NEW k \in 1..Len(w)
                   PROVE  w[k] = "got" <=> c + k - 1 \in accepted \cup { i }
        OBVIOUS
      <4>1. k \in 1..(h + 1) /\ k \in Nat
        BY <1>1, <3>4
      <4>2. CASE k <= Len(q)
        <5>1. k \in 1..Len(q) /\ b + k - 1 # i
          BY <1>1, <1>2, <2>3, <3>1, <4>1, <4>2
        <5> QED
          BY <1>3, <3>1, <3>5, <4>1, <4>2, <5>1
      <4>3. CASE k > Len(q) /\ k <= h
        <5>1. b + k - 1 # i /\ b + k - 1 >= b + Len(q)
          BY <1>1, <1>2, <3>1, <4>1, <4>3
        <5>2. b + k - 1 \notin accepted
          BY <1>1, <1>2, <1>3, <4>1, <5>1
        <5>3. w[k] = "hole"
          BY <1>2, <3>5, <4>1, <4>3
        <5> QED
          BY <3>1, <5>1, <5>2, <5>3
      <4>4. CASE k = h + 1 /\ k > Len(q)
        BY <1>1, <1>2, <3>1, <3>5, <4>1, <4>4
      <4> QED
        BY <1>1, <1>2, <2>3, <4>1, <4>2, <4>3, <4>4
    <3>7. \A j \in accepted \cup { i } : j < c + Len(w)
      BY <1>1, <1>2, <1>3, <2>3, <3>1, <3>4
    <3> QED
      BY <1>1, <1>2, <1>3, <3>1, <3>4, <3>6, <3>7
  <2> QED
    BY <1>1, <1>2, <2>1, <2>2, <2>3
\* the closed entries at its head are popped
<1>6. PICK n \in 0..Len(w) :
            /\ Closed(w, n)
            /\ receivedPacketsBaseIndex' = c + n
            /\ hasReceivedPacketQueue' = Without(w, n)
            /\ gaveUp' = gaveUp \cup { c + m - 1 : m \in { k \in 1..n : w[k] = "expired" } }
            /\ accepted' = accepted \cup { i }
  BY DEF Accept, b, h
<1> HIDE DEF w, c
<1>7. n \in Nat /\ n <= Len(w)
  BY <1>5, <1>6
<1>8. /\ Len(hasReceivedPacketQueue') = Len(w) - n
      /\ \A k \in 1..(Len(w) - n) : hasReceivedPacketQueue'[k] = w[n + k]
  <2>1. w \in Seq({ "got", "hole", "expired" }) /\ n \in 0..Len(w)
    BY <1>5, <1>6
  <2>2. hasReceivedPacketQueue' = Without(w, n)
    BY <1>6
  <2> QED
    BY <2>1, <2>2, WithoutType
<1>9. \A k \in 1..Len(hasReceivedPacketQueue') :
         hasReceivedPacketQueue'[k] = "got"
            <=> receivedPacketsBaseIndex' + k - 1 \in accepted'
  <2> SUFFICES ASSUME NEW k \in 1..Len(hasReceivedPacketQueue')
               PROVE  hasReceivedPacketQueue'[k] = "got"
                         <=> receivedPacketsBaseIndex' + k - 1 \in accepted'
    OBVIOUS
  <2>1. k \in 1..(Len(w) - n) /\ n + k \in 1..Len(w)
    BY <1>5, <1>7, <1>8
  <2>2. w[n + k] = "got" <=> c + (n + k) - 1 \in accepted \cup { i }
    BY <1>5, <2>1
  <2>3. receivedPacketsBaseIndex' + k - 1 = c + (n + k) - 1
    BY <1>4, <1>6, <1>7, <2>1
  <2> QED
    BY <1>6, <1>8, <2>1, <2>2, <2>3
<1>10. Len(hasReceivedPacketQueue') > 0 => hasReceivedPacketQueue'[1] # "got"
  <2> SUFFICES ASSUME Len(hasReceivedPacketQueue') > 0
               PROVE  hasReceivedPacketQueue'[1] # "got"
    OBVIOUS
  <2>1. n < Len(w) /\ 1 \in 1..(Len(w) - n)
    BY <1>5, <1>7, <1>8
  <2>2. w[n + 1] = "hole"
    BY <1>6, <2>1 DEF Closed
  <2> QED
    BY <1>8, <2>1, <2>2
<1>11. \A j \in 0..(receivedPacketsBaseIndex' - 1) : j \in accepted' \cup gaveUp'
  <2> SUFFICES ASSUME NEW j \in 0..(receivedPacketsBaseIndex' - 1)
               PROVE  j \in accepted' \cup gaveUp'
    OBVIOUS
  <2>1. CASE j < c
    BY <1>4, <1>5, <1>6, <2>1
  <2>2. CASE j >= c
    <3> DEFINE m == j - c + 1
    <3>1. m \in 1..n /\ c + m - 1 = j /\ m \in 1..Len(w)
      BY <1>4, <1>5, <1>6, <1>7, <2>2
    <3>2. w[m] # "hole" /\ w[m] \in S
      BY <1>5, <1>6, <3>1 DEF Closed
    <3> HIDE DEF m
    <3>3. CASE w[m] = "got"
      BY <1>5, <1>6, <3>1, <3>3
    <3>4. CASE w[m] = "expired"
      BY <1>6, <3>1, <3>4
    <3> QED
      BY <3>2, <3>3, <3>4
  <2> QED
    BY <1>4, <1>6, <1>7, <2>1, <2>2
<1>12. /\ receivedPacketsBaseIndex' + Len(hasReceivedPacketQueue') = c + Len(w)
       /\ receivedPacketsBaseIndex' >= b
  BY <1>1, <1>4, <1>5, <1>6, <1>7, <1>8 DEF c
<1>13. messageNumber' = messageNumber
  BY DEF messageNumber
<1>14. WindowIsExact'
  BY <1>5, <1>6, <1>9, <1>10, <1>11, <1>12, <1>13 DEF WindowIsExact
<1>15. ASSUME NEW m \in 1..n, w[m] = "expired"
       PROVE  c + m - 1 < c + n /\ c + m - 1 \notin accepted'
  <2>1. m \in 1..Len(w) /\ c + m - 1 < c + n
    BY <1>4, <1>5, <1>7
  <2>2. w[m] # "got"
    BY <1>15
  <2> QED
    BY <1>5, <1>6, <2>1, <2>2
<1>16. ASSUME NEW j \in gaveUp', j \notin gaveUp
       PROVE  j < receivedPacketsBaseIndex' /\ j \notin accepted'
  <2>1. PICK m \in 1..n : w[m] = "expired" /\ j = c + m - 1
    BY <1>6, <1>16
  <2> QED
    BY <1>6, <1>15, <2>1
<1> QED
  BY <1>6, <1>12, <1>14, <1>16 DEF b

-----------------------------------------------------------------------------
(* Handing up.                                                             *)

\* The messages of a run are distinct: their indexes are less than the range apart.
LEMMA RunIsDistinct ==
    ASSUME NEW n \in 0..(NumberRange - 1), NEW c \in Channels, NEW x \in Nat,
           NEW run \in [1..n -> orderingList[c]], IsRun(run, n, c, x),
           NEW k \in 1..n, NEW l \in 1..n, run[k] = run[l]
    PROVE  k = l
<1>1. NumberRange \in Nat \ {0} /\ n \in Nat
  BY ConstantFacts
<1>2. (x + k) % NumberRange = (x + l) % NumberRange
  BY DEF IsRun, Buffered
<1>3. x + k \in Int /\ x + l \in Int
  BY <1>1
<1>4. (x + k) - (x + l) < NumberRange /\ (x + l) - (x + k) < NumberRange
  BY <1>1
<1>5. x + k = x + l
  BY <1>1, <1>2, <1>3, <1>4, NearAndAlike
<1> QED
  BY <1>1, <1>5

\* t holds the entries of s, then e, then the entries of r.
Joins(t, s, e, r) ==
    /\ Len(s) \in Nat /\ Len(r) \in Nat
    /\ Len(t) = Len(s) + 1 + Len(r)
    /\ \A m \in 1..Len(s) : t[m] = s[m]
    /\ t[Len(s) + 1] = e
    /\ \A k \in 1..Len(r) : t[Len(s) + 1 + k] = r[k]
    /\ \A m \in 1..Len(t) : \/ m \in 1..Len(s)
                           \/ m = Len(s) + 1
                           \/ \E k \in 1..Len(r) : m = Len(s) + 1 + k

LEMMA AppendRun ==
    ASSUME NEW S, NEW s \in Seq(S), NEW e \in S, NEW r \in Seq(S),
           NEW t, t = Append(s, e) \o r
    PROVE  Joins(t, s, e, r)
<1> DEFINE a == Append(s, e)
<1>1. /\ a \in Seq(S) /\ Len(a) = Len(s) + 1 /\ Len(s) \in Nat /\ Len(r) \in Nat
      /\ a[Len(s) + 1] = e
      /\ \A m \in 1..Len(s) : a[m] = s[m]
  OBVIOUS
<1>2. t = a \o r
  OBVIOUS
<1> HIDE DEF a
<1>3. /\ Len(t) = Len(a) + Len(r)
      /\ \A m \in 1..Len(a) : t[m] = a[m]
      /\ \A k \in 1..Len(r) : t[Len(a) + k] = r[k]
  <2>1. /\ Len(a \o r) = Len(a) + Len(r)
        /\ \A m \in 1..(Len(a) + Len(r)) :
              (a \o r)[m] = IF m <= Len(a) THEN a[m] ELSE r[m - Len(a)]
    BY <1>1, ConcatProperties
  <2> QED
    BY <1>1, <1>2, <2>1
<1>4. \A m \in 1..Len(s) : m \in 1..Len(a)
  BY <1>1
<1>5. Len(s) + 1 \in 1..Len(a)
  BY <1>1
<1>6. ASSUME NEW m \in 1..Len(t), m \notin 1..Len(s), m # Len(s) + 1
      PROVE  \E k \in 1..Len(r) : m = Len(s) + 1 + k
  <2>1. m - (Len(s) + 1) \in 1..Len(r) /\ m = Len(s) + 1 + (m - (Len(s) + 1))
    BY <1>1, <1>3, <1>6
  <2> QED
    BY <2>1
<1> QED
  BY <1>1, <1>3, <1>4, <1>5, <1>6 DEF Joins

Distinct(s) == \A m, n \in 1..Len(s) : s[m] = s[n] => m = n

Avoids(s, e) == \A m \in 1..Len(s) : s[m] # e

\* Distinct entries followed by others that are distinct stay distinct.
LEMMA AppendRunDistinct ==
    ASSUME NEW S, NEW s \in Seq(S), NEW e \in S, NEW r \in Seq(S),
           NEW t, t = Append(s, e) \o r,
           Distinct(s), Distinct(r), Avoids(s, e), Avoids(r, e),
           \A k \in 1..Len(r) : Avoids(s, r[k])
    PROVE  Distinct(t)
<1> DEFINE L == Len(s)
<1>0. Joins(t, s, e, r)
  BY AppendRun
<1>1. /\ \A m \in 1..L : t[m] = s[m]
      /\ t[L + 1] = e
      /\ \A k \in 1..Len(r) : t[L + 1 + k] = r[k]
      /\ \A m \in 1..Len(t) : \/ m \in 1..L
                             \/ m = L + 1
                             \/ \E k \in 1..Len(r) : m = L + 1 + k
  BY <1>0 DEF Joins
<1> HIDE DEF L
<1> USE DEF Distinct, Avoids
<1> SUFFICES ASSUME NEW m \in 1..Len(t), NEW n \in 1..Len(t), t[m] = t[n]
             PROVE  m = n
  OBVIOUS
<1>2. CASE m \in 1..L
  <2>1. CASE n \in 1..L
    BY <1>1, <1>2, <2>1 DEF L
  <2>2. CASE n = L + 1
    BY <1>1, <1>2, <2>2 DEF L
  <2>3. ASSUME NEW k \in 1..Len(r), n = L + 1 + k PROVE FALSE
    <3>1. t[n] = r[k] /\ t[m] = s[m]
      BY <1>1, <1>2, <2>3
    <3> QED
      BY <1>2, <3>1 DEF L
  <2> QED
    BY <1>1, <2>1, <2>2, <2>3
<1>3. CASE m = L + 1
  <2>1. CASE n \in 1..L
    BY <1>1, <1>3, <2>1 DEF L
  <2>2. CASE n = L + 1
    BY <1>3, <2>2
  <2>3. ASSUME NEW k \in 1..Len(r), n = L + 1 + k PROVE FALSE
    BY <1>1, <1>3, <2>3
  <2> QED
    BY <1>1, <2>1, <2>2, <2>3
<1>4. ASSUME NEW j \in 1..Len(r), m = L + 1 + j PROVE m = n
  <2>0. t[m] = r[j]
    BY <1>1, <1>4
  <2>1. CASE n \in 1..L
    <3>1. t[n] = s[n]
      BY <1>1, <2>1
    <3> QED
      BY <2>0, <2>1, <3>1 DEF L
  <2>2. CASE n = L + 1
    BY <1>1, <2>0, <2>2
  <2>3. ASSUME NEW k \in 1..Len(r), n = L + 1 + k PROVE m = n
    <3>1. t[n] = r[k]
      BY <1>1, <2>3
    <3>2. j = k
      BY <2>0, <3>1
    <3> QED
      BY <1>4, <2>3, <3>2
  <2> QED
    BY <1>1, <2>1, <2>2, <2>3
<1> QED
  BY <1>1, <1>2, <1>3, <1>4

\* A message that was not accepted before is handed up or held once.
LEMMA PassUpKeepsOnce ==
    ASSUME TypeOK, HeldOnce, OutputOnce, UNCHANGED sent,
           NEW i \in Ids, i \notin accepted, accepted' = accepted \cup { i },
           PassUpSequenced(i) \/ PassUpOrdered(i) \/ PassUpOther(i)
    PROVE  HeldOnce' /\ OutputOnce'
<1> DEFINE c == Message(i).channel
           out == outputQueue
<1>1. c \in Channels /\ Message(i).index \in Nat
  BY MessageType
<1>2. out \in Seq(Ids) /\ Len(out) \in Nat /\ Ids \subseteq Nat
  BY DEF TypeOK, Ids
<1>3. \A j : Message(j)' = Message(j)
  BY DEF Message
<1>4. \A n \in 1..Len(out) : out[n] \in accepted /\ out[n] # i
  BY DEF HeldOnce
<1>5. \A d \in Channels : \A j \in orderingList[d] :
          /\ j \in accepted /\ j # i
          /\ Message(j).channel = d
          /\ \A n \in 1..Len(out) : out[n] # j
  BY DEF HeldOnce
<1>6. ASSUME UNCHANGED << orderingList, outputQueue >> PROVE HeldOnce' /\ OutputOnce'
  BY <1>3, <1>4, <1>5, <1>6 DEF HeldOnce, OutputOnce
<1>7. ASSUME UNCHANGED orderingList, outputQueue' = Append(outputQueue, i)
      PROVE  HeldOnce' /\ OutputOnce'
  <2>1. /\ Len(out') = Len(out) + 1 /\ out'[Len(out) + 1] = i
        /\ \A n \in 1..Len(out) : out'[n] = out[n]
    BY <1>2, <1>7
  <2>2. \A n \in 1..Len(out') : n \in 1..Len(out) \/ n = Len(out) + 1
    BY <1>2, <2>1
  <2>3. OutputOnce'
    BY <1>2, <1>4, <2>1, <2>2 DEF OutputOnce
  <2>4. HeldOnce'
    BY <1>3, <1>4, <1>5, <1>7, <2>1, <2>2 DEF HeldOnce
  <2> QED
    BY <2>3, <2>4
<1>8. CASE PassUpSequenced(i)
  BY <1>6, <1>7, <1>8 DEF PassUpSequenced
<1>9. CASE PassUpOther(i)
  BY <1>7, <1>9 DEF PassUpOther
<1>10. CASE PassUpOrdered(i)
  <2> DEFINE waiting == waitingForOrderedPacketReadIndex[c]
  <2>0. waiting \in Nat
    BY <1>1 DEF TypeOK
  <2>1. CASE Message(i).index % NumberRange # waiting % NumberRange
    <3>1. /\ orderingList' = [orderingList EXCEPT ![c] = @ \cup { i }]
          /\ outputQueue' = outputQueue
      BY <1>10, <2>1 DEF PassUpOrdered
    <3>2. OutputOnce'
      BY <3>1 DEF OutputOnce
    <3>3. \A d \in Channels : \A j \in orderingList'[d] :
             j \in orderingList[d] \/ (j = i /\ d = c)
      BY <3>1 DEF TypeOK
    <3>4. HeldOnce'
      BY <1>3, <1>4, <1>5, <3>1, <3>3 DEF HeldOnce
    <3> QED
      BY <3>2, <3>4
  <2>2. CASE Message(i).index % NumberRange = waiting % NumberRange
    <3>0. PICK n \in 0..(NumberRange - 1) : \E run \in [1..n -> orderingList[c]] :
            /\ IsRun(run, n, c, waiting)
            /\ outputQueue' = Append(outputQueue, i) \o run
            /\ orderingList' =
                  [orderingList EXCEPT ![c] = @ \ { run[k] : k \in 1..n }]
      BY <1>10, <2>2 DEF PassUpOrdered
    <3>1. PICK run \in [1..n -> orderingList[c]] :
            /\ IsRun(run, n, c, waiting)
            /\ outputQueue' = Append(outputQueue, i) \o run
            /\ orderingList' =
                  [orderingList EXCEPT ![c] = @ \ { run[k] : k \in 1..n }]
      BY <3>0
    <3>2. n \in Nat /\ Len(run) = n /\ run \in Seq(Ids)
      <4>1. n \in Nat
        BY ConstantFacts
      <4>2. orderingList[c] \subseteq Ids
        BY <1>1 DEF TypeOK
      <4> QED
        BY <4>1, <4>2
    <3>3. \A k \in 1..n : run[k] \in orderingList[c]
      OBVIOUS
    <3>4. \A k, l \in 1..n : run[k] = run[l] => k = l
      <4> SUFFICES ASSUME NEW k \in 1..n, NEW l \in 1..n, run[k] = run[l] PROVE k = l
        OBVIOUS
      <4>1. IsRun(run, n, c, waiting) /\ run \in [1..n -> orderingList[c]]
        BY <3>1
      <4> HIDE DEF c, waiting
      <4> QED
        BY <1>1, <2>0, <4>1, RunIsDistinct
    <3> DEFINE L == Len(out)
               next == outputQueue'
    <3> HIDE DEF c, waiting
    <3>5. next = Append(out, i) \o run
      BY <3>1
    <3> HIDE DEF out, next
    <3>6. /\ \A m \in 1..L : next[m] = out[m]
          /\ next[L + 1] = i
          /\ \A k \in 1..n : next[L + 1 + k] = run[k]
          /\ \A m \in 1..Len(next) : \/ m \in 1..L
                                    \/ m = L + 1
                                    \/ \E k \in 1..n : m = L + 1 + k
      <4>1. Joins(next, out, i, run)
        BY <1>2, <3>2, <3>5, AppendRun
      <4> QED
        BY <3>2, <4>1 DEF Joins
    <3>7. \A k \in 1..n : run[k] \in accepted /\ run[k] # i
                         /\ \A m \in 1..Len(out) : out[m] # run[k]
      BY <1>1, <1>5, <3>3
    <3>8. Distinct(next)
      <4>1. Distinct(out)
        BY DEF OutputOnce, Distinct, out
      <4>2. Distinct(run)
        BY <3>2, <3>4 DEF Distinct
      <4>3. Avoids(out, i)
        BY <1>4 DEF Avoids
      <4>4. Avoids(run, i) /\ \A k \in 1..Len(run) : Avoids(out, run[k])
        BY <3>2, <3>7 DEF Avoids
      <4> QED
        BY <1>2, <3>2, <3>5, <4>1, <4>2, <4>3, <4>4, AppendRunDistinct
    <3>9. \A m \in 1..Len(next) : next[m] \in accepted'
      <4> SUFFICES ASSUME NEW m \in 1..Len(next) PROVE next[m] \in accepted'
        OBVIOUS
      <4>1. CASE m \in 1..L
        BY <1>4, <3>6, <4>1 DEF L
      <4>2. CASE m = L + 1
        BY <1>4, <3>6, <4>2
      <4>3. CASE \E k \in 1..n : m = L + 1 + k
        BY <1>4, <3>6, <3>7, <4>3
      <4> QED
        BY <3>6, <4>1, <4>2, <4>3
    <3>10. \A d \in Channels : \A j \in orderingList'[d] :
             /\ j \in orderingList[d]
             /\ \A k \in 1..n : j # run[k]
      <4> SUFFICES ASSUME NEW d \in Channels, NEW j \in orderingList'[d]
                   PROVE  j \in orderingList[d] /\ \A k \in 1..n : j # run[k]
        OBVIOUS
      <4>1. CASE d = c
        BY <1>1, <3>1, <4>1 DEF TypeOK
      <4>2. CASE d # c
        <5>1. j \in orderingList[d]
          BY <1>1, <3>1, <4>2 DEF TypeOK
        <5> QED
          BY <1>1, <1>5, <3>3, <4>2, <5>1
      <4> QED
        BY <4>1, <4>2
    <3>11. \A d \in Channels : \A j \in orderingList'[d] :
             /\ j \in accepted'
             /\ Message(j)'.channel = d
             /\ \A m \in 1..Len(next) : next[m] # j
      <4> SUFFICES ASSUME NEW d \in Channels, NEW j \in orderingList'[d]
                   PROVE  /\ j \in accepted'
                          /\ Message(j)'.channel = d
                          /\ \A m \in 1..Len(next) : next[m] # j
        OBVIOUS
      <4>1. /\ j \in accepted /\ j # i /\ Message(j).channel = d
            /\ \A m \in 1..Len(out) : out[m] # j
            /\ \A k \in 1..n : run[k] # j
        BY <1>5, <3>10
      <4>2. ASSUME NEW m \in 1..Len(next) PROVE next[m] # j
        <5>1. CASE m \in 1..L
          BY <3>6, <4>1, <5>1 DEF L
        <5>2. CASE m = L + 1
          BY <3>6, <4>1, <5>2
        <5>3. ASSUME NEW k \in 1..n, m = L + 1 + k PROVE next[m] # j
          BY <3>6, <4>1, <5>3
        <5> QED
          BY <3>6, <5>1, <5>2, <5>3
      <4> QED
        BY <1>3, <4>1, <4>2
    <3> QED
      BY <3>8, <3>9, <3>11 DEF HeldOnce, OutputOnce, Distinct, next
  <2> QED
    BY <2>1, <2>2
<1> QED
  BY <1>8, <1>9, <1>10

-----------------------------------------------------------------------------
(* Each step preserves the inductive invariant.                            *)

\* A call to Send queues the new message.
LEMMA SendQueues ==
    ASSUME TypeOK, NEW k \in Traffic, Send(k)
    PROVE  /\ messageNumber \in Nat /\ messageNumber' = messageNumber + 1
           /\ QueuedIds \subseteq QueuedIds' /\ QueuedIds' \subseteq QueuedIds \cup { messageNumber }
           /\ messageNumber \in QueuedIds'
           /\ QueuedIds \subseteq Ids
<1>1. k \in Kinds /\ k.priority \in Priorities
  BY ConstantsAssumption DEF Kinds
<1>2. messageNumber \in Nat /\ messageNumber' = messageNumber + 1
  BY DEF TypeOK, Send, messageNumber
<1> DEFINE p == k.priority
           s == sendPacketSet[p]
<1>3. /\ sendPacketSet'[p] = Append(s, messageNumber)
      /\ \A r \in Priorities : r # p => sendPacketSet'[r] = sendPacketSet[r]
      /\ s \in Seq(Ids)
  BY <1>1 DEF Send, TypeOK
<1>4. /\ Len(sendPacketSet'[p]) = Len(s) + 1 /\ Len(s) \in Nat
      /\ sendPacketSet'[p][Len(s) + 1] = messageNumber
      /\ \A n \in 1..Len(s) : sendPacketSet'[p][n] = s[n]
  BY <1>3
<1>5. \A n \in 1..(Len(s) + 1) : n \in 1..Len(s) \/ n = Len(s) + 1
  BY <1>4
<1>6. \A n \in 1..Len(s) : n \in 1..(Len(s) + 1)
  BY <1>4
<1>7. Len(s) + 1 \in 1..(Len(s) + 1)
  BY <1>4
<1>8. ASSUME NEW i \in QueuedIds PROVE i \in QueuedIds'
  <2>1. PICK r \in Priorities : \E n \in 1..Len(sendPacketSet[r]) : sendPacketSet[r][n] = i
    BY <1>8 DEF QueuedIds
  <2>2. \E n \in 1..Len(sendPacketSet'[r]) : sendPacketSet'[r][n] = i
    BY <1>3, <1>4, <1>6, <2>1
  <2> QED
    BY <2>2 DEF QueuedIds
<1>9. ASSUME NEW i \in QueuedIds' PROVE i \in QueuedIds \cup { messageNumber }
  <2>1. PICK r \in Priorities : \E n \in 1..Len(sendPacketSet'[r]) : sendPacketSet'[r][n] = i
    BY <1>9 DEF QueuedIds
  <2>2. i = messageNumber \/ \E n \in 1..Len(sendPacketSet[r]) : sendPacketSet[r][n] = i
    BY <1>3, <1>4, <1>5, <2>1
  <2> QED
    BY <2>2 DEF QueuedIds
<1>10. messageNumber \in QueuedIds'
  BY <1>1, <1>4, <1>7 DEF QueuedIds
<1>11. QueuedIds \subseteq Ids
  <2> SUFFICES ASSUME NEW i \in QueuedIds PROVE i \in Ids
    OBVIOUS
  <2>1. PICK r \in Priorities : \E n \in 1..Len(sendPacketSet[r]) : sendPacketSet[r][n] = i
    BY DEF QueuedIds
  <2>2. sendPacketSet[r] \in Seq(Ids)
    BY DEF TypeOK
  <2> QED
    BY <2>1, <2>2
<1> QED
  BY <1>2, <1>8, <1>9, <1>10, <1>11

\* The bound on the sending rate is checked by each call to Send.
LEMMA SendKeepsRecent ==
    ASSUME TypeOK, NEW k \in Traffic, Send(k) PROVE InUseIsRecent'
<1>1. /\ messageNumber \in Nat /\ messageNumber' = messageNumber + 1
      /\ QueuedIds' \subseteq QueuedIds \cup { messageNumber }
      /\ QueuedIds \subseteq Ids
  BY SendQueues
<1>2. UNCHANGED << resendList, wire, ackWire, acknowlegements, receivedPacketsBaseIndex >>
  BY DEF Send, receiver, window
<1>3. InUse' \subseteq InUse \cup { messageNumber }
  BY <1>1, <1>2 DEF InUse
<1>4. InUse \subseteq Nat /\ SendLimit >= 1 /\ SendLimit \in Nat /\ WindowLimit \in Nat
  <2>1. Ids \subseteq Nat
    BY DEF Ids
  <2> QED
    BY <1>1, <2>1, ConstantsAssumption DEF InUse, TypeOK
<1>5. \A i \in InUse' : messageNumber' - i <= SendLimit
  <2>1. \A i \in InUse : messageNumber - i < SendLimit
    BY DEF Send, RateAllows
  <2> QED
    BY <1>1, <1>3, <1>4, <2>1
<1>6. messageNumber' - receivedPacketsBaseIndex' <= WindowLimit + 1
  BY <1>1, <1>2, <1>4 DEF Send, RateAllows, TypeOK
<1> QED
  BY <1>5, <1>6 DEF InUseIsRecent

LEMMA SendKeepsIInv == ASSUME IInv, NEW k \in Traffic, Send(k) PROVE IInv'
<1> USE DEF IInv
<1>1. TypeOK'
  BY SendType
<1>2. /\ messageNumber \in Nat /\ messageNumber' = messageNumber + 1
      /\ \A i \in Ids : Message(i)' = Message(i)
  BY DEF TypeOK, Send, messageNumber, Message, Ids
<1>3. UNCHANGED << resendList, wire, ackWire, window, acknowlegements, streams >>
  BY DEF Send, receiver
<1>4. QueuedIds \subseteq QueuedIds' /\ messageNumber \in QueuedIds'
  BY SendQueues
<1>5. InUseIsRecent'
  BY SendKeepsRecent
<1>6. WindowIsExact'
  <2>1. Len(hasReceivedPacketQueue) \in Nat /\ receivedPacketsBaseIndex \in Nat
    BY DEF TypeOK
  <2> QED
    BY <1>2, <1>3, <2>1 DEF WindowIsExact, window
<1>7. AcksAreTrue'
  BY <1>3 DEF AcksAreTrue, window
<1>8. AckedIsAccepted'
  <2> SUFFICES ASSUME NEW i \in Ids', Reliable(i)', i \notin QueuedIds', i \notin resendList'
               PROVE  i \in accepted' \cup gaveUp'
    BY DEF AckedIsAccepted
  <2>1. i \in Ids
    BY <1>2, <1>4 DEF Ids
  <2>2. Reliable(i) /\ i \notin QueuedIds /\ i \notin resendList
    BY <1>2, <1>3, <1>4, <2>1 DEF Reliable
  <2> QED
    BY <1>3, <2>1, <2>2 DEF AckedIsAccepted, window
<1>9. HeldOnce'
  <2>1. \A c \in Channels : \A j \in orderingList[c] : Message(j)' = Message(j)
    BY <1>2 DEF TypeOK
  <2> QED
    BY <1>3, <2>1 DEF HeldOnce, window, streams
<1>10. OutputOnce'
  BY <1>3 DEF OutputOnce, streams
<1> QED
  BY <1>1, <1>5, <1>6, <1>7, <1>8, <1>9, <1>10

\* Steps that leave the receiver and the messages alone keep what is said of them.
LEMMA ReceiverUntouched ==
    ASSUME IInv, UNCHANGED << sent, receiver >>, InUse' \subseteq InUse
    PROVE  InUseIsRecent' /\ WindowIsExact' /\ HeldOnce' /\ OutputOnce'
<1>1. messageNumber' = messageNumber
  BY DEF messageNumber
<1>2. InUseIsRecent'
  BY <1>1 DEF IInv, InUseIsRecent, receiver, window
<1>3. WindowIsExact'
  BY <1>1 DEF IInv, WindowIsExact, receiver, window
<1>4. HeldOnce' /\ OutputOnce'
  BY DEF IInv, HeldOnce, OutputOnce, receiver, window, streams, Message
<1> QED
  BY <1>2, <1>3, <1>4

\* Transmit takes one message i off its queue.
LEMMA TransmitMoves ==
    ASSUME TypeOK, Transmit
    PROVE  \E i \in QueuedIds :
              /\ QueuedIds' \subseteq QueuedIds /\ QueuedIds \subseteq QueuedIds' \cup { i }
              /\ wire' = wire \cup { i }
              /\ \/ resendList' = resendList \cup { i }
                 \/ ~Reliable(i) /\ resendList' = resendList
<1>1. PICK p \in Priorities :
        /\ sendPacketSet[p] # << >>
        /\ sendPacketSet' = [sendPacketSet EXCEPT ![p] = Tail(@)]
        /\ wire' = wire \cup { Head(sendPacketSet[p]) }
        /\ \/ resendList' = resendList \cup { Head(sendPacketSet[p]) }
           \/ /\ ~Reliable(Head(sendPacketSet[p]))
              /\ resendList' = resendList
  BY DEF Transmit
<1> DEFINE s == sendPacketSet[p]
           i == Head(s)
<1>2. /\ s \in Seq(Ids) /\ Len(s) \in Nat /\ Len(s) >= 1
      /\ i = s[1] /\ Len(Tail(s)) = Len(s) - 1
      /\ \A n \in 1..(Len(s) - 1) : Tail(s)[n] = s[n + 1]
  <2>1. s \in Seq(Ids)
    BY DEF TypeOK
  <2> QED
    BY <1>1, <2>1
<1>3. /\ sendPacketSet'[p] = Tail(s)
      /\ \A r \in Priorities : r # p => sendPacketSet'[r] = sendPacketSet[r]
  BY <1>1 DEF TypeOK
<1>4. i \in QueuedIds
  BY <1>2 DEF QueuedIds
<1>5. QueuedIds' \subseteq QueuedIds
  <2> SUFFICES ASSUME NEW j \in QueuedIds' PROVE j \in QueuedIds
    OBVIOUS
  <2>1. PICK r \in Priorities : \E n \in 1..Len(sendPacketSet'[r]) : sendPacketSet'[r][n] = j
    BY DEF QueuedIds
  <2>2. CASE r = p
    <3>0. sendPacketSet'[r] = Tail(s) /\ Len(Tail(s)) = Len(s) - 1
      BY <1>2, <1>3, <2>2
    <3>1. PICK n \in 1..(Len(s) - 1) : s[n + 1] = j
      BY <1>2, <2>1, <3>0
    <3>2. n + 1 \in 1..Len(s)
      BY <1>2
    <3> QED
      BY <3>1, <3>2 DEF QueuedIds
  <2>3. CASE r # p
    BY <1>3, <2>1, <2>3 DEF QueuedIds
  <2> QED
    BY <2>2, <2>3
<1>6. QueuedIds \subseteq QueuedIds' \cup { i }
  <2> SUFFICES ASSUME NEW j \in QueuedIds, j # i PROVE j \in QueuedIds'
    OBVIOUS
  <2>1. PICK r \in Priorities : \E n \in 1..Len(sendPacketSet[r]) : sendPacketSet[r][n] = j
    BY DEF QueuedIds
  <2>2. CASE r = p
    <3>1. PICK n \in 1..Len(s) : s[n] = j
      BY <2>1, <2>2
    <3>2. n # 1
      BY <1>2, <3>1
    <3>3. n - 1 \in 1..(Len(s) - 1) /\ s[(n - 1) + 1] = j
      BY <1>2, <3>1, <3>2
    <3>4. \E m \in 1..Len(sendPacketSet'[p]) : sendPacketSet'[p][m] = j
      BY <1>2, <1>3, <3>3
    <3> QED
      BY <3>4 DEF QueuedIds
  <2>3. CASE r # p
    BY <1>3, <2>1, <2>3 DEF QueuedIds
  <2> QED
    BY <2>2, <2>3
<1> HIDE DEF s, i
<1>7. /\ wire' = wire \cup { i }
      /\ \/ resendList' = resendList \cup { i }
         \/ ~Reliable(i) /\ resendList' = resendList
  BY <1>1 DEF s, i
<1> QED
  BY <1>4, <1>5, <1>6, <1>7

LEMMA TransmitKeepsIInv == ASSUME IInv, TypeOK', Transmit PROVE IInv'
<1> USE DEF IInv
<1>1. PICK i \in QueuedIds :
        /\ QueuedIds' \subseteq QueuedIds /\ QueuedIds \subseteq QueuedIds' \cup { i }
        /\ wire' = wire \cup { i }
        /\ \/ resendList' = resendList \cup { i }
           \/ ~Reliable(i) /\ resendList' = resendList
  BY TransmitMoves
<1>2. UNCHANGED << sent, receiver, ackWire >>
  BY DEF Transmit
<1>3. InUse' \subseteq InUse
  BY <1>1, <1>2 DEF InUse, receiver
<1>4. InUseIsRecent' /\ WindowIsExact' /\ HeldOnce' /\ OutputOnce'
  BY <1>2, <1>3, ReceiverUntouched
<1>5. AcksAreTrue'
  BY <1>2 DEF AcksAreTrue, receiver, window
<1>6. AckedIsAccepted'
  <2> SUFFICES ASSUME NEW j \in Ids', Reliable(j)', j \notin QueuedIds', j \notin resendList'
               PROVE  j \in accepted' \cup gaveUp'
    BY DEF AckedIsAccepted
  <2>1. j \in Ids /\ Reliable(j)
    BY <1>2 DEF Ids, messageNumber, Reliable, Message
  <2>2. j \notin QueuedIds \cup resendList
    BY <1>1, <2>1
  <2> QED
    BY <1>2, <2>1, <2>2 DEF AckedIsAccepted, receiver, window
<1> QED
  BY <1>4, <1>5, <1>6

\* Resending touches nothing but the queue and the network.
LEMMA ResendKeepsIInv == ASSUME IInv, TypeOK', Resend PROVE IInv'
<1> USE DEF IInv
<1>1. UNCHANGED << sent, sendPacketSet, resendList, ackWire, receiver >>
  BY DEF Resend
<1>2. PICK n \in 0..(Len(resendQueue) - 1) :
        /\ HolesAtHead(n)
        /\ wire' = wire \cup { resendQueue[n + 1] }
  BY DEF Resend
<1>3. n < Len(resendQueue)
  BY DEF TypeOK
<1>4. resendQueue[n + 1] \in resendList
  BY <1>2, <1>3 DEF HolesAtHead
<1>5. QueuedIds' = QueuedIds
  BY <1>1 DEF QueuedIds
<1>6. InUse' \subseteq InUse
  BY <1>1, <1>2, <1>4, <1>5 DEF InUse, receiver
<1>7. InUseIsRecent' /\ WindowIsExact' /\ HeldOnce' /\ OutputOnce'
  BY <1>1, <1>6, ReceiverUntouched
<1>8. AcksAreTrue'
  BY <1>1 DEF AcksAreTrue, receiver, window
<1>9. AckedIsAccepted'
  BY <1>1, <1>5 DEF AckedIsAccepted, receiver, window, Ids, messageNumber, Reliable, Message
<1> QED
  BY <1>7, <1>8, <1>9

\* An acknowledgement takes off the list no message but its own: two numbers in
\* use at once are not alike modulo the range.
LEMMA ReceiveAckKeepsIInv ==
    ASSUME IInv, TypeOK', NEW a \in ackWire, ReceiveAck(a) PROVE IInv'
<1> USE DEF IInv
<1>1. /\ UNCHANGED << sent, sendPacketSet, wire, receiver >>
      /\ ackWire' = ackWire \ { a }
      /\ resendList' = { i \in resendList : i % NumberRange # a % NumberRange }
  BY DEF ReceiveAck
<1>2. QueuedIds' = QueuedIds
  BY <1>1 DEF QueuedIds
<1>3. InUse' \subseteq InUse
  BY <1>1, <1>2 DEF InUse, receiver
<1>4. InUseIsRecent' /\ WindowIsExact' /\ HeldOnce' /\ OutputOnce'
  BY <1>1, <1>3, ReceiverUntouched
<1>5. AcksAreTrue'
  BY <1>1 DEF AcksAreTrue, receiver, window
<1>6. ASSUME NEW i \in resendList, i % NumberRange = a % NumberRange PROVE i = a
  <2>1. /\ i \in Nat /\ a \in Nat /\ messageNumber \in Nat
        /\ i < messageNumber /\ a < messageNumber
    <3>1. i \in Ids /\ a \in Ids /\ messageNumber \in Nat
      BY DEF TypeOK, messageNumber
    <3> QED
      BY <3>1 DEF Ids
  <2>2. messageNumber - i <= SendLimit /\ messageNumber - a <= SendLimit
    BY DEF InUseIsRecent, InUse
  <2>3. i - a < NumberRange /\ a - i < NumberRange
    BY <2>1, <2>2, ConstantFacts
  <2>4. NumberRange \in Nat \ {0} /\ i \in Int /\ a \in Int
    BY <2>1, ConstantFacts
  <2> QED
    BY <1>6, <2>3, <2>4, NearAndAlike
<1>7. AckedIsAccepted'
  <2> SUFFICES ASSUME NEW j \in Ids', Reliable(j)', j \notin QueuedIds', j \notin resendList'
               PROVE  j \in accepted' \cup gaveUp'
    BY DEF AckedIsAccepted
  <2>1. j \in Ids /\ Reliable(j) /\ j \notin QueuedIds
    BY <1>1, <1>2 DEF Ids, messageNumber, Reliable, Message
  <2>2. CASE j \in resendList
    <3>1. j = a
      BY <1>1, <1>6, <2>2
    <3> QED
      BY <1>1, <3>1 DEF AcksAreTrue, receiver, window
  <2>3. CASE j \notin resendList
    BY <1>1, <2>1, <2>3 DEF AckedIsAccepted, receiver, window
  <2> QED
    BY <2>2, <2>3
<1> QED
  BY <1>4, <1>5, <1>7

\* A datagram with message i arrives.
LEMMA DeliverKeepsIInv ==
    ASSUME IInv, TypeOK', RateIsSafe, NEW i \in wire, Deliver(i) PROVE IInv'
<1> USE DEF IInv
<1>1. /\ UNCHANGED << sent, sendPacketSet, resendList, wire, ackWire >>
      /\ acknowlegements' \subseteq acknowlegements \cup { i }
  BY DEF Deliver, sender
<1>2. QueuedIds' = QueuedIds /\ Ids' = Ids /\ messageNumber' = messageNumber
  BY <1>1 DEF QueuedIds, Ids, messageNumber
<1>3. InUse' \subseteq InUse
  BY <1>1, <1>2 DEF InUse
<1>4. i \in Ids
  BY DEF TypeOK
\* whatever the check says, the message is known afterwards and nothing forgotten
<1>5. /\ WindowIsExact' /\ HeldOnce' /\ OutputOnce'
      /\ accepted \subseteq accepted' /\ gaveUp \subseteq gaveUp'
      /\ i \in accepted' \cup gaveUp'
      /\ receivedPacketsBaseIndex' >= receivedPacketsBaseIndex
  <2>1. CASE IsDuplicate(i)
    <3>1. UNCHANGED << window, streams >>
      BY <2>1 DEF Deliver
    <3>2. i \in accepted \cup gaveUp
      BY <2>1, DuplicateIsKnown
    <3>3. receivedPacketsBaseIndex' >= receivedPacketsBaseIndex
      BY <3>1 DEF window, TypeOK
    <3>4. WindowIsExact'
      BY <1>2, <3>1 DEF WindowIsExact, window
    <3>5. HeldOnce' /\ OutputOnce'
      BY <1>1, <3>1 DEF HeldOnce, OutputOnce, window, streams, Message
    <3> QED
      BY <3>1, <3>2, <3>3, <3>4, <3>5 DEF window
  <2>2. CASE ~IsDuplicate(i)
    <3>1. /\ Accept(i)
          /\ PassUpSequenced(i) \/ PassUpOrdered(i) \/ PassUpOther(i)
      BY <2>2 DEF Deliver
    <3>2. i \notin accepted
      BY <2>2, DuplicateIsKnown
    <3>3. /\ WindowIsExact'
          /\ accepted' = accepted \cup { i }
          /\ gaveUp \subseteq gaveUp'
          /\ receivedPacketsBaseIndex' >= receivedPacketsBaseIndex
      BY <1>1, <2>2, <3>1, AcceptKeepsWindow
    <3>4. HeldOnce' /\ OutputOnce'
      BY <1>1, <1>4, <3>1, <3>2, <3>3, PassUpKeepsOnce
    <3> QED
      BY <3>3, <3>4
  <2> QED
    BY <2>1, <2>2
<1>6. InUseIsRecent'
  <2>1. /\ receivedPacketsBaseIndex \in Nat /\ receivedPacketsBaseIndex' \in Nat
        /\ messageNumber \in Nat
    BY DEF TypeOK, messageNumber
  <2>2. \A j \in InUse' : messageNumber' - j <= SendLimit
    BY <1>2, <1>3 DEF InUseIsRecent
  <2>3. /\ messageNumber - receivedPacketsBaseIndex <= WindowLimit + 1
        /\ WindowLimit \in Nat
    BY ConstantFacts DEF InUseIsRecent
  <2>4. messageNumber' - receivedPacketsBaseIndex' <= WindowLimit + 1
    <3> DEFINE mn == messageNumber
               b == receivedPacketsBaseIndex
               c == receivedPacketsBaseIndex'
    <3>1. mn \in Nat /\ b \in Nat /\ c \in Nat /\ WindowLimit \in Nat
      BY <2>1, <2>3
    <3>2. mn - b <= WindowLimit + 1 /\ c >= b
      BY <1>5, <2>3
    <3> HIDE DEF mn, b, c
    <3>3. mn - c <= WindowLimit + 1
      BY <3>1, <3>2
    <3> QED
      BY <1>2, <3>3 DEF mn, c
  <2> QED
    BY <2>2, <2>4 DEF InUseIsRecent
<1>7. AcksAreTrue'
  BY <1>1, <1>5 DEF AcksAreTrue
<1>8. AckedIsAccepted'
  <2>1. \A j : Reliable(j)' = Reliable(j)
    BY <1>1 DEF Reliable, Message
  <2> QED
    BY <1>1, <1>2, <1>5, <2>1 DEF AckedIsAccepted
<1> QED
  BY <1>5, <1>6, <1>7, <1>8

\* Steps that neither send nor accept: acknowledgements move, holes run out,
\* datagrams are lost, the connection is given up.
LEMMA IdleKeepsIInv ==
    ASSUME IInv, TypeOK',
           UNCHANGED << sent, sendPacketSet, resendList, receivedPacketsBaseIndex,
                        accepted, gaveUp, streams >>,
           wire' \subseteq wire,
           acknowlegements' \cup ackWire' \subseteq acknowlegements \cup ackWire,
           WindowIsExact'
    PROVE  IInv'
<1> USE DEF IInv
<1>1. QueuedIds' = QueuedIds /\ Ids' = Ids /\ messageNumber' = messageNumber
  BY DEF QueuedIds, Ids, messageNumber
<1>2. InUse' \subseteq InUse
  BY <1>1 DEF InUse
<1>3. InUseIsRecent'
  BY <1>1, <1>2 DEF InUseIsRecent
<1>4. AcksAreTrue'
  BY DEF AcksAreTrue
<1>5. AckedIsAccepted'
  BY <1>1 DEF AckedIsAccepted, Reliable, Message
<1>6. HeldOnce' /\ OutputOnce'
  BY DEF HeldOnce, OutputOnce, streams, Message
<1> QED
  BY <1>3, <1>4, <1>5, <1>6

LEMMA HolesRunOutKeepsWindow ==
    ASSUME TypeOK, WindowIsExact, NEW n \in 1..Len(hasReceivedPacketQueue), HolesRunOut(n)
    PROVE  WindowIsExact'
<1> DEFINE q == hasReceivedPacketQueue
           r == [m \in 1..Len(q) |-> IF m <= n /\ q[m] = "hole" THEN "expired" ELSE q[m]]
<1>1. q' = r /\ UNCHANGED << sent, receivedPacketsBaseIndex, accepted, gaveUp >>
  BY DEF HolesRunOut, sender
<1>2. Len(q) \in Nat
  BY DEF TypeOK
<1>3. /\ Len(r) = Len(q)
      /\ \A k \in 1..Len(q) : r[k] = "got" <=> q[k] = "got"
  <2>1. \A k \in 1..Len(q) : r[k] = "got" <=> q[k] = "got"
    OBVIOUS
  <2>2. DOMAIN r = 1..Len(q) /\ Len(r) = Len(q)
    BY <1>2
  <2> QED
    BY <2>1, <2>2
<1>4. messageNumber' = messageNumber
  BY <1>1 DEF messageNumber
<1> HIDE DEF r
<1>5. Len(q) > 0 => q[1] # "got" /\ 1 \in 1..Len(q)
  BY <1>2 DEF WindowIsExact
<1> QED
  BY <1>1, <1>2, <1>3, <1>4, <1>5 DEF WindowIsExact

\* The invariant is inductive if the application keeps to the safe rate.
LEMMA IInvIsInductive == ASSUME RateIsSafe, IInv, [Next]_vars PROVE IInv'
<1>1. TypeOK'
  BY TypeStep DEF IInv
<1>2. UNCHANGED << sent, window >> => WindowIsExact'
  BY DEF IInv, WindowIsExact, window, messageNumber
<1>3. ASSUME NEW k \in Traffic, Send(k) PROVE IInv'
  BY <1>3, SendKeepsIInv
<1>4. CASE Resend
  BY <1>1, <1>4, ResendKeepsIInv
<1>5. CASE Transmit
  BY <1>1, <1>5, TransmitKeepsIInv
<1>6. ASSUME NEW a \in ackWire, ReceiveAck(a) PROVE IInv'
  BY <1>1, <1>6, ReceiveAckKeepsIInv
<1>7. CASE GiveUpConnection
  BY <1>1, <1>2, <1>7, IdleKeepsIInv DEF GiveUpConnection, receiver, window
<1>8. ASSUME NEW i \in wire, Deliver(i) PROVE IInv'
  BY <1>1, <1>8, DeliverKeepsIInv
<1>9. CASE SendAcks
  BY <1>1, <1>2, <1>9, IdleKeepsIInv DEF SendAcks, sender, window
<1>10. ASSUME NEW n \in 1..Len(hasReceivedPacketQueue), HolesRunOut(n) PROVE IInv'
  <2>1. WindowIsExact'
    BY <1>10, HolesRunOutKeepsWindow DEF IInv
  <2> QED
    BY <1>1, <1>10, <2>1, IdleKeepsIInv DEF HolesRunOut, sender
<1>11. ASSUME NEW i \in wire, Lose(i) PROVE IInv'
  BY <1>1, <1>2, <1>11, IdleKeepsIInv DEF Lose, sender, receiver, window
<1>12. ASSUME NEW a \in ackWire, LoseAck(a) PROVE IInv'
  BY <1>1, <1>2, <1>12, IdleKeepsIInv DEF LoseAck, sender, receiver, window
<1>13. CASE UNCHANGED vars
  BY <1>1, <1>2, <1>13, IdleKeepsIInv DEF vars, sender, receiver, window
<1> QED
  BY <1>3, <1>4, <1>5, <1>6, <1>7, <1>8, <1>9, <1>10, <1>11, <1>12, <1>13 DEF Next

LEMMA InitIsIInv == ASSUME Init, TypeOK PROVE IInv
<1>1. messageNumber = 0 /\ Ids = {} /\ Len(hasReceivedPacketQueue) = 0
      /\ Len(outputQueue) = 0 /\ receivedPacketsBaseIndex = 0
  BY DEF Init, messageNumber, Ids
<1>2. InUse = {}
  <2>1. \A p \in Priorities : Len(sendPacketSet[p]) = 0
    BY DEF Init
  <2>2. QueuedIds = {}
    BY <2>1 DEF QueuedIds
  <2> QED
    BY <2>2 DEF InUse, Init
<1>3. InUseIsRecent
  BY <1>1, <1>2, ConstantFacts DEF InUseIsRecent
<1>4. WindowIsExact
  BY <1>1 DEF WindowIsExact, Init
<1>5. AcksAreTrue
  BY DEF AcksAreTrue, Init
<1>6. AckedIsAccepted
  BY <1>1 DEF AckedIsAccepted
<1>7. HeldOnce /\ OutputOnce
  BY <1>1 DEF HeldOnce, OutputOnce, Init
<1> QED
  BY <1>3, <1>4, <1>5, <1>6, <1>7 DEF IInv

-----------------------------------------------------------------------------
(* The theorems.                                                           *)

\* At a safe rate the window, the resend list and the output stay consistent
\* with the messages sent, for every number range, traffic and schedule.
THEOREM InvariantHolds == ASSUME RateIsSafe PROVE Spec => []IInv
<1>1. Init => IInv
  BY TypeInit, InitIsIInv
<1>2. IInv /\ [Next]_vars => IInv'
  BY IInvIsInductive
<1> QED
  BY <1>1, <1>2, PTL DEF Spec

\* At a safe rate the sender forgets no reliable message that was not accepted
\* or given up by the receiver: acknowledging before the duplicate check
\* (ReliabilityLayer.cpp:456) is harmless, wrapping included.
THEOREM AckedIsAcceptedHolds == ASSUME RateIsSafe PROVE Spec => []AckedIsAccepted
<1>1. IInv => AckedIsAccepted
  BY DEF IInv
<1> QED
  BY <1>1, InvariantHolds, PTL

\* At a safe rate no message is handed up twice, however datagrams are repeated,
\* delayed and reordered.
THEOREM OutputOnceHolds == ASSUME RateIsSafe PROVE Spec => []OutputOnce
<1>1. IInv => OutputOnce
  BY DEF IInv
<1> QED
  BY <1>1, InvariantHolds, PTL

\* Whatever the rate, the acknowledgement timer runs exactly while something
\* waits to be acknowledged.
THEOREM TimerHolds == Spec => []TimerGuardsResends
<1>1. Init => TimerGuardsResends
  BY DEF Init, TimerGuardsResends
<1>2. TimerGuardsResends /\ TypeOK /\ [Next]_vars => TimerGuardsResends'
  <2> SUFFICES ASSUME TimerGuardsResends, TypeOK, [Next]_vars PROVE TimerGuardsResends'
    OBVIOUS
  <2>0. UNCHANGED << resendList, ackTimerRuns >> => TimerGuardsResends'
    BY DEF TimerGuardsResends
  <2>1. ASSUME NEW k \in Traffic, Send(k) PROVE TimerGuardsResends'
    BY <2>0, <2>1 DEF Send
  <2>2. CASE Resend
    BY <2>0, <2>2 DEF Resend
  <2>3. CASE Transmit
    BY <2>0, <2>3 DEF Transmit, TimerGuardsResends
  <2>4. ASSUME NEW a \in ackWire, ReceiveAck(a) PROVE TimerGuardsResends'
    BY <2>4 DEF ReceiveAck, TimerGuardsResends
  <2>5. CASE GiveUpConnection
    BY <2>0, <2>5 DEF GiveUpConnection
  <2>6. ASSUME NEW i \in wire, Deliver(i) PROVE TimerGuardsResends'
    BY <2>0, <2>6 DEF Deliver, sender
  <2>7. CASE SendAcks
    BY <2>0, <2>7 DEF SendAcks, sender
  <2>8. ASSUME NEW n \in 1..Len(hasReceivedPacketQueue), HolesRunOut(n) PROVE TimerGuardsResends'
    BY <2>0, <2>8 DEF HolesRunOut, sender
  <2>9. ASSUME NEW i \in wire, Lose(i) PROVE TimerGuardsResends'
    BY <2>0, <2>9 DEF Lose, sender
  <2>10. ASSUME NEW a \in ackWire, LoseAck(a) PROVE TimerGuardsResends'
    BY <2>0, <2>10 DEF LoseAck, sender
  <2>11. CASE UNCHANGED vars
    BY <2>0, <2>11 DEF vars, sender
  <2> QED
    BY <2>1, <2>2, <2>3, <2>4, <2>5, <2>6, <2>7, <2>8, <2>9, <2>10, <2>11 DEF Next
<1> QED
  BY <1>1, <1>2, TypeCorrect, PTL DEF Spec

-----------------------------------------------------------------------------
(* The ordered and sequenced streams.  The indexes of a stream follow the  *)
(* order of Send.  What was handed up of an ordered stream is what has an  *)
(* index under the read index; the 16 bits the code compares tell the      *)
(* indexes apart as long as the writer is no round ahead of the reader,    *)
(* and it is only when a number that was given up holds the reader back:   *)
(* then the stream is Overtaken, for good.                                 *)

\* The sequenced messages of channel c.
OnSequenced(c) == { i \in Ids : Sequenced(i) /\ Message(i).channel = c }

\* The n-th message handed up is i.
At(n, i) == n \in 1..Len(outputQueue) /\ outputQueue[n] = i

\* On each channel the indexes are the numbers from 0 in the order of Send; an
\* index is not further behind than its message.
IndexesFollowSend ==
    /\ \A c \in Channels : \A i \in OnOrdered(c) :
          /\ Message(i).index < waitingForOrderedPacketWriteIndex[c]
          /\ waitingForOrderedPacketWriteIndex[c] - Message(i).index <= messageNumber - i
    /\ \A c \in Channels : \A i \in OnSequenced(c) :
          /\ Message(i).index < waitingForSequencedPacketWriteIndex[c]
          /\ waitingForSequencedPacketWriteIndex[c] - Message(i).index <= messageNumber - i
    /\ \A c \in Channels : \A i, j \in OnOrdered(c) :
          i < j => Message(i).index < Message(j).index
    /\ \A c \in Channels : \A x \in 0..(waitingForOrderedPacketWriteIndex[c] - 1) :
          \E i \in OnOrdered(c) : Message(i).index = x
    /\ \A c \in Channels : \A i, j \in OnSequenced(c) :
          i < j => Message(i).index < Message(j).index
    /\ \A c \in Channels : \A x \in 0..(waitingForSequencedPacketWriteIndex[c] - 1) :
          \E i \in OnSequenced(c) : Message(i).index = x

StoredOnStream == \A c \in Channels : orderingList[c] \subseteq OnOrdered(c)

\* What was handed up of a sequenced stream came with growing indexes, all of
\* them under the read index.
SequencedStream(c) ==
    /\ waitingForSequencedPacketReadIndex[c] <= waitingForSequencedPacketWriteIndex[c]
    /\ \A n \in Nat : \A i \in OnSequenced(c) :
          At(n, i) => Message(i).index < waitingForSequencedPacketReadIndex[c]
    /\ \A m, n \in Nat : \A i, j \in OnSequenced(c) :
          m < n /\ At(m, i) /\ At(n, j) => Message(i).index < Message(j).index

\* What was handed up of an ordered stream is what has an index under the read
\* index, in the order of the indexes.
OrderedStream(c) ==
    /\ waitingForOrderedPacketReadIndex[c] <= waitingForOrderedPacketWriteIndex[c]
    /\ \A i \in OnOrdered(c) :
          Message(i).index < waitingForOrderedPacketReadIndex[c] <=> HandedUp(i)
    /\ \A m, n \in Nat : \A i, j \in OnOrdered(c) :
          m < n /\ At(m, i) /\ At(n, j) => Message(i).index < Message(j).index

StoredIsNewer(c) ==
    \A j \in orderingList[c] : Message(j).index > waitingForOrderedPacketReadIndex[c]

SequencedRateIsSafe == SendLimit < MaxIndex \div 2

-----------------------------------------------------------------------------
(* The indexes of the messages sent.                                       *)

LEMMA OnType ==
    ASSUME TypeOK, NEW c \in Channels, NEW i \in OnOrdered(c)
    PROVE  /\ i \in Ids /\ i \in Nat /\ i < messageNumber /\ messageNumber \in Nat
           /\ Message(i).index \in Nat
           /\ Ordered(i) /\ Message(i).channel = c /\ ~Sequenced(i)
<1>1. i \in Ids /\ Ordered(i) /\ Message(i).channel = c
  BY DEF OnOrdered
<1>2. i \in Nat /\ Message(i).index \in Nat
  BY <1>1, MessageType
<1>3. messageNumber \in Nat /\ i < messageNumber
  <2>1. messageNumber \in Nat
    BY DEF TypeOK, messageNumber
  <2> QED
    BY <1>1, <2>1 DEF Ids
<1>4. ~Sequenced(i)
  BY <1>1 DEF Ordered, Sequenced
<1> QED
  BY <1>1, <1>2, <1>3, <1>4

LEMMA OnSequencedType ==
    ASSUME TypeOK, NEW c \in Channels, NEW i \in OnSequenced(c)
    PROVE  /\ i \in Ids /\ i \in Nat /\ i < messageNumber /\ messageNumber \in Nat
           /\ Message(i).index \in Nat
           /\ Sequenced(i) /\ Message(i).channel = c /\ ~Ordered(i)
<1>1. i \in Ids /\ Sequenced(i) /\ Message(i).channel = c
  BY DEF OnSequenced
<1>2. i \in Nat /\ Message(i).index \in Nat
  BY <1>1, MessageType
<1>3. messageNumber \in Nat /\ i < messageNumber
  <2>1. messageNumber \in Nat
    BY DEF TypeOK, messageNumber
  <2> QED
    BY <1>1, <2>1 DEF Ids
<1>4. ~Ordered(i)
  BY <1>1 DEF Ordered, Sequenced
<1> QED
  BY <1>1, <1>2, <1>3, <1>4

LEMMA SentStays ==
    ASSUME UNCHANGED sent
    PROVE  /\ messageNumber' = messageNumber /\ Ids' = Ids
           /\ \A i : /\ Message(i)' = Message(i)
                     /\ Ordered(i)' = Ordered(i) /\ Sequenced(i)' = Sequenced(i)
           /\ \A c : OnOrdered(c)' = OnOrdered(c) /\ OnSequenced(c)' = OnSequenced(c)
  BY DEF messageNumber, Ids, Message, Ordered, Sequenced, OnOrdered, OnSequenced

\* What a call to Send adds to the messages.
LEMMA SendAdds ==
    ASSUME TypeOK, NEW k \in Traffic, Send(k)
    PROVE  /\ k \in Kinds /\ messageNumber \in Nat
           /\ messageNumber' = messageNumber + 1
           /\ Ids' = Ids \cup { messageNumber } /\ messageNumber \notin Ids
           /\ \A i \in Ids : /\ Message(i)' = Message(i)
                             /\ Ordered(i)' = Ordered(i) /\ Sequenced(i)' = Sequenced(i)
           /\ \A i : i = messageNumber =>
                 Message(i)' = [reliability |-> k.reliability,
                                channel |-> k.channel, index |-> OrderingIndex(k)]
           /\ UNCHANGED << resendQueue, resendList, wire, ackWire, receiver >>
<1>1. k \in Kinds
  BY ConstantsAssumption
<1>2. messageNumber \in Nat /\ messageNumber' = messageNumber + 1
  BY DEF TypeOK, Send, messageNumber
<1>3. Ids' = Ids \cup { messageNumber } /\ messageNumber \notin Ids
  BY <1>2 DEF Ids
<1>4. \A i \in Ids : Message(i)' = Message(i)
  BY DEF TypeOK, Send, messageNumber, Message, Ids
<1>5. ASSUME NEW i, i = messageNumber
      PROVE  Message(i)' = [reliability |-> k.reliability,
                            channel |-> k.channel, index |-> OrderingIndex(k)]
  <2>1. sent \in Seq([reliability : Reliability, channel : Channels, index : Nat])
    BY DEF TypeOK
  <2>2. i = Len(sent)
    BY <1>5 DEF messageNumber
  <2> QED
    BY <2>1, <2>2 DEF Send, Message
<1>6. \A i \in Ids : Ordered(i)' = Ordered(i) /\ Sequenced(i)' = Sequenced(i)
  BY <1>4 DEF Ordered, Sequenced
<1> QED
  BY <1>1, <1>2, <1>3, <1>4, <1>5, <1>6 DEF Send

LEMMA SendKeepsIndexes ==
    ASSUME TypeOK, IndexesFollowSend, NEW k \in Traffic, Send(k)
    PROVE  IndexesFollowSend'
<1> SUFFICES ASSUME NEW new, new = messageNumber PROVE IndexesFollowSend'
  OBVIOUS
<1> DEFINE WO == waitingForOrderedPacketWriteIndex
           WS == waitingForSequencedPacketWriteIndex
           d == k.channel
<1>1. /\ k \in Kinds /\ new \in Nat /\ messageNumber' = new + 1
      /\ Ids' = Ids \cup { new } /\ new \notin Ids
      /\ \A i \in Ids : /\ Message(i)' = Message(i)
                        /\ Ordered(i)' = Ordered(i) /\ Sequenced(i)' = Sequenced(i)
      /\ Message(new)' = [reliability |-> k.reliability,
                          channel |-> k.channel, index |-> OrderingIndex(k)]
  BY SendAdds
<1>2. /\ WO \in [Channels -> Nat] /\ WS \in [Channels -> Nat] /\ d \in Channels
      /\ TakeOrderingIndex(k)
  BY <1>1 DEF TypeOK, Kinds, Send
<1>3. \A i \in Ids : /\ i \in Nat /\ i < new
                     /\ Message(i).channel \in Channels /\ Message(i).index \in Nat
  BY <1>1, MessageType DEF Ids
<1>4. /\ Ordered(new)' <=> k.reliability = "RELIABLE_ORDERED"
      /\ Sequenced(new)' <=> k.reliability \in { "UNRELIABLE_SEQUENCED", "RELIABLE_SEQUENCED" }
      /\ Message(new)'.channel = d /\ Message(new)'.index = OrderingIndex(k)
  BY <1>1 DEF Ordered, Sequenced
<1>5. ASSUME NEW c \in Channels
      PROVE  /\ OnOrdered(c) \subseteq OnOrdered(c)' /\ OnOrdered(c) \subseteq Ids
             /\ \A i \in OnOrdered(c)' :
                   i \in OnOrdered(c) \/ (i = new /\ Ordered(new)' /\ c = d)
             /\ Ordered(new)' /\ c = d => new \in OnOrdered(c)'
  <2>1. OnOrdered(c)' = { i \in Ids' : Ordered(i)' /\ Message(i)'.channel = c }
    BY DEF OnOrdered
  <2>2. OnOrdered(c) = { i \in Ids : Ordered(i) /\ Message(i).channel = c }
    BY DEF OnOrdered
  <2> HIDE DEF d
  <2> QED
    BY <1>1, <1>4, <2>1, <2>2
<1>6. ASSUME NEW c \in Channels
      PROVE  /\ OnSequenced(c) \subseteq OnSequenced(c)' /\ OnSequenced(c) \subseteq Ids
             /\ \A i \in OnSequenced(c)' :
                   i \in OnSequenced(c) \/ (i = new /\ Sequenced(new)' /\ c = d)
             /\ Sequenced(new)' /\ c = d => new \in OnSequenced(c)'
  <2>1. OnSequenced(c)' = { i \in Ids' : Sequenced(i)' /\ Message(i)'.channel = c }
    BY DEF OnSequenced
  <2>2. OnSequenced(c) = { i \in Ids : Sequenced(i) /\ Message(i).channel = c }
    BY DEF OnSequenced
  <2> HIDE DEF d
  <2> QED
    BY <1>1, <1>4, <2>1, <2>2
<1>7. \A c \in Channels :
        WO'[c] = IF Ordered(new)' /\ c = d THEN WO[c] + 1 ELSE WO[c]
  BY <1>2, <1>4 DEF TakeOrderingIndex
<1>8. \A c \in Channels :
        WS'[c] = IF Sequenced(new)' /\ c = d THEN WS[c] + 1 ELSE WS[c]
  BY <1>2, <1>4 DEF TakeOrderingIndex
<1>9. /\ Ordered(new)' => Message(new)'.index = WO[d]
      /\ Sequenced(new)' => Message(new)'.index = WS[d]
  BY <1>4 DEF OrderingIndex
<1>10. /\ \A c \in Channels : \A i \in OnOrdered(c) :
             /\ Message(i).index < WO[c]
             /\ WO[c] - Message(i).index <= new - i
       /\ \A c \in Channels : \A i \in OnSequenced(c) :
             /\ Message(i).index < WS[c]
             /\ WS[c] - Message(i).index <= new - i
       /\ \A c \in Channels : \A i, j \in OnOrdered(c) :
             i < j => Message(i).index < Message(j).index
       /\ \A c \in Channels : \A x \in 0..(WO[c] - 1) :
             \E i \in OnOrdered(c) : Message(i).index = x
       /\ \A c \in Channels : \A i, j \in OnSequenced(c) :
             i < j => Message(i).index < Message(j).index
       /\ \A c \in Channels : \A x \in 0..(WS[c] - 1) :
             \E i \in OnSequenced(c) : Message(i).index = x
  BY DEF IndexesFollowSend
<1> HIDE DEF WO, WS, d
<1>11. ASSUME NEW c \in Channels, NEW i \in OnOrdered(c)'
       PROVE  /\ Message(i)'.index < WO'[c]
              /\ WO'[c] - Message(i)'.index <= messageNumber' - i
  <2>1. CASE i \in OnOrdered(c)
    <3>1. i \in Ids /\ Message(i)' = Message(i)
      BY <1>1, <1>5, <2>1
    <3>2. Message(i).index < WO[c] /\ WO[c] - Message(i).index <= new - i
      BY <1>10, <2>1
    <3>3. WO'[c] \in { WO[c], WO[c] + 1 } /\ WO[c] \in Nat
      BY <1>2, <1>7
    <3>4. i \in Nat /\ Message(i).index \in Nat
      BY <1>3, <3>1
    <3> QED
      BY <1>1, <3>1, <3>2, <3>3, <3>4
  <2>2. CASE i = new /\ Ordered(new)' /\ c = d
    BY <1>1, <1>2, <1>7, <1>9, <2>2
  <2> QED
    BY <1>5, <2>1, <2>2
<1>12. ASSUME NEW c \in Channels, NEW i \in OnSequenced(c)'
       PROVE  /\ Message(i)'.index < WS'[c]
              /\ WS'[c] - Message(i)'.index <= messageNumber' - i
  <2>1. CASE i \in OnSequenced(c)
    <3>1. i \in Ids /\ Message(i)' = Message(i)
      BY <1>1, <1>6, <2>1
    <3>2. Message(i).index < WS[c] /\ WS[c] - Message(i).index <= new - i
      BY <1>10, <2>1
    <3>3. WS'[c] \in { WS[c], WS[c] + 1 } /\ WS[c] \in Nat
      BY <1>2, <1>8
    <3>4. i \in Nat /\ Message(i).index \in Nat
      BY <1>3, <3>1
    <3> QED
      BY <1>1, <3>1, <3>2, <3>3, <3>4
  <2>2. CASE i = new /\ Sequenced(new)' /\ c = d
    BY <1>1, <1>2, <1>8, <1>9, <2>2
  <2> QED
    BY <1>6, <2>1, <2>2
<1>13. ASSUME NEW c \in Channels, NEW i \in OnOrdered(c)', NEW j \in OnOrdered(c)', i < j
       PROVE  Message(i)'.index < Message(j)'.index
  <2>1. CASE i \in OnOrdered(c) /\ j \in OnOrdered(c)
    BY <1>1, <1>5, <1>10, <1>13, <2>1
  <2>2. CASE i \in OnOrdered(c) /\ j = new /\ Ordered(new)' /\ c = d
    <3>1. Message(i)' = Message(i) /\ Message(i).index < WO[d]
      BY <1>1, <1>5, <1>10, <2>2
    <3> QED
      BY <1>9, <2>2, <3>1
  <2>3. CASE i = new
    <3>1. j \in OnOrdered(c) \/ j = new
      BY <1>5
    <3>2. j <= new /\ j \in Nat
      BY <1>1, <1>3, <1>5, <3>1
    <3> QED
      BY <1>1, <1>13, <2>3, <3>2
  <2> QED
    BY <1>5, <2>1, <2>2, <2>3
<1>14. ASSUME NEW c \in Channels, NEW x \in 0..(WO'[c] - 1)
       PROVE  \E i \in OnOrdered(c)' : Message(i)'.index = x
  <2>1. CASE x \in 0..(WO[c] - 1)
    <3>1. PICK i \in OnOrdered(c) : Message(i).index = x
      BY <1>10, <2>1
    <3> QED
      BY <1>1, <1>5, <3>1
  <2>2. CASE x \notin 0..(WO[c] - 1)
    <3>1. Ordered(new)' /\ c = d /\ x = WO[c]
      BY <1>2, <1>7, <2>2
    <3> QED
      BY <1>5, <1>9, <3>1
  <2> QED
    BY <2>1, <2>2
<1>15. ASSUME NEW c \in Channels, NEW i \in OnSequenced(c)', NEW j \in OnSequenced(c)', i < j
       PROVE  Message(i)'.index < Message(j)'.index
  <2>1. CASE i \in OnSequenced(c) /\ j \in OnSequenced(c)
    BY <1>1, <1>6, <1>10, <1>15, <2>1
  <2>2. CASE i \in OnSequenced(c) /\ j = new /\ Sequenced(new)' /\ c = d
    <3>1. Message(i)' = Message(i) /\ Message(i).index < WS[d]
      BY <1>1, <1>6, <1>10, <2>2
    <3> QED
      BY <1>9, <2>2, <3>1
  <2>3. CASE i = new
    <3>1. j \in OnSequenced(c) \/ j = new
      BY <1>6
    <3>2. j <= new /\ j \in Nat
      BY <1>1, <1>3, <1>6, <3>1
    <3> QED
      BY <1>1, <1>15, <2>3, <3>2
  <2> QED
    BY <1>6, <2>1, <2>2, <2>3
<1>16. ASSUME NEW c \in Channels, NEW x \in 0..(WS'[c] - 1)
       PROVE  \E i \in OnSequenced(c)' : Message(i)'.index = x
  <2>1. CASE x \in 0..(WS[c] - 1)
    <3>1. PICK i \in OnSequenced(c) : Message(i).index = x
      BY <1>10, <2>1
    <3> QED
      BY <1>1, <1>6, <3>1
  <2>2. CASE x \notin 0..(WS[c] - 1)
    <3>1. Sequenced(new)' /\ c = d /\ x = WS[c]
      BY <1>2, <1>8, <2>2
    <3> QED
      BY <1>6, <1>9, <3>1
  <2> QED
    BY <2>1, <2>2
<1> QED
  BY <1>11, <1>12, <1>13, <1>14, <1>15, <1>16 DEF IndexesFollowSend, WO, WS

LEMMA IndexesStay ==
    ASSUME IndexesFollowSend,
           UNCHANGED << sent, waitingForOrderedPacketWriteIndex,
                        waitingForSequencedPacketWriteIndex >>
    PROVE  IndexesFollowSend'
<1>1. /\ messageNumber' = messageNumber
      /\ \A i : Message(i)' = Message(i)
      /\ \A c : OnOrdered(c)' = OnOrdered(c) /\ OnSequenced(c)' = OnSequenced(c)
  BY SentStays
<1> QED
  BY <1>1 DEF IndexesFollowSend

-----------------------------------------------------------------------------
(* Sequenced streams.                                                      *)

\* At a safe rate the half-range comparison recognises every index that is older.
LEMMA OlderIsSeen ==
    ASSUME SequencedRateIsSafe, NEW x \in Nat, NEW r \in Nat, x < r, r - x <= SendLimit
    PROVE  IsOlderOrderedPacket(x % NumberRange, r % NumberRange)
<1> DEFINE R == NumberRange
           M == MaxIndex \div 2
           a == x % R
           w == r % R
           d == r - x
<1>1. /\ R \in Nat \ {0} /\ SendLimit \in Nat
      /\ M \in Nat /\ 2 * M <= R - 1 /\ MaxIndex = R - 1
      /\ d \in Nat /\ 1 <= d /\ d < M
  BY ConstantFacts DEF SequencedRateIsSafe, MaxIndex
<1> HIDE DEF R, M
<1>2. a \in 0..(R - 1) /\ w \in 0..(R - 1)
  <2>1. x \in Int /\ r \in Int
    OBVIOUS
  <2> QED
    BY <1>1, <2>1, DivMod
<1>3. (w - a) % R = d
  <2>1. ((r % R) - (x % R)) % R = (r - x) % R
    <3>1. x \in Int /\ r \in Int
      OBVIOUS
    <3> QED
      BY <1>1, <3>1, DifferenceWraps
  <2>2. (r - x) % R = r - x
    BY <1>1, SmallRemainder
  <2> QED
    BY <2>1, <2>2
<1> HIDE DEF a, w, d
<1>4. w - a = d \/ w - a = d - R
  <2>1. w - a \in Int /\ -R <= w - a /\ w - a < R
    BY <1>1, <1>2
  <2>2. /\ 0 <= w - a => (w - a) % R = w - a
        /\ w - a < 0 => (w - a) % R = w - a + R
    BY <1>1, <2>1, SmallRemainder
  <2> QED
    BY <1>1, <1>2, <1>3, <2>1, <2>2
<1>5. CASE w - a = d
  <2>1. a < w /\ a >= w - M + 1
    BY <1>1, <1>2, <1>5
  <2> QED
    BY <2>1 DEF IsOlderOrderedPacket, a, w, M, R
<1>6. CASE w - a = d - R
  <2>1. w < M /\ a = w + R - d
    BY <1>1, <1>2, <1>6
  <2>2. (w - (M + 1)) % R = w - (M + 1) + R
    <3>1. w - (M + 1) \in Int /\ -R <= w - (M + 1) /\ w - (M + 1) < 0
      BY <1>1, <1>2, <2>1
    <3> QED
      BY <1>1, <3>1, SmallRemainder
  <2>3. a >= (w - (M + 1)) % R /\ ~(w > M)
    BY <1>1, <1>2, <2>1, <2>2
  <2> QED
    BY <2>3 DEF IsOlderOrderedPacket, a, w, M, R
<1> QED
  BY <1>4, <1>5, <1>6

\* t begins with s.
Extends(t, s) ==
    Len(s) \in Nat /\ Len(s) <= Len(t) /\ \A m \in 1..Len(s) : t[m] = s[m]

\* What is handed up together: a message, and the run behind it.
LEMMA HandedUpTogether ==
    ASSUME NEW s, NEW e, NEW r, NEW t, Joins(t, s, e, r)
    PROVE  /\ Extends(t, s) /\ Len(t) \in Nat
           /\ \A m \in 1..Len(t) : m > Len(s) => t[m] = e \/ \E k \in 1..Len(r) : t[m] = r[k]
<1>1. /\ Len(s) \in Nat /\ Len(r) \in Nat /\ Len(t) = Len(s) + 1 + Len(r)
      /\ t[Len(s) + 1] = e
      /\ \A k \in 1..Len(r) : t[Len(s) + 1 + k] = r[k]
  BY DEF Joins
<1>2. Extends(t, s) /\ Len(t) \in Nat
  BY <1>1 DEF Joins, Extends
<1>3. ASSUME NEW m \in 1..Len(t), m > Len(s)
      PROVE  t[m] = e \/ \E k \in 1..Len(r) : t[m] = r[k]
  <2>1. m \notin 1..Len(s)
    BY <1>1, <1>3
  <2>2. m = Len(s) + 1 \/ \E k \in 1..Len(r) : m = Len(s) + 1 + k
    BY <2>1 DEF Joins
  <2> QED
    BY <1>1, <2>2
<1> QED
  BY <1>2, <1>3

\* Handing up messages that are not sequenced on the channel leaves what is said
\* of those alone.
LEMMA SequencedUntouched ==
    ASSUME TypeOK, TypeOK', NEW c \in Channels, SequencedStream(c),
           Extends(outputQueue', outputQueue),
           \A m \in 1..Len(outputQueue') :
              m > Len(outputQueue) => outputQueue'[m] \notin OnSequenced(c),
           UNCHANGED << sent, waitingForSequencedPacketWriteIndex >>,
           waitingForSequencedPacketReadIndex'[c] = waitingForSequencedPacketReadIndex[c]
    PROVE  SequencedStream(c)'
<1>1. /\ \A i : Message(i)' = Message(i)
      /\ OnSequenced(c)' = OnSequenced(c)
  BY SentStays
<1>2. Len(outputQueue) \in Nat /\ Len(outputQueue') \in Nat
  BY DEF TypeOK
<1>3. ASSUME NEW n \in Nat, NEW i \in OnSequenced(c), At(n, i)' PROVE At(n, i)
  <2>1. n \in 1..Len(outputQueue') /\ outputQueue'[n] = i
    BY <1>3 DEF At
  <2>2. n \in 1..Len(outputQueue)
    BY <1>2, <2>1
  <2> QED
    BY <2>1, <2>2 DEF At, Extends
<1> QED
  BY <1>1, <1>3 DEF SequencedStream

\* Handing up a sequenced message that is not older than what came before.
LEMMA SequencedHandedUp ==
    ASSUME TypeOK, TypeOK', InUseIsRecent, IndexesFollowSend, SequencedRateIsSafe,
           NEW c \in Channels, SequencedStream(c),
           NEW i \in wire, i \in OnSequenced(c), PassUpSequenced(i),
           UNCHANGED << sent, waitingForSequencedPacketWriteIndex >>
    PROVE  SequencedStream(c)'
<1> DEFINE RS == waitingForSequencedPacketReadIndex
           WS == waitingForSequencedPacketWriteIndex
           x == Message(i).index
           out == outputQueue
<1>1. /\ \A j : Message(j)' = Message(j)
      /\ OnSequenced(c)' = OnSequenced(c)
  BY SentStays
<1>2. /\ out \in Seq(Ids) /\ Len(out) \in Nat /\ Len(out') \in Nat
      /\ RS[c] \in Nat /\ WS[c] \in Nat /\ RS \in [Channels -> Nat]
  BY DEF TypeOK
<1>3. /\ i \in Ids /\ i \in Nat /\ messageNumber \in Nat /\ x \in Nat
      /\ Message(i).channel = c
  BY OnSequencedType
<1>4. x < WS[c] /\ WS[c] - x <= messageNumber - i
  BY DEF IndexesFollowSend
<1>5. messageNumber - i <= SendLimit /\ SendLimit \in Nat
  BY ConstantFacts DEF InUseIsRecent, InUse
<1>6. RS[c] <= WS[c]
  BY DEF SequencedStream
<1> DEFINE older == IsOlderOrderedPacket(x % NumberRange, RS[c] % NumberRange)
<1>7. ~older => x >= RS[c]
  <2> SUFFICES ASSUME x < RS[c] PROVE older
    BY <1>2, <1>3
  <2>1. RS[c] - x <= SendLimit
    BY <1>2, <1>3, <1>4, <1>5, <1>6
  <2> HIDE DEF x, RS
  <2> QED
    BY <1>2, <1>3, <2>1, OlderIsSeen
<1>8. CASE older
  <2>1. UNCHANGED << waitingForSequencedPacketReadIndex, outputQueue >>
    BY <1>3, <1>8 DEF PassUpSequenced
  <2>2. Extends(out', out) /\ \A m \in 1..Len(out') : ~(m > Len(out))
    BY <1>2, <2>1 DEF Extends
  <2> QED
    BY <2>1, <2>2, SequencedUntouched
<1>9. CASE ~older
  <2>1. /\ RS' = [RS EXCEPT ![c] = x + 1]
        /\ out' = Append(out, i)
    BY <1>3, <1>9 DEF PassUpSequenced
  <2>2. RS'[c] = x + 1 /\ x >= RS[c]
    BY <1>2, <1>7, <1>9, <2>1
  <2>3. /\ Len(out') = Len(out) + 1 /\ out'[Len(out) + 1] = i
        /\ \A m \in 1..Len(out) : out'[m] = out[m]
    BY <1>2, <1>3, <2>1
  <2> HIDE DEF x, out, RS, WS, older
  <2>4. ASSUME NEW n \in Nat, NEW j \in OnSequenced(c), At(n, j)'
        PROVE  At(n, j) \/ (n = Len(out) + 1 /\ j = i)
    <3>1. n \in 1..Len(out') /\ out'[n] = j
      BY <2>4 DEF At, out
    <3>2. CASE n = Len(out) + 1
      BY <2>3, <3>1, <3>2
    <3>3. CASE n # Len(out) + 1
      <4>1. n \in 1..Len(out)
        BY <1>2, <2>3, <3>1, <3>3
      <4> QED
        BY <2>3, <3>1, <4>1 DEF At, out
    <3> QED
      BY <3>2, <3>3
  <2>5. \A n \in Nat : \A j \in OnSequenced(c) :
           At(n, j) => /\ Message(j).index < RS[c] /\ Message(j).index \in Nat
                       /\ n <= Len(out)
    BY <1>2, OnSequencedType DEF SequencedStream, At, RS, out
  <2>6. ASSUME NEW n \in Nat, NEW j \in OnSequenced(c), At(n, j)'
        PROVE  Message(j).index < RS'[c]
    <3>1. CASE At(n, j)
      BY <1>2, <1>3, <2>2, <2>5, <3>1
    <3>2. CASE j = i
      BY <1>3, <2>2, <3>2 DEF x
    <3> QED
      BY <2>4, <2>6, <3>1, <3>2
  <2>7. ASSUME NEW m \in Nat, NEW n \in Nat, m < n,
               NEW j \in OnSequenced(c), NEW k \in OnSequenced(c), At(m, j)', At(n, k)'
        PROVE  Message(j).index < Message(k).index
    <3>1. CASE At(m, j) /\ At(n, k)
      BY <2>7, <3>1 DEF SequencedStream
    <3>2. CASE At(m, j) /\ n = Len(out) + 1 /\ k = i
      BY <1>2, <1>3, <2>2, <2>5, <3>2 DEF x
    <3>3. CASE m = Len(out) + 1
      <4>1. n <= Len(out) + 1
        BY <1>2, <2>4, <2>5, <2>7
      <4> QED
        BY <1>2, <2>7, <3>3, <4>1
    <3> QED
      BY <2>4, <2>7, <3>1, <3>2, <3>3
  <2>8. RS'[c] <= WS'[c]
    BY <1>2, <1>3, <1>4, <2>2 DEF WS
  <2> QED
    BY <1>1, <2>6, <2>7, <2>8 DEF SequencedStream, RS, WS
<1> QED
  BY <1>8, <1>9

-----------------------------------------------------------------------------
(* Ordered streams.                                                        *)

\* Handing up messages that are not ordered on the channel leaves what is said
\* of those alone.
LEMMA OrderedUntouched ==
    ASSUME TypeOK, TypeOK', NEW c \in Channels, OrderedStream(c),
           Extends(outputQueue', outputQueue),
           \A m \in 1..Len(outputQueue') :
              m > Len(outputQueue) => outputQueue'[m] \notin OnOrdered(c),
           UNCHANGED << sent, waitingForOrderedPacketWriteIndex >>,
           waitingForOrderedPacketReadIndex'[c] = waitingForOrderedPacketReadIndex[c]
    PROVE  /\ OrderedStream(c)'
           /\ \A i \in OnOrdered(c) : HandedUp(i)' <=> HandedUp(i)
<1>1. /\ \A i : Message(i)' = Message(i)
      /\ OnOrdered(c)' = OnOrdered(c)
  BY SentStays
<1>2. Len(outputQueue) \in Nat /\ Len(outputQueue') \in Nat
  BY DEF TypeOK
<1>3. ASSUME NEW n \in 1..Len(outputQueue'), NEW i \in OnOrdered(c), outputQueue'[n] = i
      PROVE  n \in 1..Len(outputQueue) /\ outputQueue[n] = i
  <2>1. n \in 1..Len(outputQueue)
    BY <1>2, <1>3
  <2> QED
    BY <1>3, <2>1 DEF Extends
<1>4. \A n \in 1..Len(outputQueue) :
         n \in 1..Len(outputQueue') /\ outputQueue'[n] = outputQueue[n]
  BY <1>2 DEF Extends
<1>5. \A i \in OnOrdered(c) : HandedUp(i)' <=> HandedUp(i)
  BY <1>3, <1>4 DEF HandedUp
<1>6. \A n \in Nat : \A i \in OnOrdered(c) : At(n, i)' => At(n, i)
  BY <1>3 DEF At
<1> QED
  BY <1>1, <1>5, <1>6 DEF OrderedStream

\* Handing up the message that the channel waits for and a run of those that
\* have the indexes after it.
LEMMA OrderedHandedUp ==
    ASSUME TypeOK, TypeOK', NEW c \in Channels, OrderedStream(c), IndexesFollowSend,
           NEW i \in OnOrdered(c), NEW run \in Seq(Ids),
           Message(i).index = waitingForOrderedPacketReadIndex[c],
           \A k \in 1..Len(run) :
              /\ run[k] \in OnOrdered(c)
              /\ Message(run[k]).index = waitingForOrderedPacketReadIndex[c] + k,
           UNCHANGED << sent, waitingForOrderedPacketWriteIndex >>,
           outputQueue' = Append(outputQueue, i) \o run,
           waitingForOrderedPacketReadIndex'[c] =
              waitingForOrderedPacketReadIndex[c] + Len(run) + 1
    PROVE  OrderedStream(c)'
<1> DEFINE r == waitingForOrderedPacketReadIndex[c]
           w == waitingForOrderedPacketWriteIndex[c]
           out == outputQueue
           L == Len(outputQueue)
           N == Len(run)
<1>1. /\ \A j : Message(j)' = Message(j)
      /\ OnOrdered(c)' = OnOrdered(c)
  BY SentStays
<1>2. /\ out \in Seq(Ids) /\ L \in Nat /\ N \in Nat /\ r \in Nat /\ w \in Nat
      /\ i \in Ids /\ Message(i).index = r
  <2>1. i \in Ids
    BY OnType
  <2> QED
    BY <2>1 DEF TypeOK
<1>3. /\ Len(out') = L + 1 + N
      /\ \A m \in 1..L : out'[m] = out[m]
      /\ out'[L + 1] = i
      /\ \A k \in 1..N : out'[L + 1 + k] = run[k]
      /\ \A m \in 1..Len(out') : \/ m \in 1..L
                                 \/ m = L + 1
                                 \/ \E k \in 1..N : m = L + 1 + k
  <2>1. Joins(out', out, i, run)
    BY <1>2, AppendRun
  <2> QED
    BY <2>1 DEF Joins
<1>4. \A j, k \in OnOrdered(c) : Message(j).index = Message(k).index => j = k
  <2> SUFFICES ASSUME NEW j \in OnOrdered(c), NEW k \in OnOrdered(c), j # k
               PROVE  Message(j).index # Message(k).index
    OBVIOUS
  <2>1. j \in Nat /\ k \in Nat /\ Message(j).index \in Nat /\ Message(k).index \in Nat
    BY OnType
  <2>2. j < k \/ k < j
    BY <2>1
  <2> QED
    BY <2>1, <2>2 DEF IndexesFollowSend
<1>5. \A j \in OnOrdered(c) : Message(j).index \in Nat /\ Message(j).index < w
  BY OnType DEF IndexesFollowSend
<1>6. \A j \in OnOrdered(c) : Message(j).index < r <=> HandedUp(j)
  BY DEF OrderedStream
<1> HIDE DEF r, w, out, L, N
<1>7. \A k \in 1..N : run[k] \in OnOrdered(c) /\ Message(run[k]).index = r + k
  BY DEF r, N
\* where a message of the channel is handed up tells its index
<1>8. ASSUME NEW n \in Nat, NEW j \in OnOrdered(c), At(n, j)'
      PROVE  \/ n \in 1..L /\ At(n, j) /\ Message(j).index < r
             \/ n >= L + 1 /\ n <= L + 1 + N /\ Message(j).index = r + (n - (L + 1))
  <2>1. n \in 1..Len(out') /\ out'[n] = j
    BY <1>8 DEF At, out
  <2>2. CASE n \in 1..L
    <3>1. At(n, j)
      BY <1>3, <2>1, <2>2 DEF At, out, L
    <3>2. HandedUp(j)
      BY <3>1 DEF At, HandedUp
    <3> QED
      BY <1>6, <2>2, <3>1, <3>2
  <2>3. CASE n = L + 1
    BY <1>2, <1>3, <2>1, <2>3
  <2>4. ASSUME NEW k \in 1..N, n = L + 1 + k
        PROVE  n >= L + 1 /\ n <= L + 1 + N /\ Message(j).index = r + (n - (L + 1))
    <3>1. j = run[k]
      BY <1>3, <2>1, <2>4
    <3>2. Message(j).index = r + k
      BY <1>7, <3>1
    <3>3. n - (L + 1) = k /\ n >= L + 1 /\ n <= L + 1 + N
      BY <1>2, <2>4
    <3> QED
      BY <3>2, <3>3
  <2> QED
    BY <1>3, <2>1, <2>2, <2>3, <2>4
<1>9. ASSUME NEW m \in Nat, NEW n \in Nat, m < n,
             NEW j \in OnOrdered(c), NEW k \in OnOrdered(c), At(m, j)', At(n, k)'
      PROVE  Message(j).index < Message(k).index
  <2>1. \/ m \in 1..L /\ At(m, j) /\ Message(j).index < r
        \/ m >= L + 1 /\ Message(j).index = r + (m - (L + 1))
    BY <1>8, <1>9
  <2>2. \/ n \in 1..L /\ At(n, k) /\ Message(k).index < r
        \/ n >= L + 1 /\ Message(k).index = r + (n - (L + 1))
    BY <1>8, <1>9
  <2>3. Message(j).index \in Nat /\ Message(k).index \in Nat
    BY <1>5
  <2>4. CASE At(m, j) /\ At(n, k)
    BY <1>9, <2>4 DEF OrderedStream
  <2>5. CASE m >= L + 1 /\ Message(j).index = r + (m - (L + 1))
    BY <1>2, <1>9, <2>2, <2>3, <2>5
  <2>6. CASE /\ Message(j).index < r
             /\ n >= L + 1 /\ Message(k).index = r + (n - (L + 1))
    BY <1>2, <2>3, <2>6
  <2> QED
    BY <2>1, <2>2, <2>4, <2>5, <2>6
<1>10. ASSUME NEW j \in OnOrdered(c), HandedUp(j)' PROVE Message(j).index < r + N + 1
  <2>1. PICK n \in 1..Len(out') : out'[n] = j
    BY <1>10 DEF HandedUp, out
  <2>2. n \in Nat /\ At(n, j)'
    BY <2>1 DEF At, out
  <2>3. \/ Message(j).index < r
        \/ n >= L + 1 /\ n <= L + 1 + N /\ Message(j).index = r + (n - (L + 1))
    BY <1>8, <2>2
  <2> QED
    BY <1>2, <1>5, <2>2, <2>3
<1>11. ASSUME NEW j \in OnOrdered(c), Message(j).index < r + N + 1 PROVE HandedUp(j)'
  <2>1. CASE Message(j).index < r
    <3>1. PICK n \in 1..L : out[n] = j
      BY <1>6, <2>1 DEF HandedUp, out, L
    <3>2. n \in 1..Len(out') /\ out'[n] = j
      BY <1>2, <1>3, <3>1
    <3> QED
      BY <3>2 DEF HandedUp, out
  <2>2. CASE Message(j).index = r
    <3>1. j = i
      BY <1>2, <1>4, <2>2
    <3>2. L + 1 \in 1..Len(out') /\ out'[L + 1] = j
      BY <1>2, <1>3, <3>1
    <3> QED
      BY <3>2 DEF HandedUp, out
  <2>3. CASE Message(j).index > r
    <3>1. PICK k \in 1..N : Message(j).index = r + k
      <4>1. Message(j).index \in Nat
        BY <1>5
      <4>2. Message(j).index - r \in 1..N /\ Message(j).index = r + (Message(j).index - r)
        BY <1>2, <1>11, <2>3, <4>1
      <4> QED
        BY <4>2
    <3>2. j = run[k]
      BY <1>4, <1>7, <3>1
    <3>3. L + 1 + k \in 1..Len(out') /\ out'[L + 1 + k] = j
      BY <1>2, <1>3, <3>2
    <3> QED
      BY <3>3 DEF HandedUp, out
  <2> QED
    BY <1>2, <1>5, <2>1, <2>2, <2>3
<1>12. r + N + 1 <= w
  <2>1. CASE N = 0
    BY <1>2, <1>5, <2>1
  <2>2. CASE N # 0
    <3>1. run[N] \in OnOrdered(c) /\ Message(run[N]).index = r + N
      BY <1>2, <1>7, <2>2
    <3> QED
      BY <1>2, <1>5, <3>1
  <2> QED
    BY <2>1, <2>2
<1>13. /\ waitingForOrderedPacketReadIndex'[c] = r + N + 1
       /\ waitingForOrderedPacketWriteIndex'[c] = w
  BY DEF r, w, N
<1> QED
  BY <1>1, <1>9, <1>10, <1>11, <1>12, <1>13 DEF OrderedStream

-----------------------------------------------------------------------------
(* What handing a message up does to the streams of each channel.          *)

LEMMA PassUpShape ==
    ASSUME TypeOK, TypeOK', NEW i \in Ids,
           PassUpSequenced(i) \/ PassUpOrdered(i) \/ PassUpOther(i)
    PROVE  /\ Extends(outputQueue', outputQueue)
           /\ \A m \in 1..Len(outputQueue') : m > Len(outputQueue) =>
                 \/ outputQueue'[m] = i
                 \/ Ordered(i) /\ outputQueue'[m] \in orderingList[Message(i).channel]
           /\ \A c \in Channels :
                 /\ orderingList'[c] \subseteq orderingList[c] \cup { i }
                 /\ ~(Ordered(i) /\ c = Message(i).channel) =>
                       /\ orderingList'[c] = orderingList[c]
                       /\ waitingForOrderedPacketReadIndex'[c] =
                             waitingForOrderedPacketReadIndex[c]
                 /\ ~(Sequenced(i) /\ c = Message(i).channel) =>
                       waitingForSequencedPacketReadIndex'[c] =
                          waitingForSequencedPacketReadIndex[c]
<1> DEFINE out == outputQueue
           d == Message(i).channel
           Goal == /\ Extends(out', out)
                   /\ \A m \in 1..Len(out') : m > Len(out) =>
                         out'[m] = i \/ (Ordered(i) /\ out'[m] \in orderingList[d])
           Rest == \A c \in Channels :
                     /\ orderingList'[c] \subseteq orderingList[c] \cup { i }
                     /\ ~(Ordered(i) /\ c = d) =>
                           /\ orderingList'[c] = orderingList[c]
                           /\ waitingForOrderedPacketReadIndex'[c] =
                                 waitingForOrderedPacketReadIndex[c]
                     /\ ~(Sequenced(i) /\ c = d) =>
                           waitingForSequencedPacketReadIndex'[c] =
                              waitingForSequencedPacketReadIndex[c]
<1>1. out \in Seq(Ids) /\ Len(out) \in Nat /\ d \in Channels
  <2>1. d \in Channels
    BY MessageType
  <2> HIDE DEF d
  <2> QED
    BY <2>1 DEF TypeOK
<1>2. /\ waitingForOrderedPacketReadIndex \in [Channels -> Nat]
      /\ waitingForSequencedPacketReadIndex \in [Channels -> Nat]
      /\ orderingList \in [Channels -> SUBSET Ids]
  BY DEF TypeOK
<1>3. ASSUME out' = out PROVE Goal
  BY <1>1, <1>3 DEF Extends
<1>4. ASSUME out' = Append(out, i) PROVE Goal
  <2>1. /\ Len(out') = Len(out) + 1 /\ out'[Len(out) + 1] = i
        /\ \A m \in 1..Len(out) : out'[m] = out[m]
    BY <1>1, <1>4
  <2> DEFINE next == out'
  <2> HIDE DEF out, next
  <2>2. Len(next) = Len(out) + 1 /\ next[Len(out) + 1] = i
    BY <2>1 DEF next
  <2>3. \A m \in 1..Len(next) : m > Len(out) => next[m] = i
    BY <1>1, <2>2
  <2>4. Extends(next, out)
    BY <1>1, <2>1, <2>2 DEF Extends, next
  <2> QED
    BY <2>3, <2>4 DEF next, out
<1> HIDE DEF d
<1>5. CASE PassUpSequenced(i)
  <2>1. Goal
    BY <1>3, <1>4, <1>5 DEF PassUpSequenced
  <2>2. Sequenced(i) /\ UNCHANGED << waitingForOrderedPacketReadIndex, orderingList >>
    BY <1>5 DEF PassUpSequenced
  <2>3. \/ waitingForSequencedPacketReadIndex' = waitingForSequencedPacketReadIndex
        \/ waitingForSequencedPacketReadIndex' =
              [waitingForSequencedPacketReadIndex EXCEPT ![d] = Message(i).index + 1]
    BY <1>5 DEF PassUpSequenced, d
  <2>4. \A c \in Channels : c # d =>
           waitingForSequencedPacketReadIndex'[c] = waitingForSequencedPacketReadIndex[c]
    BY <1>2, <2>3
  <2> QED
    BY <2>1, <2>2, <2>4 DEF d
<1>6. CASE PassUpOther(i)
  BY <1>4, <1>6 DEF PassUpOther, d
<1>7. CASE PassUpOrdered(i)
  <2> DEFINE waiting == waitingForOrderedPacketReadIndex[d]
  <2>1. Ordered(i) /\ UNCHANGED waitingForSequencedPacketReadIndex
    BY <1>7 DEF PassUpOrdered
  <2>2. CASE Message(i).index % NumberRange # waiting % NumberRange
    <3>1. /\ orderingList' = [orderingList EXCEPT ![d] = @ \cup { i }]
          /\ UNCHANGED << waitingForOrderedPacketReadIndex, outputQueue >>
      BY <1>7, <2>2 DEF PassUpOrdered, d
    <3>2. Goal
      BY <1>3, <3>1
    <3>3. \A c \in Channels : /\ orderingList'[c] \subseteq orderingList[c] \cup { i }
                              /\ c # d => orderingList'[c] = orderingList[c]
      BY <1>2, <3>1
    <3> QED
      BY <2>1, <3>1, <3>2, <3>3 DEF d
  <2>3. CASE Message(i).index % NumberRange = waiting % NumberRange
    <3>1. PICK n \in 0..(NumberRange - 1) : \E run \in [1..n -> orderingList[d]] :
            /\ outputQueue' = Append(outputQueue, i) \o run
            /\ waitingForOrderedPacketReadIndex' =
                  [waitingForOrderedPacketReadIndex EXCEPT ![d] = @ + n + 1]
            /\ orderingList' =
                  [orderingList EXCEPT ![d] = @ \ { run[k] : k \in 1..n }]
      BY <1>7, <2>3 DEF PassUpOrdered, d
    <3>2. PICK run \in [1..n -> orderingList[d]] :
            /\ outputQueue' = Append(outputQueue, i) \o run
            /\ waitingForOrderedPacketReadIndex' =
                  [waitingForOrderedPacketReadIndex EXCEPT ![d] = @ + n + 1]
            /\ orderingList' =
                  [orderingList EXCEPT ![d] = @ \ { run[k] : k \in 1..n }]
      BY <3>1
    <3>3. n \in Nat /\ Len(run) = n /\ run \in Seq(Ids)
      <4>1. n \in Nat
        BY ConstantFacts
      <4>2. orderingList[d] \subseteq Ids
        BY <1>1, <1>2 DEF d
      <4> QED
        BY <4>1, <4>2
    <3>4. \A k \in 1..n : run[k] \in orderingList[d]
      OBVIOUS
    <3> DEFINE next == outputQueue'
    <3>5. next = Append(out, i) \o run
      BY <3>2
    <3> HIDE DEF next, out
    <3>6. /\ Extends(next, out)
          /\ \A m \in 1..Len(next) : m > Len(out) =>
                next[m] = i \/ \E k \in 1..Len(run) : next[m] = run[k]
      <4>1. out \in Seq(Ids) /\ run \in Seq(Ids) /\ i \in Ids
        BY <1>1, <3>3
      <4>2. Joins(next, out, i, run)
        BY <3>5, <4>1, AppendRun
      <4> QED
        BY <1>1, <3>3, <4>2, HandedUpTogether
    <3>7. /\ Extends(next, out)
          /\ \A m \in 1..Len(next) : m > Len(out) =>
                next[m] = i \/ (Ordered(i) /\ next[m] \in orderingList[d])
      BY <2>1, <3>3, <3>4, <3>6
    <3>8. \A c \in Channels :
             /\ orderingList'[c] \subseteq orderingList[c]
             /\ c # d => /\ orderingList'[c] = orderingList[c]
                         /\ waitingForOrderedPacketReadIndex'[c] =
                               waitingForOrderedPacketReadIndex[c]
      BY <1>2, <3>2
    <3>9. Rest
      BY <2>1, <3>8
    <3> QED
      BY <3>7, <3>9 DEF d, out, next
  <2> QED
    BY <2>2, <2>3
<1> QED
  BY <1>5, <1>6, <1>7

\* What the channel waits for is less than a round behind what was sent.
LEMMA LagInRange ==
    ASSUME TypeOK, NEW c \in Channels, IndexesFollowSend, OrderedStream(c),
           StoredIsNewer(c), ~Overtaken(c)
    PROVE  waitingForOrderedPacketWriteIndex[c] - waitingForOrderedPacketReadIndex[c]
              <= NumberRange
<1> DEFINE r == waitingForOrderedPacketReadIndex[c]
           w == waitingForOrderedPacketWriteIndex[c]
<1>1. r \in Nat /\ w \in Nat /\ r <= w /\ NumberRange \in Nat
  BY ConstantFacts DEF TypeOK, OrderedStream
<1>2. CASE r = w
  BY <1>1, <1>2
<1>3. CASE r < w
  <2>1. r \in 0..(w - 1)
    BY <1>1, <1>3
  <2>2. PICK g \in OnOrdered(c) : Message(g).index = r
    BY <2>1 DEF IndexesFollowSend
  <2>3. ~HandedUp(g)
    BY <1>1, <2>2 DEF OrderedStream
  <2>4. g \notin orderingList[c]
    BY <1>1, <2>2 DEF StoredIsNewer
  <2>5. ~(r + NumberRange < w)
    BY <2>2, <2>3, <2>4 DEF Overtaken
  <2> QED
    BY <1>1, <2>5
<1> QED
  BY <1>1, <1>2, <1>3

\* An ordered message that was not handed up is handed up in its turn, with the
\* run behind it, or stored as newer.
LEMMA OrderedPassedUp ==
    ASSUME TypeOK, TypeOK', NEW c \in Channels, IndexesFollowSend, StoredOnStream,
           OrderedStream(c), StoredIsNewer(c), ~Overtaken(c),
           NEW i \in OnOrdered(c), ~HandedUp(i), PassUpOrdered(i),
           UNCHANGED << sent, waitingForOrderedPacketWriteIndex >>
    PROVE  OrderedStream(c)' /\ StoredIsNewer(c)'
<1> DEFINE r == waitingForOrderedPacketReadIndex[c]
           w == waitingForOrderedPacketWriteIndex[c]
           x == Message(i).index
           R == NumberRange
<1>1. /\ \A j : Message(j)' = Message(j)
      /\ OnOrdered(c)' = OnOrdered(c)
  BY SentStays
<1>2. i \in Ids /\ x \in Nat /\ Message(i).channel = c
  BY OnType
<1>3. /\ r \in Nat /\ w \in Nat /\ R \in Nat \ {0}
      /\ waitingForOrderedPacketReadIndex \in [Channels -> Nat]
      /\ orderingList \in [Channels -> SUBSET Ids]
      /\ orderingList[c] \subseteq OnOrdered(c)
  BY ConstantFacts DEF TypeOK, StoredOnStream
<1>4. w - r <= R
  BY LagInRange
<1>5. x >= r /\ x < w
  <2>1. ~(x < r)
    BY DEF OrderedStream
  <2>2. x < w
    BY DEF IndexesFollowSend
  <2> QED
    BY <1>2, <1>3, <2>1, <2>2
<1>6. \A j \in orderingList[c] :
         /\ j \in OnOrdered(c) /\ Message(j).index \in Nat
         /\ Message(j).index > r /\ Message(j).index < w
  BY <1>3, OnType DEF StoredIsNewer, IndexesFollowSend
\* indexes that may come are alike only when they are the same
<1>7. \A y, z \in Nat : y >= r /\ y < r + R /\ z >= r /\ z < r + R /\ y % R = z % R => y = z
  <2> SUFFICES ASSUME NEW y \in Nat, NEW z \in Nat, y >= r, y < r + R,
                      z >= r, z < r + R, y % R = z % R
               PROVE  y = z
    OBVIOUS
  <2> HIDE DEF r, R
  <2>1. y - z < R /\ z - y < R /\ y \in Int /\ z \in Int
    BY <1>3
  <2> QED
    BY <1>3, <2>1, NearAndAlike
<1>8. CASE x % R # r % R
  <2>1. /\ orderingList' = [orderingList EXCEPT ![c] = @ \cup { i }]
        /\ UNCHANGED << waitingForOrderedPacketReadIndex, outputQueue >>
    BY <1>2, <1>8 DEF PassUpOrdered
  <2>2. x > r
    BY <1>2, <1>3, <1>5, <1>8
  <2>3. \A j \in orderingList'[c] : j \in orderingList[c] \/ j = i
    BY <1>3, <2>1
  <2>4. StoredIsNewer(c)'
    BY <1>1, <1>6, <2>1, <2>2, <2>3 DEF StoredIsNewer
  <2>5. OrderedStream(c)'
    BY <1>1, <2>1 DEF OrderedStream, HandedUp, At
  <2> QED
    BY <2>4, <2>5
<1>9. CASE x % R = r % R
  <2>1. PICK n \in 0..(R - 1) : \E run \in [1..n -> orderingList[c]] :
          /\ IsRun(run, n, c, r)
          /\ outputQueue' = Append(outputQueue, i) \o run
          /\ waitingForOrderedPacketReadIndex' =
                [waitingForOrderedPacketReadIndex EXCEPT ![c] = @ + n + 1]
          /\ orderingList' =
                [orderingList EXCEPT ![c] = @ \ { run[k] : k \in 1..n }]
    BY <1>2, <1>9 DEF PassUpOrdered
  <2>2. PICK run \in [1..n -> orderingList[c]] :
          /\ IsRun(run, n, c, r)
          /\ outputQueue' = Append(outputQueue, i) \o run
          /\ waitingForOrderedPacketReadIndex' =
                [waitingForOrderedPacketReadIndex EXCEPT ![c] = @ + n + 1]
          /\ orderingList' =
                [orderingList EXCEPT ![c] = @ \ { run[k] : k \in 1..n }]
    BY <2>1
  <2>3. n \in Nat /\ n <= R - 1 /\ Len(run) = n /\ run \in Seq(Ids)
    <3>1. n \in Nat /\ n <= R - 1
      BY <1>3
    <3>2. orderingList[c] \subseteq Ids
      BY <1>3
    <3> QED
      BY <3>1, <3>2
  <2>4. x = r
    BY <1>2, <1>3, <1>4, <1>5, <1>7, <1>9, SMTT(30)
  <2>5. \A j \in orderingList[c] : \A k \in Nat :
           k < R /\ Message(j).index % R = (r + k) % R => Message(j).index = r + k
    <3> SUFFICES ASSUME NEW j \in orderingList[c], NEW k \in Nat, k < R,
                        Message(j).index % R = (r + k) % R
                 PROVE  Message(j).index = r + k
      OBVIOUS
    <3>1. /\ Message(j).index \in Nat /\ Message(j).index >= r
          /\ Message(j).index < r + R
      BY <1>3, <1>4, <1>6
    <3>2. r + k \in Nat /\ r + k >= r /\ r + k < r + R
      <4> HIDE DEF r, R
      <4> QED
        BY <1>3
    <3> QED
      BY <1>7, <3>1, <3>2
  <2>6. /\ \A k \in 1..n : /\ run[k] \in orderingList[c]
                           /\ Message(run[k]).index % R = (r + k) % R
        /\ n < R - 1 => \A j \in orderingList[c] :
                           Message(j).index % R # (r + n + 1) % R
    BY <2>2 DEF IsRun, Buffered
  <2>7. ASSUME NEW k \in 1..n
        PROVE  run[k] \in OnOrdered(c) /\ Message(run[k]).index = r + k
    <3>1. k \in Nat /\ k < R
      BY <1>3, <2>3
    <3> QED
      BY <1>6, <2>5, <2>6, <3>1
  <2>8. waitingForOrderedPacketReadIndex'[c] = r + n + 1
    BY <1>3, <2>2
  <2>9. orderingList'[c] = orderingList[c] \ { run[k] : k \in 1..n }
    BY <1>3, <2>2
  <2>10. OrderedStream(c)'
    BY <2>2, <2>3, <2>4, <2>7, <2>8, OrderedHandedUp
  <2>11. ASSUME NEW j \in orderingList'[c] PROVE Message(j).index > r + n + 1
    <3> DEFINE y == Message(j).index
    <3>1. j \in orderingList[c] /\ \A k \in 1..n : j # run[k]
      BY <2>9
    <3>2. y \in Nat /\ y > r /\ y < r + R
      BY <1>3, <1>4, <1>6, <3>1
    <3>3. ASSUME y <= r + n PROVE FALSE
      <4>1. y - r \in 1..n /\ r + (y - r) = y
        <5>1. y \in Nat /\ r \in Nat /\ n \in Nat /\ y > r
          BY <1>3, <2>3, <3>2
        <5> HIDE DEF y, r
        <5> QED
          BY <3>3, <5>1
      <4>2. PICK k \in 1..n : y = r + k
        BY <4>1
      <4>3. Message(run[k]).index = y /\ run[k] \in OnOrdered(c)
        BY <2>7, <4>2
      <4>4. j \in OnOrdered(c) /\ j \in Nat /\ run[k] \in Nat
        BY <1>6, <3>1, <4>3, OnType
      <4>5. j < run[k] \/ run[k] < j
        BY <3>1, <4>4
      <4> QED
        BY <3>2, <4>3, <4>4, <4>5 DEF IndexesFollowSend
    <3>4. y # r + n + 1
      <4>1. CASE n < R - 1
        <5>1. y % R # (r + n + 1) % R
          BY <2>6, <3>1, <4>1
        <5> QED
          BY <5>1
      <4>2. CASE n = R - 1
        BY <1>3, <2>3, <3>2, <4>2
      <4> QED
        BY <1>3, <2>3, <4>1, <4>2
    <3> HIDE DEF y
    <3>5. y > r + n + 1
      BY <1>3, <2>3, <3>2, <3>3, <3>4
    <3> QED
      BY <3>5 DEF y
  <2>12. StoredIsNewer(c)'
    BY <1>1, <2>8, <2>11 DEF StoredIsNewer
  <2> QED
    BY <2>10, <2>12
<1> QED
  BY <1>8, <1>9

\* A message that is missing for good stays so: it is out of use by then.
LEMMA OvertakenStays ==
    ASSUME TypeOK, TypeOK', InUseIsRecent', IndexesFollowSend', NEW c \in Channels,
           Overtaken(c),
           \A i \in OnOrdered(c) : /\ i \in OnOrdered(c)'
                                   /\ Message(i)' = Message(i),
           waitingForOrderedPacketWriteIndex'[c] >= waitingForOrderedPacketWriteIndex[c],
           \A i \in OnOrdered(c) :
              HandedUp(i)' \/ i \in orderingList'[c]
              => HandedUp(i) \/ i \in orderingList[c] \/ i \in wire'
    PROVE  Overtaken(c)'
<1>1. PICK g \in OnOrdered(c) :
        /\ ~HandedUp(g) /\ g \notin orderingList[c]
        /\ Message(g).index + NumberRange < waitingForOrderedPacketWriteIndex[c]
  BY DEF Overtaken
<1>2. /\ g \in OnOrdered(c)' /\ Message(g)' = Message(g)
      /\ Message(g).index \in Nat /\ g \in Nat
  BY OnType
<1>3. /\ waitingForOrderedPacketWriteIndex'[c] \in Nat
      /\ waitingForOrderedPacketWriteIndex[c] \in Nat
      /\ messageNumber' \in Nat /\ NumberRange \in Nat /\ SendLimit \in Nat
      /\ SendLimit < NumberRange
  BY ConstantFacts DEF TypeOK, messageNumber
<1>4. waitingForOrderedPacketWriteIndex'[c] - Message(g).index <= messageNumber' - g
  BY <1>2 DEF IndexesFollowSend
<1>5. messageNumber' - g > SendLimit
  BY <1>1, <1>2, <1>3, <1>4
<1>6. g \notin wire'
  <2> SUFFICES ASSUME g \in wire' PROVE FALSE
    OBVIOUS
  <2> DEFINE new == messageNumber'
  <2>1. new - g <= SendLimit
    BY DEF InUseIsRecent, InUse
  <2>2. new \in Nat /\ SendLimit \in Nat /\ g \in Nat /\ new - g > SendLimit
    BY <1>2, <1>3, <1>5
  <2> HIDE DEF new
  <2> QED
    BY <2>1, <2>2
<1>7. ~HandedUp(g)' /\ g \notin orderingList'[c]
  BY <1>1, <1>6
<1>8. Message(g)'.index + NumberRange < waitingForOrderedPacketWriteIndex'[c]
  BY <1>1, <1>2, <1>3
<1> QED
  BY <1>2, <1>7, <1>8 DEF Overtaken

-----------------------------------------------------------------------------
(* The invariant of the streams.                                           *)

OrderHolds(c) == Overtaken(c) \/ (OrderedStream(c) /\ StoredIsNewer(c))

StreamsInv ==
    /\ IndexesFollowSend
    /\ StoredOnStream
    /\ \A c \in Channels : OrderHolds(c)

SequencedInv == \A c \in Channels : SequencedStream(c)

\* A message of another stream, or of none, leaves channel c alone.
LEMMA OthersPassedUp ==
    ASSUME TypeOK, TypeOK', StoredOnStream, NEW c \in Channels, OrderedStream(c),
           NEW i \in Ids, i \notin OnOrdered(c),
           PassUpSequenced(i) \/ PassUpOrdered(i) \/ PassUpOther(i),
           UNCHANGED << sent, waitingForOrderedPacketWriteIndex >>
    PROVE  /\ OrderedStream(c)'
           /\ orderingList'[c] = orderingList[c]
           /\ waitingForOrderedPacketReadIndex'[c] = waitingForOrderedPacketReadIndex[c]
<1>1. /\ Extends(outputQueue', outputQueue)
      /\ \A m \in 1..Len(outputQueue') : m > Len(outputQueue) =>
            \/ outputQueue'[m] = i
            \/ Ordered(i) /\ outputQueue'[m] \in orderingList[Message(i).channel]
      /\ ~(Ordered(i) /\ c = Message(i).channel) =>
            /\ orderingList'[c] = orderingList[c]
            /\ waitingForOrderedPacketReadIndex'[c] = waitingForOrderedPacketReadIndex[c]
  BY PassUpShape
<1>2. /\ orderingList'[c] = orderingList[c]
      /\ waitingForOrderedPacketReadIndex'[c] = waitingForOrderedPacketReadIndex[c]
  BY <1>1 DEF OnOrdered
<1>3. ASSUME NEW m \in 1..Len(outputQueue'), m > Len(outputQueue)
      PROVE  outputQueue'[m] \notin OnOrdered(c)
  <2>1. CASE outputQueue'[m] = i
    BY <2>1
  <2>2. CASE Ordered(i) /\ outputQueue'[m] \in orderingList[Message(i).channel]
    <3>1. Message(i).channel \in Channels /\ Message(i).channel # c
      BY <2>2, MessageType DEF OnOrdered
    <3>2. outputQueue'[m] \in OnOrdered(Message(i).channel)
      BY <2>2, <3>1 DEF StoredOnStream
    <3> QED
      BY <3>1, <3>2 DEF OnOrdered
  <2> QED
    BY <1>1, <1>3, <2>1, <2>2
<1>4. OrderedStream(c)'
  BY <1>1, <1>2, <1>3, OrderedUntouched
<1> QED
  BY <1>2, <1>4

\* What is stored for a channel comes from that channel.
LEMMA PassUpKeepsStored ==
    ASSUME TypeOK, TypeOK', StoredOnStream, NEW i \in Ids, UNCHANGED sent,
           PassUpSequenced(i) \/ PassUpOrdered(i) \/ PassUpOther(i)
    PROVE  StoredOnStream'
<1>1. \A c : OnOrdered(c)' = OnOrdered(c)
  BY SentStays
<1>2. \A c \in Channels :
         /\ orderingList'[c] \subseteq orderingList[c] \cup { i }
         /\ ~(Ordered(i) /\ c = Message(i).channel) => orderingList'[c] = orderingList[c]
  BY PassUpShape
<1>3. i \in OnOrdered(Message(i).channel) <=> Ordered(i)
  BY DEF OnOrdered
<1> QED
  BY <1>1, <1>2, <1>3 DEF StoredOnStream

\* A message that arrives is none that an overtaken channel misses.
LEMMA DeliverKeepsOvertaken ==
    ASSUME TypeOK, TypeOK', InUseIsRecent', StoredOnStream, IndexesFollowSend',
           NEW i \in wire, Deliver(i), ~IsDuplicate(i), NEW c \in Channels, Overtaken(c)
    PROVE  Overtaken(c)'
<1>1. UNCHANGED << sent, waitingForOrderedPacketWriteIndex, wire >>
  BY DEF Deliver, sender
<1>2. /\ \A j : Message(j)' = Message(j)
      /\ OnOrdered(c)' = OnOrdered(c)
  BY <1>1, SentStays
<1>3. i \in Ids /\ waitingForOrderedPacketWriteIndex[c] \in Nat
  BY DEF TypeOK
<1>4. /\ Extends(outputQueue', outputQueue)
      /\ \A m \in 1..Len(outputQueue') : m > Len(outputQueue) =>
            \/ outputQueue'[m] = i
            \/ Ordered(i) /\ outputQueue'[m] \in orderingList[Message(i).channel]
      /\ orderingList'[c] \subseteq orderingList[c] \cup { i }
  <2>1. PassUpSequenced(i) \/ PassUpOrdered(i) \/ PassUpOther(i)
    BY DEF Deliver
  <2> QED
    BY <1>3, <2>1, PassUpShape
<1>5. ASSUME NEW j \in OnOrdered(c), NEW m \in 1..Len(outputQueue'), outputQueue'[m] = j
      PROVE  HandedUp(j) \/ j \in orderingList[c] \/ j = i
  <2>1. CASE m > Len(outputQueue)
    <3>1. j = i \/ j \in orderingList[Message(i).channel]
      BY <1>4, <1>5, <2>1
    <3>2. CASE j \in orderingList[Message(i).channel]
      <4>1. Message(i).channel \in Channels
        BY <1>3, MessageType
      <4>2. Message(j).channel = Message(i).channel /\ Message(j).channel = c
        BY <3>2, <4>1 DEF StoredOnStream, OnOrdered
      <4> QED
        BY <3>2, <4>2
    <3> QED
      BY <3>1, <3>2
  <2>2. CASE ~(m > Len(outputQueue))
    <3>1. Len(outputQueue) \in Nat /\ Len(outputQueue') \in Nat
      BY DEF TypeOK
    <3>2. m \in 1..Len(outputQueue)
      BY <2>2, <3>1
    <3>3. outputQueue[m] = j
      BY <1>4, <1>5, <3>2 DEF Extends
    <3> QED
      BY <3>2, <3>3 DEF HandedUp
  <2> QED
    BY <2>1, <2>2
<1>6. ASSUME NEW j \in OnOrdered(c), HandedUp(j)' \/ j \in orderingList'[c]
      PROVE  HandedUp(j) \/ j \in orderingList[c] \/ j \in wire'
  BY <1>1, <1>4, <1>5, <1>6 DEF HandedUp
<1> QED
  BY <1>1, <1>2, <1>3, <1>6, OvertakenStays

\* A message that is no duplicate, and so was not handed up before.
LEMMA DeliverKeepsOrder ==
    ASSUME TypeOK, TypeOK', InUseIsRecent', StreamsInv, IndexesFollowSend',
           NEW i \in wire, Deliver(i), ~IsDuplicate(i) => ~HandedUp(i)
    PROVE  StoredOnStream' /\ \A c \in Channels : OrderHolds(c)'
<1>1. TypeOK /\ TypeOK' /\ InUseIsRecent'
  OBVIOUS
<1>2. UNCHANGED << sent, waitingForOrderedPacketWriteIndex, wire >>
  BY DEF Deliver, sender
<1>3. /\ \A j : Message(j)' = Message(j)
      /\ \A c : OnOrdered(c)' = OnOrdered(c)
  BY <1>2, SentStays
<1>4. IndexesFollowSend /\ StoredOnStream /\ \A c \in Channels : OrderHolds(c)
  BY DEF StreamsInv
<1>5. i \in Ids
  BY <1>1 DEF TypeOK
<1>6. CASE IsDuplicate(i)
  <2>1. UNCHANGED << waitingForOrderedPacketReadIndex, orderingList, outputQueue >>
    BY <1>6 DEF Deliver, streams
  <2> QED
    BY <1>2, <1>3, <1>4, <2>1
    DEF StoredOnStream, OrderHolds, Overtaken, OrderedStream, StoredIsNewer, HandedUp, At
<1>7. CASE ~IsDuplicate(i)
  <2>1. PassUpSequenced(i) \/ PassUpOrdered(i) \/ PassUpOther(i)
    BY <1>7 DEF Deliver
  <2>2. ~HandedUp(i)
    BY <1>7
  <2>3. /\ Extends(outputQueue', outputQueue)
        /\ \A m \in 1..Len(outputQueue') : m > Len(outputQueue) =>
              \/ outputQueue'[m] = i
              \/ Ordered(i) /\ outputQueue'[m] \in orderingList[Message(i).channel]
        /\ \A c \in Channels :
              /\ orderingList'[c] \subseteq orderingList[c] \cup { i }
              /\ ~(Ordered(i) /\ c = Message(i).channel) =>
                    /\ orderingList'[c] = orderingList[c]
                    /\ waitingForOrderedPacketReadIndex'[c] =
                          waitingForOrderedPacketReadIndex[c]
    BY <1>1, <1>5, <2>1, PassUpShape
  <2>4. i \in OnOrdered(Message(i).channel) <=> Ordered(i)
    BY <1>5 DEF OnOrdered
  <2>5. \A c \in Channels : i \in OnOrdered(c) => Ordered(i) /\ c = Message(i).channel
    BY DEF OnOrdered
  <2>6. StoredOnStream'
    BY <1>1, <1>2, <1>4, <1>5, <2>1, PassUpKeepsStored
  <2>7. ASSUME NEW c \in Channels PROVE OrderHolds(c)'
    <3>1. CASE Overtaken(c)
      BY <1>4, <1>7, <3>1, DeliverKeepsOvertaken DEF OrderHolds
    <3>2. CASE ~Overtaken(c) /\ i \in OnOrdered(c)
      <4>1. OrderedStream(c) /\ StoredIsNewer(c)
        BY <1>4, <3>2 DEF OrderHolds
      <4>2. PassUpOrdered(i)
        BY <2>1, <2>5, <3>2 DEF PassUpSequenced, PassUpOther, Ordered, Sequenced
      <4>3. OrderedStream(c)' /\ StoredIsNewer(c)'
        BY <1>1, <1>2, <1>4, <2>2, <3>2, <4>1, <4>2, OrderedPassedUp
      <4> QED
        BY <4>3 DEF OrderHolds
    <3>3. CASE ~Overtaken(c) /\ i \notin OnOrdered(c)
      <4>1. OrderedStream(c) /\ StoredIsNewer(c)
        BY <1>4, <3>3 DEF OrderHolds
      <4>2. /\ OrderedStream(c)'
            /\ orderingList'[c] = orderingList[c]
            /\ waitingForOrderedPacketReadIndex'[c] = waitingForOrderedPacketReadIndex[c]
        BY <1>1, <1>2, <1>4, <1>5, <2>1, <3>3, <4>1, OthersPassedUp
      <4>3. StoredIsNewer(c)'
        BY <1>3, <4>1, <4>2 DEF StoredIsNewer
      <4> QED
        BY <4>2, <4>3 DEF OrderHolds
    <3> QED
      BY <3>1, <3>2, <3>3
  <2> QED
    BY <2>6, <2>7
<1> QED
  BY <1>6, <1>7


\* What a call to Send does to the ordered stream of channel c.
LEMMA SendOnStream ==
    ASSUME TypeOK, NEW k \in Traffic, Send(k), NEW c \in Channels
    PROVE  /\ UNCHANGED << waitingForOrderedPacketReadIndex, orderingList, outputQueue >>
           /\ waitingForOrderedPacketWriteIndex[c] \in Nat
           /\ waitingForOrderedPacketWriteIndex'[c] \in Nat
           /\ waitingForOrderedPacketWriteIndex'[c] >= waitingForOrderedPacketWriteIndex[c]
           /\ \A i \in OnOrdered(c) : i \in OnOrdered(c)' /\ Message(i)' = Message(i)
           /\ \A i \in OnOrdered(c)' :
                 \/ i \in OnOrdered(c)
                 \/ /\ i \notin Ids
                    /\ Message(i)'.index = waitingForOrderedPacketWriteIndex[c]
<1> SUFFICES ASSUME NEW new, new = messageNumber
             PROVE  /\ UNCHANGED << waitingForOrderedPacketReadIndex, orderingList, outputQueue >>
                    /\ waitingForOrderedPacketWriteIndex[c] \in Nat
                    /\ waitingForOrderedPacketWriteIndex'[c] \in Nat
                    /\ waitingForOrderedPacketWriteIndex'[c] >= waitingForOrderedPacketWriteIndex[c]
                    /\ \A i \in OnOrdered(c) : i \in OnOrdered(c)' /\ Message(i)' = Message(i)
                    /\ \A i \in OnOrdered(c)' :
                          \/ i \in OnOrdered(c)
                          \/ /\ i \notin Ids
                             /\ Message(i)'.index = waitingForOrderedPacketWriteIndex[c]
  OBVIOUS
<1>1. /\ k \in Kinds /\ new \in Nat
      /\ Ids' = Ids \cup { new } /\ new \notin Ids
      /\ \A i \in Ids : /\ Message(i)' = Message(i)
                        /\ Ordered(i)' = Ordered(i) /\ Sequenced(i)' = Sequenced(i)
      /\ Message(new)' = [reliability |-> k.reliability,
                          channel |-> k.channel, index |-> OrderingIndex(k)]
      /\ UNCHANGED << resendQueue, resendList, wire, ackWire, receiver >>
  BY SendAdds
<1>2. UNCHANGED << waitingForOrderedPacketReadIndex, orderingList, outputQueue >>
  BY <1>1 DEF receiver, streams
<1>3. /\ waitingForOrderedPacketWriteIndex \in [Channels -> Nat]
      /\ k.channel \in Channels /\ TakeOrderingIndex(k)
  BY <1>1 DEF TypeOK, Kinds, Send
<1>4. /\ Ordered(new)' <=> k.reliability = "RELIABLE_ORDERED"
      /\ Message(new)'.channel = k.channel
      /\ Ordered(new)' => Message(new)'.index = waitingForOrderedPacketWriteIndex[k.channel]
  BY <1>1 DEF Ordered, OrderingIndex
<1>5. /\ waitingForOrderedPacketWriteIndex[c] \in Nat
      /\ waitingForOrderedPacketWriteIndex'[c] \in
            { waitingForOrderedPacketWriteIndex[c], waitingForOrderedPacketWriteIndex[c] + 1 }
  BY <1>3 DEF TakeOrderingIndex
<1>6. OnOrdered(c)' = { i \in Ids' : Ordered(i)' /\ Message(i)'.channel = c }
  BY DEF OnOrdered
<1>7. OnOrdered(c) = { i \in Ids : Ordered(i) /\ Message(i).channel = c }
  BY DEF OnOrdered
<1>8. /\ \A i \in OnOrdered(c) : i \in OnOrdered(c)' /\ Message(i)' = Message(i)
      /\ \A i \in OnOrdered(c)' :
            i \in OnOrdered(c) \/ (i = new /\ Ordered(new)' /\ c = k.channel)
  BY <1>1, <1>4, <1>6, <1>7
<1> QED
  BY <1>1, <1>2, <1>4, <1>5, <1>8

LEMMA SendKeepsOrderedStream ==
    ASSUME TypeOK, NEW k \in Traffic, Send(k), NEW c \in Channels, OrderedStream(c)
    PROVE  OrderedStream(c)'
<1>1. /\ UNCHANGED << waitingForOrderedPacketReadIndex, orderingList, outputQueue >>
      /\ waitingForOrderedPacketWriteIndex[c] \in Nat
      /\ waitingForOrderedPacketWriteIndex'[c] \in Nat
      /\ waitingForOrderedPacketWriteIndex'[c] >= waitingForOrderedPacketWriteIndex[c]
      /\ \A i \in OnOrdered(c) : i \in OnOrdered(c)' /\ Message(i)' = Message(i)
      /\ \A i \in OnOrdered(c)' :
            \/ i \in OnOrdered(c)
            \/ /\ i \notin Ids
               /\ Message(i)'.index = waitingForOrderedPacketWriteIndex[c]
  BY SendOnStream
<1>2. /\ waitingForOrderedPacketReadIndex[c] <= waitingForOrderedPacketWriteIndex[c]
      /\ waitingForOrderedPacketReadIndex[c] \in Nat
      /\ outputQueue \in Seq(Ids)
  BY DEF OrderedStream, TypeOK
<1>3. \A i : i \notin Ids => ~HandedUp(i) /\ \A n \in Nat : ~At(n, i)
  BY <1>2 DEF HandedUp, At
<1>4. \A i : /\ HandedUp(i)' <=> HandedUp(i)
             /\ \A n \in Nat : At(n, i)' <=> At(n, i)
  BY <1>1 DEF HandedUp, At
<1>5. ASSUME NEW i \in OnOrdered(c)'
      PROVE  Message(i)'.index < waitingForOrderedPacketReadIndex[c] <=> HandedUp(i)
  <2>1. CASE i \in OnOrdered(c)
    BY <1>1, <2>1 DEF OrderedStream
  <2>2. CASE i \notin Ids /\ Message(i)'.index = waitingForOrderedPacketWriteIndex[c]
    BY <1>1, <1>2, <1>3, <2>2
  <2> QED
    BY <1>1, <2>1, <2>2
<1>6. ASSUME NEW m \in Nat, NEW n \in Nat, NEW i \in OnOrdered(c)',
             NEW j \in OnOrdered(c)', m < n, At(m, i), At(n, j)
      PROVE  Message(i)'.index < Message(j)'.index
  <2>1. i \in OnOrdered(c) /\ j \in OnOrdered(c)
    BY <1>1, <1>3, <1>6
  <2>2. Message(i).index < Message(j).index
    BY <1>6, <2>1 DEF OrderedStream
  <2> QED
    BY <1>1, <2>1, <2>2
<1>7. waitingForOrderedPacketReadIndex'[c] <= waitingForOrderedPacketWriteIndex'[c]
  BY <1>1, <1>2
<1>8. \A i \in OnOrdered(c)' :
         Message(i)'.index < waitingForOrderedPacketReadIndex'[c] <=> HandedUp(i)'
  BY <1>1, <1>4, <1>5
<1>9. \A m, n \in Nat : \A i, j \in OnOrdered(c)' :
         m < n /\ At(m, i)' /\ At(n, j)' => Message(i)'.index < Message(j)'.index
  BY <1>4, <1>6
<1> QED
  BY <1>7, <1>8, <1>9 DEF OrderedStream

LEMMA SendKeepsStored ==
    ASSUME TypeOK, StoredOnStream, NEW k \in Traffic, Send(k) PROVE StoredOnStream'
<1> SUFFICES ASSUME NEW c \in Channels PROVE orderingList'[c] \subseteq OnOrdered(c)'
  BY DEF StoredOnStream
<1>1. /\ orderingList' = orderingList
      /\ \A i \in OnOrdered(c) : i \in OnOrdered(c)'
  BY SendOnStream
<1> QED
  BY <1>1 DEF StoredOnStream

LEMMA SendKeepsOrder ==
    ASSUME TypeOK, TypeOK', InUseIsRecent', StreamsInv, IndexesFollowSend',
           NEW k \in Traffic, Send(k), NEW c \in Channels
    PROVE  OrderHolds(c)'
<1>1. IndexesFollowSend /\ StoredOnStream /\ OrderHolds(c)
  BY DEF StreamsInv
<1>2. /\ UNCHANGED << waitingForOrderedPacketReadIndex, orderingList, outputQueue >>
      /\ waitingForOrderedPacketWriteIndex'[c] >= waitingForOrderedPacketWriteIndex[c]
      /\ \A i \in OnOrdered(c) : i \in OnOrdered(c)' /\ Message(i)' = Message(i)
  BY SendOnStream
<1>3. CASE Overtaken(c)
  <2>1. \A i : HandedUp(i)' <=> HandedUp(i)
    BY <1>2 DEF HandedUp
  <2>2. Overtaken(c)'
    BY <1>2, <1>3, <2>1, OvertakenStays
  <2> QED
    BY <2>2 DEF OrderHolds
<1>4. CASE OrderedStream(c) /\ StoredIsNewer(c)
  <2>1. OrderedStream(c)'
    BY <1>4, SendKeepsOrderedStream
  <2>2. StoredIsNewer(c)'
    BY <1>1, <1>2, <1>4 DEF StoredIsNewer, StoredOnStream
  <2> QED
    BY <2>1, <2>2 DEF OrderHolds
<1> QED
  BY <1>1, <1>3, <1>4 DEF OrderHolds

\* The other actions change neither the messages nor what was handed up.
LEMMA IdleKeepsStreams ==
    ASSUME UNCHANGED << sent, waitingForOrderedPacketWriteIndex,
                        waitingForSequencedPacketWriteIndex, streams >>
    PROVE  /\ StreamsInv => StreamsInv'
           /\ SequencedInv => SequencedInv'
<1>1. /\ messageNumber' = messageNumber
      /\ \A i : Message(i)' = Message(i)
      /\ \A c : OnOrdered(c)' = OnOrdered(c) /\ OnSequenced(c)' = OnSequenced(c)
  BY SentStays
<1>2. UNCHANGED << waitingForOrderedPacketWriteIndex, waitingForSequencedPacketWriteIndex,
                   waitingForOrderedPacketReadIndex, waitingForSequencedPacketReadIndex,
                   orderingList, outputQueue >>
  BY DEF streams
<1>3. \A i : /\ HandedUp(i)' <=> HandedUp(i)
             /\ \A n : At(n, i)' <=> At(n, i)
  BY <1>2 DEF HandedUp, At
<1>4. \A c \in Channels : /\ OrderHolds(c) => OrderHolds(c)'
                          /\ SequencedStream(c) => SequencedStream(c)'
  BY <1>1, <1>2, <1>3
  DEF OrderHolds, Overtaken, OrderedStream, StoredIsNewer, SequencedStream
<1>5. StoredOnStream => StoredOnStream'
  BY <1>1, <1>2 DEF StoredOnStream
<1>6. IndexesFollowSend => IndexesFollowSend'
  BY IndexesStay
<1> QED
  BY <1>4, <1>5, <1>6 DEF StreamsInv, SequencedInv


LEMMA DeliverKeepsSequenced ==
    ASSUME TypeOK, TypeOK', InUseIsRecent, IndexesFollowSend, SequencedRateIsSafe,
           \A c \in Channels : orderingList[c] \subseteq OnOrdered(c),
           SequencedInv, NEW i \in wire, Deliver(i)
    PROVE  SequencedInv'
<1>1. UNCHANGED << sent, waitingForSequencedPacketWriteIndex >>
  BY DEF Deliver, sender
<1>2. i \in Ids
  BY DEF TypeOK
<1>3. CASE IsDuplicate(i)
  <2>1. UNCHANGED << waitingForSequencedPacketReadIndex, outputQueue >>
    BY <1>3 DEF Deliver, streams
  <2>2. /\ \A j : Message(j)' = Message(j)
        /\ \A c : OnSequenced(c)' = OnSequenced(c)
    BY <1>1, SentStays
  <2> QED
    BY <1>1, <2>1, <2>2 DEF SequencedInv, SequencedStream, At
<1>4. CASE ~IsDuplicate(i)
  <2>1. PassUpSequenced(i) \/ PassUpOrdered(i) \/ PassUpOther(i)
    BY <1>4 DEF Deliver
  <2>2. /\ Extends(outputQueue', outputQueue)
        /\ \A m \in 1..Len(outputQueue') : m > Len(outputQueue) =>
              \/ outputQueue'[m] = i
              \/ Ordered(i) /\ outputQueue'[m] \in orderingList[Message(i).channel]
        /\ \A c \in Channels :
              ~(Sequenced(i) /\ c = Message(i).channel) =>
                 waitingForSequencedPacketReadIndex'[c] = waitingForSequencedPacketReadIndex[c]
    BY <1>2, <2>1, PassUpShape
  <2>3. ASSUME NEW c \in Channels PROVE SequencedStream(c)'
    <3>1. SequencedStream(c)
      BY DEF SequencedInv
    <3>2. CASE i \in OnSequenced(c)
      <4>1. PassUpSequenced(i)
        BY <2>1, <3>2 DEF OnSequenced, PassUpOrdered, PassUpOther, Ordered, Sequenced
      <4> QED
        BY <1>1, <3>1, <3>2, <4>1, SequencedHandedUp
    <3>3. CASE i \notin OnSequenced(c)
      <4>1. waitingForSequencedPacketReadIndex'[c] = waitingForSequencedPacketReadIndex[c]
        BY <1>2, <2>2, <3>3 DEF OnSequenced
      <4>2. ASSUME NEW m \in 1..Len(outputQueue'), m > Len(outputQueue)
            PROVE  outputQueue'[m] \notin OnSequenced(c)
        <5>1. CASE outputQueue'[m] = i
          BY <3>3, <5>1
        <5>2. CASE outputQueue'[m] \in orderingList[Message(i).channel]
          <6>1. Message(i).channel \in Channels
            BY <1>2, MessageType
          <6>2. outputQueue'[m] \in OnOrdered(Message(i).channel)
            BY <5>2, <6>1
          <6> QED
            BY <6>2 DEF OnOrdered, OnSequenced, Ordered, Sequenced
        <5> QED
          BY <2>2, <4>2, <5>1, <5>2
      <4> QED
        BY <1>1, <2>2, <3>1, <4>1, <4>2, SequencedUntouched
    <3> QED
      BY <3>2, <3>3
  <2> QED
    BY <2>3 DEF SequencedInv
<1> QED
  BY <1>3, <1>4

LEMMA SendKeepsSequenced ==
    ASSUME TypeOK, SequencedInv, NEW k \in Traffic, Send(k)
    PROVE  SequencedInv'
<1> SUFFICES ASSUME NEW new, new = messageNumber, NEW c \in Channels
             PROVE  SequencedStream(c)'
  BY DEF SequencedInv
<1>1. /\ k \in Kinds /\ new \in Nat
      /\ Ids' = Ids \cup { new } /\ new \notin Ids
      /\ \A i \in Ids : /\ Message(i)' = Message(i)
                        /\ Ordered(i)' = Ordered(i) /\ Sequenced(i)' = Sequenced(i)
      /\ UNCHANGED << resendQueue, resendList, wire, ackWire, receiver >>
  BY SendAdds
<1>2. UNCHANGED << waitingForSequencedPacketReadIndex, outputQueue >>
  BY <1>1 DEF receiver, streams
<1>3. SequencedStream(c)
  BY DEF SequencedInv
<1>4. outputQueue \in Seq(Ids)
  BY DEF TypeOK
<1>5. ASSUME NEW n \in Nat, NEW i \in OnSequenced(c)', At(n, i)'
      PROVE  i \in OnSequenced(c) /\ At(n, i) /\ Message(i)' = Message(i)
  <2>1. At(n, i) /\ i \in Ids
    BY <1>2, <1>4, <1>5 DEF At
  <2>2. i \in OnSequenced(c)
    BY <1>1, <2>1 DEF OnSequenced
  <2> QED
    BY <1>1, <2>1, <2>2
<1>6. waitingForSequencedPacketReadIndex'[c] <= waitingForSequencedPacketWriteIndex'[c]
  <2>1. /\ waitingForSequencedPacketWriteIndex \in [Channels -> Nat]
        /\ waitingForSequencedPacketReadIndex[c] \in Nat
    BY DEF TypeOK
  <2>2. waitingForSequencedPacketWriteIndex'[c] >= waitingForSequencedPacketWriteIndex[c]
    <3>1. k.channel \in Channels
      BY <1>1 DEF Kinds
    <3>2. \/ waitingForSequencedPacketWriteIndex' = waitingForSequencedPacketWriteIndex
          \/ waitingForSequencedPacketWriteIndex' =
                [waitingForSequencedPacketWriteIndex EXCEPT ![k.channel] = @ + 1]
      BY DEF Send, TakeOrderingIndex
    <3>3. waitingForSequencedPacketWriteIndex'[c] \in
             { waitingForSequencedPacketWriteIndex[c], waitingForSequencedPacketWriteIndex[c] + 1 }
      BY <2>1, <3>1, <3>2
    <3> QED
      BY <2>1, <3>3
  <2>3. waitingForSequencedPacketReadIndex[c] <= waitingForSequencedPacketWriteIndex[c]
    BY <1>3 DEF SequencedStream
  <2>4. waitingForSequencedPacketWriteIndex'[c] \in Int
    <3>1. k.channel \in Channels
      BY <1>1 DEF Kinds
    <3> QED
      BY <2>1, <3>1 DEF Send, TakeOrderingIndex
  <2> QED
    BY <1>2, <2>1, <2>2, <2>3, <2>4
<1>7. \A n \in Nat : \A i \in OnSequenced(c)' :
         At(n, i)' => Message(i)'.index < waitingForSequencedPacketReadIndex'[c]
  BY <1>2, <1>3, <1>5 DEF SequencedStream
<1>8. \A m, n \in Nat : \A i, j \in OnSequenced(c)' :
         m < n /\ At(m, i)' /\ At(n, j)' => Message(i)'.index < Message(j)'.index
  BY <1>3, <1>5 DEF SequencedStream
<1> QED
  BY <1>6, <1>7, <1>8 DEF SequencedStream

\* What an action of the sender, of the network or of time leaves as it is.
LEMMA OtherActions ==
    ASSUME [Next]_vars, ~\E k \in Traffic : Send(k), ~\E i \in wire : Deliver(i)
    PROVE  /\ UNCHANGED << sent, waitingForOrderedPacketWriteIndex,
                           waitingForSequencedPacketWriteIndex, streams >>
           /\ UNCHANGED << receivedPacketsBaseIndex, accepted, gaveUp >>
<1>1. CASE Resend
  BY <1>1 DEF Resend, receiver, window
<1>2. CASE Transmit
  BY <1>2 DEF Transmit, receiver, window
<1>3. CASE \E a \in ackWire : ReceiveAck(a)
  BY <1>3 DEF ReceiveAck, receiver, window
<1>4. CASE GiveUpConnection
  BY <1>4 DEF GiveUpConnection, receiver, window
<1>5. CASE SendAcks
  BY <1>5 DEF SendAcks, sender, window
<1>6. CASE \E n \in 1..Len(hasReceivedPacketQueue) : HolesRunOut(n)
  BY <1>6 DEF HolesRunOut, sender
<1>7. CASE \E i \in wire : Lose(i)
  BY <1>7 DEF Lose, sender, receiver, window
<1>8. CASE \E a \in ackWire : LoseAck(a)
  BY <1>8 DEF LoseAck, sender, receiver, window
<1>9. CASE UNCHANGED vars
  BY <1>9 DEF vars, sender, receiver, window
<1> QED
  BY <1>1, <1>2, <1>3, <1>4, <1>5, <1>6, <1>7, <1>8, <1>9 DEF Next

LEMMA StreamsInvIsInductive ==
    ASSUME TypeOK, TypeOK', InUseIsRecent', StreamsInv, [Next]_vars,
           \A i \in wire : ~IsDuplicate(i) => ~HandedUp(i)
    PROVE  StreamsInv'
<1>1. CASE \E k \in Traffic : Send(k)
  <2>1. PICK k \in Traffic : Send(k)
    BY <1>1
  <2>2. IndexesFollowSend'
    BY <2>1, SendKeepsIndexes DEF StreamsInv
  <2>3. StoredOnStream'
    BY <2>1, SendKeepsStored DEF StreamsInv
  <2>4. \A c \in Channels : OrderHolds(c)'
    BY <2>1, <2>2, SendKeepsOrder
  <2> QED
    BY <2>2, <2>3, <2>4 DEF StreamsInv
<1>2. CASE \E i \in wire : Deliver(i)
  <2>1. PICK i \in wire : Deliver(i)
    BY <1>2
  <2>2. IndexesFollowSend'
    BY <2>1, IndexesStay DEF StreamsInv, Deliver, sender
  <2> QED
    BY <2>1, <2>2, DeliverKeepsOrder DEF StreamsInv
<1> QED
  BY <1>1, <1>2, OtherActions, IdleKeepsStreams

\* What passes the duplicate check was not handed up before.
LEMMA NoDuplicateIsHandedUp ==
    ASSUME IInv, RateIsSafe, NEW i \in wire, ~IsDuplicate(i) PROVE ~HandedUp(i)
<1>1. i \notin accepted
  BY DuplicateIsKnown DEF IInv
<1> QED
  BY <1>1 DEF HandedUp, HeldOnce, IInv

LEMMA SequencedInvIsInductive ==
    ASSUME SequencedRateIsSafe, TypeOK, TypeOK', InUseIsRecent,
           IndexesFollowSend, StoredOnStream, SequencedInv, [Next]_vars
    PROVE  SequencedInv'
<1>1. TypeOK /\ TypeOK' /\ InUseIsRecent
  OBVIOUS
<1>2. IndexesFollowSend /\ \A c \in Channels : orderingList[c] \subseteq OnOrdered(c)
  BY DEF StoredOnStream
<1>3. CASE \E k \in Traffic : Send(k)
  BY <1>1, <1>3, SendKeepsSequenced
<1>4. CASE \E i \in wire : Deliver(i)
  BY <1>1, <1>2, <1>4, DeliverKeepsSequenced
<1> QED
  BY <1>3, <1>4, OtherActions, IdleKeepsStreams

LEMMA InitIsStreams == ASSUME Init PROVE StreamsInv /\ SequencedInv
<1>1. Ids = {} /\ Len(outputQueue) = 0
  BY DEF Init, Ids, messageNumber
<1>2. \A c : OnOrdered(c) = {} /\ OnSequenced(c) = {}
  BY <1>1 DEF OnOrdered, OnSequenced
<1>3. \A c \in Channels :
         /\ waitingForOrderedPacketWriteIndex[c] = 0 /\ waitingForOrderedPacketReadIndex[c] = 0
         /\ waitingForSequencedPacketWriteIndex[c] = 0
         /\ waitingForSequencedPacketReadIndex[c] = 0
         /\ orderingList[c] = {}
  BY DEF Init
<1>4. IndexesFollowSend /\ StoredOnStream
  BY <1>2, <1>3 DEF IndexesFollowSend, StoredOnStream
<1>5. \A c \in Channels : OrderHolds(c) /\ SequencedStream(c)
  BY <1>2, <1>3 DEF OrderHolds, OrderedStream, StoredIsNewer, SequencedStream
<1> QED
  BY <1>4, <1>5 DEF StreamsInv, SequencedInv

-----------------------------------------------------------------------------
(* The theorems.                                                           *)

\* With an ordered message all earlier ones of its channel are handed up.
LEMMA EarlierAreHandedUp ==
    ASSUME TypeOK, IndexesFollowSend, NEW c \in Channels, OrderedStream(c),
           NEW n \in 1..Len(outputQueue), NEW i \in OnOrdered(c), i = outputQueue[n],
           NEW j \in OnOrdered(c), j < i
    PROVE  \E m \in 1..(n - 1) : outputQueue[m] = j
<1>1. Message(j).index < Message(i).index /\ Message(j).index \in Nat /\ Message(i).index \in Nat
  BY OnType DEF IndexesFollowSend
<1>2. HandedUp(i) /\ At(n, i)
  BY DEF HandedUp, At
<1>3. HandedUp(j)
  <2>1. waitingForOrderedPacketReadIndex[c] \in Nat
    BY DEF TypeOK
  <2>2. Message(i).index < waitingForOrderedPacketReadIndex[c]
    BY <1>2 DEF OrderedStream
  <2>3. Message(j).index < waitingForOrderedPacketReadIndex[c]
    BY <1>1, <2>1, <2>2
  <2> QED
    BY <2>3 DEF OrderedStream
<1>4. PICK m \in 1..Len(outputQueue) : outputQueue[m] = j
  BY <1>3 DEF HandedUp
<1>5. m < n
  <2>1. m \in Nat /\ n \in Nat /\ At(m, j)
    BY <1>4 DEF At
  <2>2. ~(n < m)
    BY <1>1, <1>2, <2>1 DEF OrderedStream
  <2>3. m # n
    BY <1>1, <1>4
  <2> QED
    BY <2>1, <2>2, <2>3
<1>6. m \in 1..(n - 1)
  BY <1>4, <1>5
<1> QED
  BY <1>4, <1>6

\* An ordered message handed up, and one sent before it, are on one stream.
LEMMA HandedUpOnStream ==
    ASSUME TypeOK, NEW n \in 1..Len(outputQueue), NEW i, i = outputQueue[n], Ordered(i),
           NEW j \in 0..(i - 1), Ordered(j), Message(j).channel = Message(i).channel
    PROVE  /\ Message(i).channel \in Channels
           /\ i \in OnOrdered(Message(i).channel) /\ j \in OnOrdered(Message(i).channel)
           /\ j < i
<1>1. i \in Ids /\ messageNumber \in Nat
  BY DEF TypeOK, messageNumber
<1>2. i \in Nat /\ j \in Nat /\ j < i /\ j \in Ids
  BY <1>1 DEF Ids
<1>3. Message(i).channel \in Channels
  BY <1>1, MessageType
<1> QED
  BY <1>1, <1>2, <1>3 DEF OnOrdered

LEMMA OrderFromStreams ==
    ASSUME TypeOK, StreamsInv PROVE OrderedInOrder
<1> SUFFICES ASSUME NEW n \in 1..Len(outputQueue), NEW i, i = outputQueue[n],
                    Ordered(i), ~Overtaken(Message(i).channel),
                    NEW j \in 0..(i - 1), Ordered(j), Message(j).channel = Message(i).channel
             PROVE  \E m \in 1..(n - 1) : outputQueue[m] = j
  BY DEF OrderedInOrder
<1> DEFINE c == Message(i).channel
<1>1. c \in Channels /\ i \in OnOrdered(c) /\ j \in OnOrdered(c) /\ j < i
  BY HandedUpOnStream
<1> HIDE DEF c
<1>2. OrderedStream(c)
  <2>1. ~Overtaken(c)
    BY DEF c
  <2> QED
    BY <1>1, <2>1 DEF StreamsInv, OrderHolds
<1> QED
  BY <1>1, <1>2, EarlierAreHandedUp DEF StreamsInv

LEMMA ForwardFromStreams ==
    ASSUME TypeOK, SequencedInv PROVE SequencedForward
<1> SUFFICES ASSUME NEW m \in 1..Len(outputQueue), NEW n \in 1..Len(outputQueue), m < n,
                    NEW i, i = outputQueue[m], NEW j, j = outputQueue[n],
                    Sequenced(i), Sequenced(j), Message(i).channel = Message(j).channel
             PROVE  Message(i).index < Message(j).index
  BY DEF SequencedForward
<1>1. i \in Ids /\ j \in Ids
  BY DEF TypeOK
<1>2. Message(i).channel \in Channels
  BY <1>1, MessageType
<1>3. i \in OnSequenced(Message(i).channel) /\ j \in OnSequenced(Message(i).channel)
  BY <1>1 DEF OnSequenced
<1>4. m \in Nat /\ n \in Nat /\ At(m, i) /\ At(n, j)
  BY DEF At
<1> QED
  BY <1>2, <1>3, <1>4 DEF SequencedInv, SequencedStream

\* The indexes and the streams keep their invariant at a safe rate.
THEOREM StreamsHold == ASSUME RateIsSafe PROVE Spec => []StreamsInv
<1>1. Init => StreamsInv
  BY InitIsStreams
<1>2. IInv /\ IInv' /\ StreamsInv /\ [Next]_vars => StreamsInv'
  BY StreamsInvIsInductive, NoDuplicateIsHandedUp DEF IInv
<1> QED
  BY <1>1, <1>2, InvariantHolds, PTL DEF Spec

\* On each channel ordered messages are handed up in the order of Send and none
\* is left out (ReliabilityLayer.cpp:666-735), unless one whose number the
\* receiver gave up has been missing for a whole round of the 16-bit indexes.
THEOREM OrderedInOrderHolds == ASSUME RateIsSafe PROVE Spec => []OrderedInOrder
<1>1. IInv /\ StreamsInv => OrderedInOrder
  BY OrderFromStreams DEF IInv
<1> QED
  BY <1>1, InvariantHolds, StreamsHold, PTL


\* On each channel the sequenced messages handed up only get newer: at less than
\* half the range IsOlderOrderedPacket recognises every index that is older
\* (ReliabilityLayer.cpp:569-616, 2056).  One message more at a time and it would not.
THEOREM SequencedForwardHolds ==
    ASSUME RateIsSafe, SequencedRateIsSafe PROVE Spec => []SequencedForward
<1>1. IInv /\ StreamsInv /\ SequencedInv /\ IInv' /\ [Next]_vars => SequencedInv'
  BY SequencedInvIsInductive DEF IInv, StreamsInv
<1>2. Init => SequencedInv
  BY InitIsStreams
<1>3. IInv /\ SequencedInv => SequencedForward
  BY ForwardFromStreams DEF IInv
<1> QED
  BY <1>1, <1>2, <1>3, InvariantHolds, StreamsHold, PTL DEF Spec

\* "This is a newer ordered packet than we are waiting for", says the comment
\* where an early ordered message is stored (ReliabilityLayer.cpp:729; the
\* assertion of it three lines above is commented out): every message stored for
\* a channel has an index past the one waited for, and comes from that channel.
StoredAreNewer ==
    \A c \in Channels : ~Overtaken(c) =>
        \A j \in orderingList[c] :
            /\ Ordered(j) /\ Message(j).channel = c
            /\ Message(j).index > waitingForOrderedPacketReadIndex[c]

THEOREM StoredAreNewerHolds == ASSUME RateIsSafe PROVE Spec => []StoredAreNewer
<1>1. StreamsInv => StoredAreNewer
  BY DEF StreamsInv, StoredOnStream, OrderHolds, StoredIsNewer, OnOrdered, StoredAreNewer
<1> QED
  BY <1>1, StreamsHold, PTL

-----------------------------------------------------------------------------
(* What is promised: ReliabilityLayer implements Delivery.  Beside the     *)
(* invariants above this takes three facts about where a message is.       *)

\* What the receiver gave up lies under the window and was not accepted.
GivenUpIsMissing ==
    \A j \in gaveUp : j < receivedPacketsBaseIndex /\ j \notin accepted

\* An ordered message that was accepted is handed up or stored.
AcceptedIsPlaced ==
    \A c \in Channels : \A j \in OnOrdered(c) :
        j \in accepted => HandedUp(j) \/ j \in orderingList[c]

\* The read index of a sequenced stream follows that of a message handed up.
ReadFollows(c) ==
    waitingForSequencedPacketReadIndex[c] # 0 =>
        \E j \in OnSequenced(c) :
            HandedUp(j) /\ Message(j).index = waitingForSequencedPacketReadIndex[c] - 1

PlacesInv ==
    /\ GivenUpIsMissing
    /\ AcceptedIsPlaced
    /\ \A c \in Channels : ReadFollows(c)

\* The places in the output that a step fills, and what it puts there.
NewPlaces == { m \in 1..Len(outputQueue') : m > Len(outputQueue) }
Run == { outputQueue'[m] : m \in NewPlaces }

LEMMA HandedUpStays ==
    ASSUME Extends(outputQueue', outputQueue), Len(outputQueue') \in Nat, NEW j, HandedUp(j)
    PROVE  HandedUp(j)'
<1>1. PICK m \in 1..Len(outputQueue) : outputQueue[m] = j
  BY DEF HandedUp
<1>2. m \in 1..Len(outputQueue') /\ outputQueue'[m] = j
  BY <1>1 DEF Extends
<1> QED
  BY <1>2 DEF HandedUp

LEMMA RunIsHandedUp == ASSUME NEW j \in Run PROVE HandedUp(j)'
  BY DEF Run, NewPlaces, HandedUp

\* An ordered message goes to the output with what it lets go, or is stored.
LEMMA OrderedShape ==
    ASSUME TypeOK, TypeOK', NEW i \in Ids, PassUpOrdered(i),
           NEW d, d = Message(i).channel, i \notin orderingList[d]
    PROVE  /\ Run \subseteq { i } \cup orderingList[d]
           /\ orderingList' = [orderingList EXCEPT ![d] = (@ \cup { i }) \ Run]
<1>1. /\ outputQueue \in Seq(Ids) /\ Len(outputQueue) \in Nat /\ d \in Channels
      /\ orderingList \in [Channels -> SUBSET Ids]
  <2>1. d \in Channels
    BY MessageType
  <2> QED
    BY <2>1 DEF TypeOK
<1>2. CASE Message(i).index % NumberRange # waitingForOrderedPacketReadIndex[d] % NumberRange
  <2>1. /\ orderingList' = [orderingList EXCEPT ![d] = @ \cup { i }]
        /\ outputQueue' = outputQueue
    BY <1>2 DEF PassUpOrdered
  <2>2. NewPlaces = {}
    BY <1>1, <2>1 DEF NewPlaces
  <2>3. Run = {}
    BY <2>2 DEF Run
  <2> QED
    BY <2>1, <2>3
<1>3. CASE Message(i).index % NumberRange = waitingForOrderedPacketReadIndex[d] % NumberRange
  <2>1. PICK n \in 0..(NumberRange - 1) : \E run \in [1..n -> orderingList[d]] :
          /\ outputQueue' = Append(outputQueue, i) \o run
          /\ orderingList' = [orderingList EXCEPT ![d] = @ \ { run[k] : k \in 1..n }]
    BY <1>3 DEF PassUpOrdered
  <2>2. PICK run \in [1..n -> orderingList[d]] :
          /\ outputQueue' = Append(outputQueue, i) \o run
          /\ orderingList' = [orderingList EXCEPT ![d] = @ \ { run[k] : k \in 1..n }]
    BY <2>1
  <2>3. n \in Nat /\ Len(run) = n /\ run \in Seq(Ids)
    <3>1. n \in Nat
      BY ConstantFacts
    <3>2. orderingList[d] \subseteq Ids
      BY <1>1
    <3> QED
      BY <3>1, <3>2
  <2>4. Joins(outputQueue', outputQueue, i, run)
    BY <1>1, <2>2, <2>3, AppendRun
  <2>5. /\ Len(outputQueue') = Len(outputQueue) + 1 + n
        /\ outputQueue'[Len(outputQueue) + 1] = i
        /\ \A k \in 1..n : outputQueue'[Len(outputQueue) + 1 + k] = run[k]
    BY <2>3, <2>4 DEF Joins
  <2>6. ASSUME NEW m \in NewPlaces
        PROVE  outputQueue'[m] = i \/ \E k \in 1..n : outputQueue'[m] = run[k]
    <3>1. m \in 1..Len(outputQueue') /\ m > Len(outputQueue)
      BY DEF NewPlaces
    <3>2. m = Len(outputQueue) + 1 \/ m - (Len(outputQueue) + 1) \in 1..n
      BY <1>1, <2>3, <2>5, <3>1
    <3>3. m - (Len(outputQueue) + 1) \in 1..n =>
             outputQueue'[m] = run[m - (Len(outputQueue) + 1)]
      BY <1>1, <2>3, <2>5, <3>1
    <3> QED
      BY <2>5, <3>2, <3>3
  <2>7. i \in Run
    <3>1. Len(outputQueue) + 1 \in NewPlaces
      BY <1>1, <2>3, <2>5 DEF NewPlaces
    <3> QED
      BY <2>5, <3>1 DEF Run
  <2>8. ASSUME NEW k \in 1..n PROVE run[k] \in Run
    <3>1. Len(outputQueue) + 1 + k \in NewPlaces
      BY <1>1, <2>3, <2>5 DEF NewPlaces
    <3> QED
      BY <2>5, <3>1 DEF Run
  <2>9. Run = { i } \cup { run[k] : k \in 1..n }
    BY <2>6, <2>7, <2>8 DEF Run
  <2>10. Run \subseteq { i } \cup orderingList[d]
    BY <2>9
  <2>11. orderingList[d] \ { run[k] : k \in 1..n } = (orderingList[d] \cup { i }) \ Run
    BY <2>9
  <2> QED
    BY <1>1, <2>2, <2>10, <2>11
<1> QED
  BY <1>2, <1>3

LEMMA PassUpKeepsPlaces ==
    ASSUME TypeOK, TypeOK', StoredOnStream, UNCHANGED sent,
           NEW i \in Ids, accepted' = accepted \cup { i },
           i \notin orderingList[Message(i).channel],
           PassUpSequenced(i) \/ PassUpOrdered(i) \/ PassUpOther(i)
    PROVE  /\ AcceptedIsPlaced => AcceptedIsPlaced'
           /\ \A c \in Channels : ReadFollows(c) => ReadFollows(c)'
<1> DEFINE d == Message(i).channel
<1>1. /\ \A j : Message(j)' = Message(j)
      /\ \A c : OnOrdered(c)' = OnOrdered(c) /\ OnSequenced(c)' = OnSequenced(c)
  BY SentStays
<1>2. /\ Extends(outputQueue', outputQueue)
      /\ \A c \in Channels :
            /\ ~(Ordered(i) /\ c = d) => orderingList'[c] = orderingList[c]
            /\ ~(Sequenced(i) /\ c = d) =>
                  waitingForSequencedPacketReadIndex'[c] =
                     waitingForSequencedPacketReadIndex[c]
  BY PassUpShape
<1>3. /\ Len(outputQueue) \in Nat /\ Len(outputQueue') \in Nat
      /\ outputQueue \in Seq(Ids)
      /\ waitingForSequencedPacketReadIndex \in [Channels -> Nat]
      /\ orderingList \in [Channels -> SUBSET Ids]
  BY DEF TypeOK
<1>4. d \in Channels /\ Message(i).index \in Nat
  BY MessageType
<1>5. \A j : HandedUp(j) => HandedUp(j)'
  BY <1>2, <1>3, HandedUpStays
<1>6. ASSUME AcceptedIsPlaced, NEW c \in Channels, NEW j \in OnOrdered(c), j \in accepted'
      PROVE  HandedUp(j)' \/ j \in orderingList'[c]
  <2>1. CASE ~(Ordered(i) /\ c = d)
    <3>1. j # i
      BY <2>1 DEF OnOrdered
    <3>2. HandedUp(j) \/ j \in orderingList[c]
      BY <1>6, <3>1 DEF AcceptedIsPlaced
    <3> QED
      BY <1>2, <1>5, <2>1, <3>2
  <2>2. CASE Ordered(i) /\ c = d
    <3>1. PassUpOrdered(i)
      BY <2>2 DEF PassUpSequenced, PassUpOther, Ordered, Sequenced
    <3>2. orderingList' = [orderingList EXCEPT ![d] = (@ \cup { i }) \ Run]
      BY <3>1, OrderedShape
    <3>3. orderingList'[c] = (orderingList[c] \cup { i }) \ Run
      BY <1>3, <2>2, <3>2
    <3>4. HandedUp(j) \/ j \in orderingList[c] \cup { i }
      BY <1>6 DEF AcceptedIsPlaced
    <3> QED
      BY <1>5, <3>3, <3>4, RunIsHandedUp
  <2> QED
    BY <2>1, <2>2
<1>7. ASSUME NEW c \in Channels, ReadFollows(c),
             waitingForSequencedPacketReadIndex'[c] # 0
      PROVE  \E j \in OnSequenced(c) :
                HandedUp(j)' /\ Message(j).index = waitingForSequencedPacketReadIndex'[c] - 1
  <2>1. CASE waitingForSequencedPacketReadIndex'[c] = waitingForSequencedPacketReadIndex[c]
    BY <1>5, <1>7, <2>1 DEF ReadFollows
  <2>2. CASE waitingForSequencedPacketReadIndex'[c] # waitingForSequencedPacketReadIndex[c]
    <3>1. Sequenced(i) /\ c = d /\ i \in OnSequenced(c)
      BY <1>2, <2>2 DEF OnSequenced
    <3>2. PassUpSequenced(i)
      BY <3>1 DEF PassUpOrdered, PassUpOther, Ordered, Sequenced
    <3>3. /\ waitingForSequencedPacketReadIndex' =
                [waitingForSequencedPacketReadIndex EXCEPT ![d] = Message(i).index + 1]
          /\ outputQueue' = Append(outputQueue, i)
      BY <2>2, <3>2 DEF PassUpSequenced
    <3>4. waitingForSequencedPacketReadIndex'[c] - 1 = Message(i).index
      <4>1. waitingForSequencedPacketReadIndex'[d] = Message(i).index + 1
        <5> DEFINE x == Message(i).index
        <5> HIDE DEF d, x
        <5>1. waitingForSequencedPacketReadIndex' =
                [waitingForSequencedPacketReadIndex EXCEPT ![d] = x + 1]
          BY <3>3 DEF x
        <5> QED
          BY <1>3, <1>4, <5>1 DEF x
      <4> QED
        BY <1>4, <3>1, <4>1
    <3>5. HandedUp(i)'
      <4>1. Len(outputQueue) + 1 \in 1..Len(outputQueue') /\ outputQueue'[Len(outputQueue) + 1] = i
        BY <1>3, <3>3
      <4> QED
        BY <4>1 DEF HandedUp
    <3> QED
      BY <3>1, <3>4, <3>5
  <2> QED
    BY <2>1, <2>2
<1>8. AcceptedIsPlaced => AcceptedIsPlaced'
  BY <1>1, <1>6 DEF AcceptedIsPlaced
<1>9. \A c \in Channels : ReadFollows(c) => ReadFollows(c)'
  BY <1>1, <1>7 DEF ReadFollows
<1> QED
  BY <1>8, <1>9

LEMMA DeliverKeepsPlaces ==
    ASSUME IInv, TypeOK', RateIsSafe, StoredOnStream, PlacesInv, NEW i \in wire, Deliver(i)
    PROVE  PlacesInv'
<1>1. TypeOK /\ InUseIsRecent /\ WindowIsExact /\ HeldOnce
  BY DEF IInv
<1>2. i \in Ids /\ i \in Nat /\ Message(i).channel \in Channels
  <2>1. i \in Ids
    BY <1>1 DEF TypeOK
  <2> QED
    BY <1>1, <2>1, MessageType
<1>3. UNCHANGED sent
  BY DEF Deliver, sender
<1>4. /\ \A j : Message(j)' = Message(j)
      /\ \A c : OnOrdered(c)' = OnOrdered(c) /\ OnSequenced(c)' = OnSequenced(c)
  BY <1>3, SentStays
<1>5. GivenUpIsMissing /\ AcceptedIsPlaced /\ \A c \in Channels : ReadFollows(c)
  BY DEF PlacesInv
<1>6. CASE IsDuplicate(i)
  <2>1. UNCHANGED << receivedPacketsBaseIndex, accepted, gaveUp, orderingList, outputQueue,
                     waitingForSequencedPacketReadIndex >>
    BY <1>6 DEF Deliver, window, streams
  <2>2. \A j : HandedUp(j)' <=> HandedUp(j)
    BY <2>1 DEF HandedUp
  <2> QED
    BY <1>4, <1>5, <2>1, <2>2 DEF PlacesInv, GivenUpIsMissing, AcceptedIsPlaced, ReadFollows
<1>7. CASE ~IsDuplicate(i)
  <2>1. Accept(i) /\ (PassUpSequenced(i) \/ PassUpOrdered(i) \/ PassUpOther(i))
    BY <1>7 DEF Deliver
  <2>2. i \notin accepted /\ i >= receivedPacketsBaseIndex
    BY <1>1, <1>7, DuplicateIsKnown
  <2>3. /\ accepted' = accepted \cup { i }
        /\ receivedPacketsBaseIndex' >= receivedPacketsBaseIndex
        /\ \A j \in gaveUp' :
              j \in gaveUp \/ (j < receivedPacketsBaseIndex' /\ j \notin accepted')
    BY <1>1, <1>3, <1>7, <2>1, AcceptKeepsWindow
  <2>4. i \notin orderingList[Message(i).channel]
    BY <1>1, <1>2, <2>2 DEF HeldOnce
  <2>5. AcceptedIsPlaced' /\ \A c \in Channels : ReadFollows(c)'
    BY <1>1, <1>2, <1>3, <1>5, <2>1, <2>3, <2>4, PassUpKeepsPlaces
  <2>6. ASSUME NEW j \in gaveUp PROVE j < receivedPacketsBaseIndex' /\ j \notin accepted'
    <3>1. /\ receivedPacketsBaseIndex \in Nat /\ receivedPacketsBaseIndex' \in Nat /\ j \in Nat
          /\ j < receivedPacketsBaseIndex /\ j \notin accepted
      BY <1>1, <1>5 DEF TypeOK, GivenUpIsMissing
    <3>2. j # i /\ j < receivedPacketsBaseIndex'
      BY <1>2, <2>2, <2>3, <3>1
    <3> QED
      BY <2>3, <3>1, <3>2
  <2>7. GivenUpIsMissing'
    BY <2>3, <2>6 DEF GivenUpIsMissing
  <2> QED
    BY <2>5, <2>7 DEF PlacesInv
<1> QED
  BY <1>6, <1>7

LEMMA SendKeepsPlaces ==
    ASSUME TypeOK, PlacesInv, NEW k \in Traffic, Send(k) PROVE PlacesInv'
<1>1. /\ Ids \subseteq Ids'
      /\ \A j \in Ids : /\ Message(j)' = Message(j)
                        /\ Sequenced(j)' = Sequenced(j)
      /\ UNCHANGED receiver
  BY SendAdds
<1>2. UNCHANGED << receivedPacketsBaseIndex, accepted, gaveUp, orderingList, outputQueue,
                   waitingForSequencedPacketReadIndex >>
  BY <1>1 DEF receiver, window, streams
<1>3. \A j : HandedUp(j)' <=> HandedUp(j)
  BY <1>2 DEF HandedUp
<1>4. accepted \subseteq Ids
  BY DEF TypeOK
<1>5. \A c \in Channels : \A j \in OnOrdered(c)' : j \in OnOrdered(c) \/ j \notin Ids
  BY SendOnStream
<1>6. \A c \in Channels : \A j \in OnSequenced(c) : j \in OnSequenced(c)' /\ Message(j)' = Message(j)
  BY <1>1 DEF OnSequenced
<1>7. GivenUpIsMissing'
  BY <1>2 DEF PlacesInv, GivenUpIsMissing
<1>8. AcceptedIsPlaced'
  BY <1>2, <1>3, <1>4, <1>5 DEF PlacesInv, AcceptedIsPlaced
<1>9. \A c \in Channels : ReadFollows(c)'
  BY <1>2, <1>3, <1>6 DEF PlacesInv, ReadFollows
<1> QED
  BY <1>7, <1>8, <1>9 DEF PlacesInv

LEMMA PlacesInvIsInductive ==
    ASSUME IInv, TypeOK', RateIsSafe, StoredOnStream, PlacesInv, [Next]_vars
    PROVE  PlacesInv'
<1>1. CASE \E k \in Traffic : Send(k)
  BY <1>1, SendKeepsPlaces DEF IInv
<1>2. CASE \E i \in wire : Deliver(i)
  BY <1>2, DeliverKeepsPlaces
<1>3. CASE ~(\E k \in Traffic : Send(k)) /\ ~(\E i \in wire : Deliver(i))
  <2>1. /\ UNCHANGED << sent, streams >>
        /\ UNCHANGED << receivedPacketsBaseIndex, accepted, gaveUp >>
    BY <1>3, OtherActions
  <2>2. UNCHANGED << orderingList, outputQueue, waitingForSequencedPacketReadIndex >>
    BY <2>1 DEF streams
  <2>3. /\ \A j : Message(j)' = Message(j)
        /\ \A c : OnOrdered(c)' = OnOrdered(c) /\ OnSequenced(c)' = OnSequenced(c)
    BY <2>1, SentStays
  <2>4. \A j : HandedUp(j)' <=> HandedUp(j)
    BY <2>2 DEF HandedUp
  <2> QED
    BY <2>1, <2>2, <2>3, <2>4 DEF PlacesInv, GivenUpIsMissing, AcceptedIsPlaced, ReadFollows
<1> QED
  BY <1>1, <1>2, <1>3

LEMMA InitIsPlaced == ASSUME Init PROVE PlacesInv
  BY DEF Init, PlacesInv, GivenUpIsMissing, AcceptedIsPlaced, ReadFollows

-----------------------------------------------------------------------------
(* Each step is one of Delivery or changes nothing of it.                  *)

LEMMA MessagesAreSame ==
    /\ Promise!Ids = Ids /\ Promise!Ids' = Ids'
    /\ \A i : /\ Promise!Message(i) = Message(i) /\ Promise!Message(i)' = Message(i)'
              /\ Promise!Reliable(i) = Reliable(i)
              /\ Promise!Ordered(i) = Ordered(i) /\ Promise!Ordered(i)' = Ordered(i)'
              /\ Promise!Sequenced(i) = Sequenced(i) /\ Promise!Sequenced(i)' = Sequenced(i)'
  BY DEF Promise!Ids, Promise!Message, Promise!Reliable, Promise!Ordered, Promise!Sequenced,
         Ids, Message, Reliable, Ordered, Sequenced, messageNumber

\* MessageType after a step.
LEMMA NextMessageType ==
    ASSUME TypeOK', NEW i \in Ids'
    PROVE  /\ i \in Nat /\ i <= Len(sent') - 1
           /\ Message(i)'.channel \in Channels /\ Message(i)'.index \in Nat
<1> DEFINE T == [reliability : Reliability, channel : Channels, index : Nat]
<1>1. sent' \in Seq(T)
  BY DEF TypeOK
<1> HIDE DEF T
<1>2. i \in Nat /\ i + 1 \in 1..Len(sent') /\ i <= Len(sent') - 1
  BY <1>1 DEF Ids, messageNumber
<1>3. sent'[i + 1] \in T
  BY <1>1, <1>2
<1> USE DEF T
<1>4. Message(i)' \in [reliability : Reliability, channel : Channels, index : Nat]
  BY <1>3 DEF Message
<1> QED
  BY <1>2, <1>4

\* A channel is overtaken by a call to Send only over a message that was given up.
LEMMA OvertakenIsGivenUp ==
    ASSUME IInv, IInv', RateIsSafe, IndexesFollowSend', PlacesInv,
           NEW k \in Traffic, Send(k), NEW c \in Channels, Overtaken(c)'
    PROVE  \E j \in gaveUp \cap Ids : Ordered(j) /\ Message(j).channel = c
<1>1. TypeOK /\ TypeOK' /\ WindowIsExact /\ InUseIsRecent'
  BY DEF IInv
<1>2. PICK g \in OnOrdered(c)' :
        /\ ~HandedUp(g)' /\ g \notin orderingList'[c]
        /\ Message(g)'.index + NumberRange < waitingForOrderedPacketWriteIndex'[c]
  BY DEF Overtaken
<1>3. /\ UNCHANGED << receivedPacketsBaseIndex, accepted, gaveUp, orderingList, outputQueue >>
      /\ waitingForOrderedPacketWriteIndex'[c] \in Nat
  <2>1. UNCHANGED receiver
    BY <1>1, SendAdds
  <2> QED
    BY <1>1, <2>1 DEF receiver, window, streams, TypeOK
<1>4. /\ g \in Ids' /\ g \in Nat /\ Message(g)'.index \in Nat
      /\ waitingForOrderedPacketWriteIndex'[c] - Message(g)'.index <= messageNumber' - g
  <2>1. g \in Ids' /\ messageNumber' \in Nat
    BY <1>1, <1>2 DEF OnOrdered, TypeOK, messageNumber
  <2>2. g \in Nat /\ Message(g)'.index \in Nat
    BY <1>1, <2>1, NextMessageType
  <2>3. waitingForOrderedPacketWriteIndex'[c] - Message(g)'.index <= messageNumber' - g
    BY <1>2 DEF IndexesFollowSend
  <2> QED
    BY <2>1, <2>2, <2>3
<1>5. g < receivedPacketsBaseIndex
  <2> DEFINE mn == messageNumber'
             b == receivedPacketsBaseIndex
             w == waitingForOrderedPacketWriteIndex'[c]
             x == Message(g)'.index
  <2>1. /\ mn \in Nat /\ b \in Nat /\ w \in Nat /\ x \in Nat /\ g \in Nat
        /\ NumberRange \in Nat /\ NumberRange >= 4 /\ WindowLimit \in Nat
    BY <1>1, <1>3, <1>4, ConstantFacts, ConstantsAssumption DEF TypeOK, messageNumber
  <2>2. mn - b <= WindowLimit + 1
    BY <1>1, <1>3 DEF InUseIsRecent
  <2>3. WindowLimit + 1 <= NumberRange
    BY <2>1 DEF RateIsSafe, Half
  <2>4. x + NumberRange < w /\ w - x <= mn - g
    BY <1>2, <1>4
  <2> HIDE DEF mn, b, w, x
  <2>5. g < b
    BY <2>1, <2>2, <2>3, <2>4
  <2> QED
    BY <2>5 DEF b
<1>6. g \in accepted \cup gaveUp /\ g \in Ids
  <2>1. receivedPacketsBaseIndex + Len(hasReceivedPacketQueue) <= messageNumber
    BY <1>1 DEF WindowIsExact
  <2>2. /\ receivedPacketsBaseIndex \in Nat /\ Len(hasReceivedPacketQueue) \in Nat
        /\ messageNumber \in Nat
    BY <1>1 DEF TypeOK, messageNumber
  <2>3. g \in 0..(receivedPacketsBaseIndex - 1) /\ g \in Ids
    BY <1>4, <1>5, <2>1, <2>2 DEF Ids
  <2> QED
    BY <1>1, <2>3 DEF WindowIsExact
<1>7. g \in OnOrdered(c)
  BY <1>1, <1>2, <1>6, SendOnStream
<1>8. g \notin accepted
  <2>1. HandedUp(g)' <=> HandedUp(g)
    BY <1>3 DEF HandedUp
  <2> QED
    BY <1>2, <1>3, <1>7, <2>1 DEF PlacesInv, AcceptedIsPlaced
<1> QED
  BY <1>6, <1>7, <1>8 DEF OnOrdered

LEMMA SendIsSubmit ==
    ASSUME IInv, IInv', RateIsSafe, StreamsInv, StreamsInv', PlacesInv, NEW k \in Traffic, Send(k)
    PROVE  Promise!Submit
<1>1. TypeOK /\ TypeOK' /\ InUseIsRecent' /\ IndexesFollowSend'
  BY DEF IInv, StreamsInv
<1>2. /\ messageNumber \in Nat /\ messageNumber' = messageNumber + 1
      /\ UNCHANGED << resendQueue, resendList, wire, ackWire, receiver >>
  BY <1>1, SendAdds
<1>3. UNCHANGED << accepted, gaveUp, orderingList, outputQueue >>
  BY <1>2 DEF receiver, window, streams
<1>4. /\ Len(sent') = Len(sent) + 1 /\ Len(sent) \in Nat
      /\ SubSeq(sent', 1, Len(sent)) = sent
  BY <1>1 DEF TypeOK, Send
<1>5. QueuedIds' \cup resendList' = (QueuedIds \cup resendList) \cup { Len(sent) }
  BY <1>1, <1>2, SendQueues DEF messageNumber
<1>6. { c \in Channels : Overtaken(c) } \subseteq { c \in Channels : Overtaken(c)' }
  <2> SUFFICES ASSUME NEW c \in Channels, Overtaken(c) PROVE Overtaken(c)'
    OBVIOUS
  <2>1. /\ \A j \in OnOrdered(c) : j \in OnOrdered(c)' /\ Message(j)' = Message(j)
        /\ waitingForOrderedPacketWriteIndex'[c] >= waitingForOrderedPacketWriteIndex[c]
    BY <1>1, SendOnStream
  <2>2. \A j : HandedUp(j)' <=> HandedUp(j)
    BY <1>3 DEF HandedUp
  <2> QED
    BY <1>1, <1>3, <2>1, <2>2, OvertakenStays
<1>7. \A c \in { d \in Channels : Overtaken(d)' } :
         \E j \in gaveUp \cap Ids : Ordered(j) /\ Message(j).channel = c
  BY <1>1, OvertakenIsGivenUp
<1>8. Promise!TakesPlace(Len(sent) - 1)'
  <2> SUFFICES ASSUME NEW new, new = Len(sent') - 1, NEW d, d = Message(new)'.channel,
                      Ordered(new)' \/ Sequenced(new)'
               PROVE  LET earlier == { j \in Ids' : j < new /\ Promise!SameStream(new, j)' }
                      IN  /\ \A j \in earlier : Message(j)'.index < Message(new)'.index
                          /\ \A x \in 0..(Message(new)'.index - 1) :
                                \E j \in earlier : Message(j)'.index = x
    BY MessagesAreSame DEF Promise!TakesPlace
  <2> DEFINE earlier == { j \in Ids' : j < new /\ Promise!SameStream(new, j)' }
  <2>1. /\ new \in Nat /\ new \in Ids' /\ d \in Channels /\ Message(new)'.index \in Nat
        /\ \A j \in Ids' : j \in Nat /\ j <= new
    <3>1. new \in Nat /\ new \in Ids'
      BY <1>4 DEF Ids, messageNumber
    <3> QED
      BY <1>1, <3>1, NextMessageType
  <2>2. \A j \in Ids' : Promise!SameStream(new, j)' <=>
           /\ Message(j)'.channel = d
           /\ \/ Ordered(new)' /\ Ordered(j)'
              \/ Sequenced(new)' /\ Sequenced(j)'
    BY MessagesAreSame DEF Promise!SameStream, Promise!SameChannel
  <2>3. CASE Ordered(new)'
    <3>1. earlier = { j \in OnOrdered(d)' : j < new } /\ new \in OnOrdered(d)'
      BY <2>1, <2>2, <2>3 DEF OnOrdered, Ordered, Sequenced
    <3>2. \A j \in earlier : Message(j)'.index < Message(new)'.index
      BY <1>1, <2>1, <3>1 DEF IndexesFollowSend
    <3>3. ASSUME NEW x \in 0..(Message(new)'.index - 1)
          PROVE  \E j \in earlier : Message(j)'.index = x
      <4>1. Message(new)'.index < waitingForOrderedPacketWriteIndex'[d]
        BY <1>1, <2>1, <3>1 DEF IndexesFollowSend
      <4>2. waitingForOrderedPacketWriteIndex'[d] \in Nat
        BY <1>1, <2>1 DEF TypeOK
      <4>3. x \in 0..(waitingForOrderedPacketWriteIndex'[d] - 1) /\ x # Message(new)'.index
        BY <2>1, <4>1, <4>2
      <4>4. PICK j \in OnOrdered(d)' : Message(j)'.index = x
        BY <1>1, <2>1, <4>3 DEF IndexesFollowSend
      <4>5. j \in Ids' /\ j # new
        BY <4>3, <4>4 DEF OnOrdered
      <4>6. j < new
        BY <2>1, <4>5
      <4> QED
        BY <3>1, <4>4, <4>6
    <3> QED
      BY <3>2, <3>3
  <2>4. CASE Sequenced(new)'
    <3>1. earlier = { j \in OnSequenced(d)' : j < new } /\ new \in OnSequenced(d)'
      BY <2>1, <2>2, <2>4 DEF OnSequenced, Ordered, Sequenced
    <3>2. \A j \in earlier : Message(j)'.index < Message(new)'.index
      BY <1>1, <2>1, <3>1 DEF IndexesFollowSend
    <3>3. ASSUME NEW x \in 0..(Message(new)'.index - 1)
          PROVE  \E j \in earlier : Message(j)'.index = x
      <4>1. Message(new)'.index < waitingForSequencedPacketWriteIndex'[d]
        BY <1>1, <2>1, <3>1 DEF IndexesFollowSend
      <4>2. waitingForSequencedPacketWriteIndex'[d] \in Nat
        BY <1>1, <2>1 DEF TypeOK
      <4>3. x \in 0..(waitingForSequencedPacketWriteIndex'[d] - 1) /\ x # Message(new)'.index
        BY <2>1, <4>1, <4>2
      <4>4. PICK j \in OnSequenced(d)' : Message(j)'.index = x
        BY <1>1, <2>1, <4>3 DEF IndexesFollowSend
      <4>5. j \in Ids' /\ j # new
        BY <4>3, <4>4 DEF OnSequenced
      <4>6. j < new
        BY <2>1, <4>5
      <4> QED
        BY <3>1, <4>4, <4>6
    <3> QED
      BY <3>2, <3>3
  <2> QED
    BY <2>3, <2>4
<1> QED
  BY <1>3, <1>4, <1>5, <1>6, <1>7, <1>8, MessagesAreSame DEF Promise!Submit

LEMMA ViewStays ==
    ASSUME UNCHANGED << sent, waitingForOrderedPacketWriteIndex, orderingList, outputQueue >>
    PROVE  /\ UNION { orderingList'[c] : c \in Channels } = UNION { orderingList[c] : c \in Channels }
           /\ { c \in Channels : Overtaken(c)' } = { c \in Channels : Overtaken(c) }
<1>1. /\ \A j : Message(j)' = Message(j)
      /\ \A c : OnOrdered(c)' = OnOrdered(c)
  BY SentStays
<1>2. \A j : HandedUp(j)' <=> HandedUp(j)
  BY DEF HandedUp
<1>3. \A c \in Channels : Overtaken(c)' <=> Overtaken(c)
  BY <1>1, <1>2 DEF Overtaken
<1> QED
  BY <1>3

LEMMA KeptOnlyShrinks ==
    ASSUME TypeOK, [Next]_vars, ~\E k \in Traffic : Send(k), ~\E i \in wire : Deliver(i)
    PROVE  QueuedIds' \cup resendList' \subseteq QueuedIds \cup resendList
<1>1. CASE Resend
  BY <1>1 DEF Resend, QueuedIds
<1>2. CASE Transmit
  BY <1>2, TransmitMoves
<1>3. CASE \E a \in ackWire : ReceiveAck(a)
  BY <1>3 DEF ReceiveAck, QueuedIds
<1>4. CASE GiveUpConnection
  BY <1>4 DEF GiveUpConnection, QueuedIds
<1>5. CASE SendAcks
  BY <1>5 DEF SendAcks, sender, QueuedIds
<1>6. CASE \E n \in 1..Len(hasReceivedPacketQueue) : HolesRunOut(n)
  BY <1>6 DEF HolesRunOut, sender, QueuedIds
<1>7. CASE \E i \in wire : Lose(i)
  BY <1>7 DEF Lose, sender, QueuedIds
<1>8. CASE \E a \in ackWire : LoseAck(a)
  BY <1>8 DEF LoseAck, sender, QueuedIds
<1>9. CASE UNCHANGED vars
  BY <1>9 DEF vars, sender, QueuedIds
<1> QED
  BY <1>1, <1>2, <1>3, <1>4, <1>5, <1>6, <1>7, <1>8, <1>9 DEF Next

LEMMA OthersForget ==
    ASSUME IInv, IInv', [Next]_vars, ~\E k \in Traffic : Send(k), ~\E i \in wire : Deliver(i)
    PROVE  Promise!Forget
<1>1. TypeOK /\ AckedIsAccepted'
  BY DEF IInv
<1>2. /\ UNCHANGED << sent, waitingForOrderedPacketWriteIndex, streams >>
      /\ UNCHANGED << receivedPacketsBaseIndex, accepted, gaveUp >>
  BY OtherActions
<1>3. UNCHANGED << orderingList, outputQueue >>
  BY <1>2 DEF streams
<1>4. /\ UNION { orderingList'[c] : c \in Channels } = UNION { orderingList[c] : c \in Channels }
      /\ { c \in Channels : Overtaken(c)' } = { c \in Channels : Overtaken(c) }
  BY <1>2, <1>3, ViewStays
<1>5. QueuedIds' \cup resendList' \subseteq QueuedIds \cup resendList
  BY <1>1, KeptOnlyShrinks
<1>6. ASSUME NEW i \in (QueuedIds \cup resendList) \ (QueuedIds' \cup resendList'), Reliable(i)
      PROVE  i \in accepted \cup gaveUp
  <2>1. i \in Ids
    BY <1>1 DEF TypeOK, QueuedIds
  <2>2. Ids' = Ids /\ Reliable(i)' = Reliable(i)
    BY <1>2 DEF Ids, Reliable, Message, messageNumber
  <2> QED
    BY <1>1, <1>2, <1>6, <2>1, <2>2 DEF AckedIsAccepted
<1> QED
  BY <1>2, <1>3, <1>4, <1>5, <1>6, MessagesAreSame DEF Promise!Forget

LEMMA DeliverKeepsBroken ==
    ASSUME IInv, IInv', RateIsSafe, StreamsInv, StreamsInv', NEW i \in wire, Deliver(i),
           ~IsDuplicate(i), NEW c \in Channels
    PROVE  Overtaken(c)' <=> Overtaken(c)
<1>1. TypeOK /\ TypeOK' /\ InUseIsRecent' /\ StoredOnStream /\ IndexesFollowSend'
  BY DEF IInv, StreamsInv
<1>2. Overtaken(c) => Overtaken(c)'
  BY <1>1, DeliverKeepsOvertaken
<1>3. ASSUME Overtaken(c)' PROVE Overtaken(c)
  <2>1. UNCHANGED << sent, waitingForOrderedPacketWriteIndex >>
    BY DEF Deliver, sender
  <2>2. (\A j : Message(j)' = Message(j)) /\ OnOrdered(c)' = OnOrdered(c)
    BY <2>1, SentStays
  <2>3. PICK g \in OnOrdered(c) :
          /\ ~HandedUp(g)' /\ g \notin orderingList'[c]
          /\ Message(g).index + NumberRange < waitingForOrderedPacketWriteIndex[c]
    BY <1>3, <2>1, <2>2 DEF Overtaken
  <2>4. /\ i \in Ids /\ Len(outputQueue') \in Nat /\ orderingList \in [Channels -> SUBSET Ids]
        /\ PassUpSequenced(i) \/ PassUpOrdered(i) \/ PassUpOther(i)
    BY <1>1 DEF TypeOK, Deliver
  <2>5. /\ Extends(outputQueue', outputQueue)
        /\ ~(Ordered(i) /\ c = Message(i).channel) => orderingList'[c] = orderingList[c]
    BY <1>1, <2>4, PassUpShape
  <2>6. ~HandedUp(g)
    BY <2>3, <2>4, <2>5, HandedUpStays
  <2>7. CASE Ordered(i) /\ c = Message(i).channel /\ g \in orderingList[c]
    <3>1. PassUpOrdered(i)
      BY <2>4, <2>7 DEF PassUpSequenced, PassUpOther, Ordered, Sequenced
    <3>2. i \notin orderingList[c]
      BY DuplicateIsKnown DEF IInv, HeldOnce
    <3>3. orderingList' = [orderingList EXCEPT ![c] = (@ \cup { i }) \ Run]
      BY <1>1, <2>4, <2>7, <3>1, <3>2, OrderedShape
    <3>4. g \in Run
      BY <2>3, <2>4, <2>7, <3>3
    <3> QED
      BY <2>3, <3>4, RunIsHandedUp
  <2> QED
    BY <2>3, <2>5, <2>6, <2>7 DEF Overtaken
<1> QED
  BY <1>2, <1>3

-----------------------------------------------------------------------------
(* What is handed up when a message arrives.                               *)

LEMMA OtherPassedUp ==
    ASSUME NEW i \in Ids, PassUpOther(i) PROVE Promise!OtherArrives(i)
  BY MessagesAreSame DEF PassUpOther, Promise!OtherArrives

\* The half-range comparison takes for older only what is half the range ahead.
LEMMA OlderIsFar ==
    ASSUME NEW x \in Nat, NEW r \in Nat, x >= r,
           IsOlderOrderedPacket(x % NumberRange, r % NumberRange)
    PROVE  x - r >= Half
<1> SUFFICES ASSUME x - r < Half PROVE FALSE
  <2>1. Half \in Nat
    BY ConstantFacts
  <2> QED
    BY <2>1
<1> DEFINE R == NumberRange
           M == MaxIndex \div 2
           a == x % R
           w == r % R
           d == x - r
<1>1. /\ R \in Nat \ {0} /\ R >= 4
      /\ M \in Nat /\ 2 * M <= R - 1 /\ Half = R - 1 - M
      /\ d \in Nat /\ d < R - 1 - M
  BY ConstantFacts, ConstantsAssumption DEF Half, MaxIndex
<1>2. IsOlderOrderedPacket(a, w)
  OBVIOUS
<1> HIDE DEF R, M
<1>3. a \in 0..(R - 1) /\ w \in 0..(R - 1)
  <2>1. x \in Int /\ r \in Int
    OBVIOUS
  <2> QED
    BY <1>1, <2>1, DivMod
<1>4. (a - w) % R = d
  <2>1. ((x % R) - (r % R)) % R = (x - r) % R
    <3>1. x \in Int /\ r \in Int
      OBVIOUS
    <3> QED
      BY <1>1, <3>1, DifferenceWraps
  <2>2. (x - r) % R = x - r
    BY <1>1, SmallRemainder
  <2> QED
    BY <2>1, <2>2
<1> HIDE DEF a, w, d
<1>5. a - w = d \/ a - w = d - R
  <2>1. a - w \in Int /\ -R <= a - w /\ a - w < R
    BY <1>1, <1>3
  <2>2. /\ 0 <= a - w => (a - w) % R = a - w
        /\ a - w < 0 => (a - w) % R = a - w + R
    BY <1>1, <2>1, SmallRemainder
  <2> QED
    BY <1>1, <1>3, <1>4, <2>1, <2>2
<1>6. CASE w > M
  <2>1. a >= w - M + 1 /\ a < w
    BY <1>2, <1>6 DEF IsOlderOrderedPacket, M
  <2> QED
    BY <1>1, <1>3, <1>5, <2>1
<1>7. CASE ~(w > M)
  <2>1. (w - (M + 1)) % R = w - (M + 1) + R
    <3>1. w - (M + 1) \in Int /\ -R <= w - (M + 1) /\ w - (M + 1) < 0
      BY <1>1, <1>3, <1>7
    <3> QED
      BY <1>1, <3>1, SmallRemainder
  <2>2. a >= (w - (M + 1)) % R \/ a < w
    BY <1>2, <1>7 DEF IsOlderOrderedPacket, M, R
  <2> QED
    BY <1>1, <1>3, <1>5, <1>7, <2>1, <2>2
<1> QED
  BY <1>6, <1>7

\* A sequenced message is handed up if all that were are older, and dropped only
\* if a newer one was or a half of the range is missing before it.
LEMMA SequencedPassedUp ==
    ASSUME IInv, StreamsInv, PlacesInv, SequencedInv, SequencedRateIsSafe,
           NEW i \in wire, i \notin accepted, PassUpSequenced(i)
    PROVE  Promise!SequencedArrives(i)
<1> DEFINE d == Message(i).channel
           x == Message(i).index
           r == waitingForSequencedPacketReadIndex[d]
           w == waitingForSequencedPacketWriteIndex[d]
           came == { j \in OnSequenced(d) : HandedUp(j) }
<1>1. TypeOK /\ InUseIsRecent /\ HeldOnce /\ IndexesFollowSend
  BY DEF IInv, StreamsInv
<1>2. /\ i \in Ids /\ d \in Channels /\ i \in OnSequenced(d)
      /\ SequencedStream(d) /\ ReadFollows(d)
  <2>1. i \in Ids
    BY <1>1 DEF TypeOK
  <2>2. d \in Channels
    BY <1>1, <2>1, MessageType
  <2> QED
    BY <2>1, <2>2 DEF OnSequenced, PassUpSequenced, SequencedInv, PlacesInv
<1>3. i \in Nat /\ x \in Nat /\ r \in Nat /\ w \in Nat /\ Half \in Nat
  BY <1>1, <1>2, OnSequencedType, ConstantFacts DEF TypeOK
<1>4. r - x <= SendLimit
  <2>1. w - x <= messageNumber - i
    BY <1>1, <1>2 DEF IndexesFollowSend
  <2>2. messageNumber - i <= SendLimit
    BY <1>1 DEF InUseIsRecent, InUse
  <2>3. r <= w /\ messageNumber \in Nat /\ SendLimit \in Nat
    BY <1>1, <1>2, ConstantFacts DEF SequencedStream, TypeOK, messageNumber
  <2> HIDE DEF x, r, w
  <2> QED
    BY <1>3, <2>1, <2>2, <2>3
<1>5. ASSUME NEW j \in came
      PROVE  /\ j \in Nat /\ j # i /\ Message(j).index \in Nat /\ Message(j).index < r
             /\ j < i => Message(j).index < x
             /\ i < j => x < Message(j).index
  <2>1. j \in OnSequenced(d) /\ HandedUp(j)
    OBVIOUS
  <2>2. PICK m \in 1..Len(outputQueue) : outputQueue[m] = j
    BY <2>1 DEF HandedUp
  <2>3. j \in accepted /\ At(m, j) /\ m \in Nat
    BY <1>1, <2>2 DEF HeldOnce, At
  <2>4. j \in Nat /\ Message(j).index \in Nat
    BY <1>1, <1>2, <2>1, OnSequencedType
  <2>5. Message(j).index < r
    BY <1>2, <2>1, <2>3 DEF SequencedStream
  <2> QED
    BY <1>1, <1>2, <2>1, <2>3, <2>4, <2>5 DEF IndexesFollowSend
<1>6. { j \in Promise!FirstOf(outputQueue, Len(outputQueue)) :
           Promise!Sequenced(j) /\ Promise!SameChannel(i, j) } = came
  <2>1. \A m \in 1..Len(outputQueue) : outputQueue[m] \in Ids
    BY <1>1 DEF TypeOK
  <2>2. Promise!FirstOf(outputQueue, Len(outputQueue)) = { j \in Ids : HandedUp(j) }
    BY <2>1 DEF Promise!FirstOf, HandedUp
  <2> QED
    BY <2>2, MessagesAreSame DEF Promise!SameChannel, OnSequenced
<1>7. CASE ~IsOlderOrderedPacket(x % NumberRange, r % NumberRange)
  <2>1. outputQueue' = Append(outputQueue, i)
    BY <1>7 DEF PassUpSequenced
  <2>2. ASSUME NEW j \in came PROVE j < i
    <3>1. ~(x < r)
      BY <1>3, <1>4, <1>7, OlderIsSeen
    <3> HIDE DEF came, x, r
    <3> QED
      BY <1>3, <1>5, <3>1
  <2> QED
    BY <1>6, <2>1, <2>2, MessagesAreSame DEF Promise!SequencedArrives, PassUpSequenced
<1>8. CASE IsOlderOrderedPacket(x % NumberRange, r % NumberRange)
  <2>1. UNCHANGED outputQueue
    BY <1>8 DEF PassUpSequenced
  <2>2. CASE x < r
    <3>1. PICK j \in OnSequenced(d) : HandedUp(j) /\ Message(j).index = r - 1
      BY <1>2, <1>3, <2>2 DEF ReadFollows
    <3>2. j \in came
      BY <3>1
    <3>3. j > i
      <4> HIDE DEF came, x, r
      <4> QED
        BY <1>3, <1>5, <2>2, <3>1, <3>2
    <3> QED
      BY <1>6, <2>1, <3>2, <3>3, MessagesAreSame DEF Promise!SequencedArrives, PassUpSequenced
  <2>3. CASE ~(x < r)
    <3>1. x - r >= Half
      BY <1>3, <1>8, <2>3, OlderIsFar
    <3>2. Half <= x
      <4> HIDE DEF x, r
      <4> QED
        BY <1>3, <3>1
    <3>3. ASSUME NEW j \in came PROVE Message(j).index + Half < x
      <4> HIDE DEF came, x, r
      <4> QED
        BY <1>3, <1>5, <3>1
    <3> QED
      BY <1>6, <2>1, <3>2, <3>3, MessagesAreSame DEF Promise!SequencedArrives, PassUpSequenced
  <2> QED
    BY <2>2, <2>3
<1> QED
  BY <1>7, <1>8

\* Of each message stored one that goes before it is still missing.
NoneReady ==
    \A c \in Channels : ~Overtaken(c) =>
        \A j \in orderingList[c] : \E k \in OnOrdered(c) : k < j /\ ~HandedUp(k)

LEMMA NoneReadyFromStreams ==
    ASSUME TypeOK, StreamsInv PROVE NoneReady
<1> SUFFICES ASSUME NEW c \in Channels, ~Overtaken(c), NEW j \in orderingList[c]
             PROVE  \E k \in OnOrdered(c) : k < j /\ ~HandedUp(k)
  BY DEF NoneReady
<1> DEFINE r == waitingForOrderedPacketReadIndex[c]
           w == waitingForOrderedPacketWriteIndex[c]
<1>1. OrderedStream(c) /\ StoredIsNewer(c) /\ IndexesFollowSend /\ j \in OnOrdered(c)
  BY DEF StreamsInv, OrderHolds, StoredOnStream
<1>2. /\ r \in Nat /\ w \in Nat /\ j \in Nat /\ Message(j).index \in Nat
      /\ r < Message(j).index /\ Message(j).index < w
  BY <1>1, OnType DEF TypeOK, StoredIsNewer, IndexesFollowSend
<1>3. r \in 0..(w - 1)
  <2> HIDE DEF r, w
  <2> QED
    BY <1>2
<1>4. PICK k \in OnOrdered(c) : Message(k).index = r
  BY <1>1, <1>3 DEF IndexesFollowSend
<1>5. ~HandedUp(k)
  <2>1. ~(Message(k).index < r)
    BY <1>2, <1>4
  <2> QED
    BY <1>1, <2>1 DEF OrderedStream
<1>6. k < j
  <2>1. k \in Nat /\ k # j
    BY <1>2, <1>4, OnType
  <2>2. ~(j < k)
    <3>1. j < k => Message(j).index < Message(k).index
      BY <1>1 DEF IndexesFollowSend
    <3> HIDE DEF r, w
    <3> QED
      BY <1>2, <1>4, <3>1
  <2> QED
    BY <1>2, <2>1, <2>2
<1> QED
  BY <1>5, <1>6

LEMMA NextInOrder == TypeOK' /\ StreamsInv' => OrderedInOrder' /\ NoneReady'
<1>1. TypeOK /\ StreamsInv => OrderedInOrder /\ NoneReady
  BY OrderFromStreams, NoneReadyFromStreams
<1> QED
  BY <1>1, PTL

\* An ordered message goes up with those it lets go, or is held.
LEMMA OrderedPasses ==
    ASSUME IInv, IInv', RateIsSafe, StreamsInv, StreamsInv',
           NEW i \in wire, Deliver(i), ~IsDuplicate(i), PassUpOrdered(i)
    PROVE  Promise!OrderedArrives(i)
<1> DEFINE d == Message(i).channel
           holding == UNION { orderingList[c] : c \in Channels }
<1>1. TypeOK /\ TypeOK' /\ StoredOnStream /\ OutputOnce'
  BY DEF IInv, StreamsInv
<1>2. OrderedInOrder' /\ NoneReady'
  BY <1>1, NextInOrder
<1>3. i \in Ids /\ d \in Channels /\ i \in OnOrdered(d)
  <2>1. i \in Ids
    BY <1>1 DEF TypeOK
  <2>2. d \in Channels
    BY <1>1, <2>1, MessageType
  <2> QED
    BY <2>1, <2>2 DEF OnOrdered, PassUpOrdered
<1>4. i \notin orderingList[d]
  BY <1>3, DuplicateIsKnown DEF IInv, HeldOnce
<1>5. UNCHANGED sent
  BY DEF Deliver, sender
<1>6. /\ \A j : Message(j)' = Message(j)
      /\ Ids' = Ids /\ \A j : Ordered(j)' = Ordered(j)
      /\ \A c : OnOrdered(c)' = OnOrdered(c)
  BY <1>5, SentStays DEF Ordered
<1>7. /\ outputQueue \in Seq(Ids) /\ outputQueue' \in Seq(Ids)
      /\ orderingList \in [Channels -> SUBSET Ids]
      /\ Len(outputQueue) \in Nat /\ Len(outputQueue') \in Nat
  BY <1>1, <1>6 DEF TypeOK
<1>8. Extends(outputQueue', outputQueue)
  BY <1>1, <1>3, PassUpShape
<1>9. SubSeq(outputQueue', 1, Len(outputQueue)) = outputQueue
  BY <1>7, <1>8 DEF Extends
<1>10. /\ Run \subseteq { i } \cup orderingList[d]
       /\ orderingList' = [orderingList EXCEPT ![d] = (@ \cup { i }) \ Run]
  <2> SUFFICES ASSUME NEW e, e = d
               PROVE  /\ Run \subseteq { i } \cup orderingList[e]
                      /\ orderingList' = [orderingList EXCEPT ![e] = (@ \cup { i }) \ Run]
    OBVIOUS
  <2> QED
    BY <1>1, <1>3, <1>4, OrderedShape
<1>11. \A c \in Channels : \A j \in orderingList[c] : Message(j).channel = c
  BY <1>1 DEF StoredOnStream, OnOrdered
<1>12. Run \subseteq { i } \cup { j \in holding : Message(j).channel = d }
  BY <1>3, <1>10, <1>11
<1>13. UNION { orderingList'[c] : c \in Channels } = (holding \cup { i }) \ Run
  <2>1. \A c \in Channels : c # d => orderingList'[c] = orderingList[c]
    BY <1>7, <1>10
  <2>2. orderingList'[d] = (orderingList[d] \cup { i }) \ Run
    BY <1>3, <1>7, <1>10
  <2>3. \A c \in Channels : c # d => orderingList[c] \cap Run = {}
    BY <1>3, <1>10, <1>11
  <2> HIDE DEF d
  <2> QED
    BY <1>3, <2>1, <2>2, <2>3
<1>14. ASSUME NEW n \in NewPlaces
       PROVE  outputQueue'[n] \in OnOrdered(d) /\ n \in 1..Len(outputQueue')
  BY <1>1, <1>3, <1>10 DEF Run, NewPlaces, StoredOnStream
<1>15. ASSUME NEW e \in Channels, e = d, ~Overtaken(e), NEW n \in NewPlaces
       PROVE  Promise!Before(outputQueue'[n]) \subseteq Promise!FirstOf(outputQueue', n - 1)
  <2> SUFFICES ASSUME NEW x, x = outputQueue'[n], NEW j \in Promise!Before(x)
               PROVE  \E m \in 1..(n - 1) : outputQueue'[m] = j
    BY DEF Promise!FirstOf
  <2>1. x \in OnOrdered(e) /\ n \in 1..Len(outputQueue')
    BY <1>14, <1>15
  <2>2. /\ j \in Ids /\ j < x /\ Ordered(j) /\ Message(j).channel = Message(x).channel
        /\ x \in Nat /\ Ordered(x) /\ Message(x).channel = e
    BY <1>1, <2>1, OnType, MessagesAreSame DEF Promise!Before, Promise!SameChannel
  <2>3. j \in 0..(x - 1)
    BY <2>2 DEF Ids
  <2>4. ~Overtaken(e)'
    BY <1>15, DeliverKeepsBroken
  <2>5. Message(x)'.channel = e /\ Message(j)'.channel = e /\ Ordered(x)' /\ Ordered(j)'
    BY <1>6, <2>2
  <2> QED
    BY <1>2, <2>1, <2>3, <2>4, <2>5 DEF OrderedInOrder
<1>16. ASSUME NEW e \in Channels, e = d, ~Overtaken(e),
              NEW j \in (holding \cup { i }) \ Run, Message(j).channel = e
       PROVE  ~(Promise!Before(j) \subseteq Promise!FirstOf(outputQueue', Len(outputQueue')))
  <2>1. PICK c \in Channels : j \in orderingList'[c]
    BY <1>13
  <2>2. j \in orderingList'[e]
    <3>1. c # d => orderingList'[c] = orderingList[c]
      BY <1>7, <1>10
    <3>2. c = e
      BY <1>11, <1>16, <2>1, <3>1
    <3> QED
      BY <2>1, <3>2
  <2>3. ~Overtaken(e)'
    BY <1>16, DeliverKeepsBroken
  <2>4. PICK k \in OnOrdered(e)' : k < j /\ ~HandedUp(k)'
    BY <1>2, <2>2, <2>3 DEF NoneReady
  <2>5. k \in Ids /\ Ordered(k) /\ Message(k).channel = e
    BY <1>6, <2>4 DEF OnOrdered
  <2>6. k \in Promise!Before(j)
    BY <1>16, <2>4, <2>5, MessagesAreSame DEF Promise!Before, Promise!SameChannel
  <2>7. k \notin Promise!FirstOf(outputQueue', Len(outputQueue'))
    BY <2>4 DEF Promise!FirstOf, HandedUp
  <2> QED
    BY <2>6, <2>7
<1>17. \A m, n \in NewPlaces : outputQueue'[m] = outputQueue'[n] => m = n
  BY <1>1 DEF OutputOnce, NewPlaces
<1>18. Len(outputQueue') >= Len(outputQueue)
  BY <1>7, <1>8 DEF Extends
<1>19. d \notin { c \in Channels : Overtaken(c) } =>
          /\ \A n \in NewPlaces :
                Promise!Before(outputQueue'[n]) \subseteq Promise!FirstOf(outputQueue', n - 1)
          /\ \A j \in (holding \cup { i }) \ Run : Message(j).channel = d =>
                ~(Promise!Before(j) \subseteq Promise!FirstOf(outputQueue', Len(outputQueue')))
  BY <1>3, <1>15, <1>16
<1> HIDE DEF holding, d
<1>20. Ordered(i)
  BY DEF PassUpOrdered
<1> QED
  BY <1>9, <1>12, <1>13, <1>17, <1>18, <1>19, <1>20, MessagesAreSame
  DEF Promise!OrderedArrives, Promise!SameChannel, Run, NewPlaces, holding, d

\* A datagram repeated changes nothing of what was promised; another arrives.
LEMMA DeliverIsArrive ==
    ASSUME IInv, IInv', RateIsSafe, StreamsInv, StreamsInv', PlacesInv, PlacesInv',
           SequencedInv, SequencedRateIsSafe, NEW i \in wire, Deliver(i)
    PROVE  (Promise!Arrive(i) /\ i \in Ids) \/ UNCHANGED Promise!deliveryVars
<1>1. TypeOK /\ TypeOK' /\ InUseIsRecent /\ WindowIsExact /\ WindowIsExact'
  BY DEF IInv
<1>2. /\ UNCHANGED << sent, waitingForOrderedPacketWriteIndex, sendPacketSet, resendList >>
      /\ Ids' = Ids /\ messageNumber' = messageNumber
      /\ QueuedIds' = QueuedIds
  BY DEF Deliver, sender, Ids, messageNumber, QueuedIds
<1>3. CASE IsDuplicate(i)
  <2>1. UNCHANGED << accepted, gaveUp, orderingList, outputQueue >>
    BY <1>3 DEF Deliver, window, streams
  <2>2. /\ UNION { orderingList'[c] : c \in Channels } =
              UNION { orderingList[c] : c \in Channels }
        /\ { c \in Channels : Overtaken(c)' } = { c \in Channels : Overtaken(c) }
    BY <1>2, <2>1, ViewStays
  <2> QED
    BY <1>2, <2>1, <2>2 DEF Promise!deliveryVars
<1>4. CASE ~IsDuplicate(i)
  <2>1. Accept(i) /\ (PassUpSequenced(i) \/ PassUpOrdered(i) \/ PassUpOther(i))
    BY <1>4 DEF Deliver
  <2>2. i \in Ids /\ i \notin accepted \cup gaveUp
    <3>1. i \in Ids /\ i \in Nat /\ receivedPacketsBaseIndex \in Nat
      BY <1>1 DEF TypeOK, Ids
    <3>2. i \notin accepted /\ i >= receivedPacketsBaseIndex
      BY <1>1, <1>4, DuplicateIsKnown
    <3>3. i \notin gaveUp
      BY <3>1, <3>2 DEF PlacesInv, GivenUpIsMissing
    <3> QED
      BY <3>1, <3>2, <3>3
  <2>3. accepted' = accepted \cup { i } /\ gaveUp \subseteq gaveUp'
    BY <1>1, <1>2, <1>4, <2>1, AcceptKeepsWindow
  <2>4. gaveUp' \subseteq Ids \ accepted'
    <3> SUFFICES ASSUME NEW j \in gaveUp' PROVE j \in Ids /\ j \notin accepted'
      OBVIOUS
    <3>1. j < receivedPacketsBaseIndex' /\ j \notin accepted'
      BY DEF PlacesInv, GivenUpIsMissing
    <3>2. /\ j \in Nat /\ receivedPacketsBaseIndex' \in Nat
          /\ Len(hasReceivedPacketQueue') \in Nat /\ messageNumber \in Nat
          /\ receivedPacketsBaseIndex' + Len(hasReceivedPacketQueue') <= messageNumber
      BY <1>1, <1>2 DEF TypeOK, WindowIsExact, messageNumber
    <3> QED
      BY <3>1, <3>2 DEF Ids
  <2>5. { c \in Channels : Overtaken(c)' } = { c \in Channels : Overtaken(c) }
    BY <1>4, DeliverKeepsBroken
  <2>6. Promise!OrderedArrives(i) \/ Promise!SequencedArrives(i) \/ Promise!OtherArrives(i)
    BY <1>4, <2>1, <2>2, OrderedPasses, SequencedPassedUp, OtherPassedUp
  <2> QED
    BY <1>2, <2>2, <2>3, <2>4, <2>5, <2>6, MessagesAreSame DEF Promise!Arrive
<1> QED
  BY <1>3, <1>4

LEMMA StepIsDelivery ==
    ASSUME IInv, IInv', RateIsSafe, StreamsInv, StreamsInv', PlacesInv, PlacesInv',
           SequencedInv, SequencedRateIsSafe, [Next]_vars
    PROVE  [Promise!DeliveryNext]_(Promise!deliveryVars)
<1>1. CASE \E k \in Traffic : Send(k)
  BY <1>1, SendIsSubmit DEF Promise!DeliveryNext
<1>2. CASE \E i \in wire : Deliver(i)
  BY <1>2, DeliverIsArrive, MessagesAreSame DEF Promise!DeliveryNext
<1>3. CASE ~(\E k \in Traffic : Send(k)) /\ ~(\E i \in wire : Deliver(i))
  BY <1>3, OthersForget DEF Promise!DeliveryNext
<1> QED
  BY <1>1, <1>2, <1>3

LEMMA InitIsDelivery == ASSUME Init PROVE Promise!DeliveryInit
<1>1. QueuedIds \cup resendList = {}
  BY DEF Init, QueuedIds
<1>2. UNION { orderingList[c] : c \in Channels } = {}
  BY DEF Init
<1>3. \A c \in Channels : ~Overtaken(c)
  BY DEF Init, Overtaken, OnOrdered, Ids, messageNumber
<1> QED
  BY <1>1, <1>2, <1>3 DEF Init, Promise!DeliveryInit

\* Windows of 16-bit numbers, acknowledgements, resends and a network that loses,
\* repeats and reorders deliver what PacketPriority.h:32-39 promises, step by step,
\* for every range of the numbers, provided the application sends no faster than
\* RateIsSafe and SequencedRateIsSafe allow.
THEOREM ImplementsDeliveryHolds ==
    ASSUME RateIsSafe, SequencedRateIsSafe PROVE Spec => ImplementsDelivery
<1>1. Init => PlacesInv /\ SequencedInv /\ Promise!DeliveryInit
  BY InitIsPlaced, InitIsStreams, InitIsDelivery
<1>2. IInv /\ StreamsInv /\ SequencedInv /\ IInv' /\ [Next]_vars => SequencedInv'
  BY SequencedInvIsInductive DEF IInv, StreamsInv
<1>3. IInv /\ StreamsInv /\ PlacesInv /\ IInv' /\ [Next]_vars => PlacesInv'
  BY PlacesInvIsInductive DEF IInv, StreamsInv
<1>4. /\ IInv /\ StreamsInv /\ PlacesInv /\ SequencedInv
      /\ IInv' /\ StreamsInv' /\ PlacesInv' /\ [Next]_vars
      => [Promise!DeliveryNext]_(Promise!deliveryVars)
  BY StepIsDelivery
<1> QED
  BY <1>1, <1>2, <1>3, <1>4, InvariantHolds, StreamsHold, PTL
  DEF Spec, ImplementsDelivery, Promise!DeliverySpec

=============================================================================
