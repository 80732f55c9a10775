------------------------------ MODULE Datagrams ------------------------------
(***************************************************************************)
(* Datagrams as they leave (kyretardizeDatagram of sampencr.cpp, SendTo of *)
(* SocketLayer.cpp): a checksum in front, each byte looked up in a table,  *)
(* and every second one combined with the port.  All senders share one     *)
(* buffer: the network thread, which sends what the reliability layers     *)
(* give it, and the user's, in Ping and AdvertiseSystem.                   *)
(***************************************************************************)
EXTENDS Integers, Sequences, FiniteSets, Bitwise

CONSTANTS
    Threads,    \* threads that send: the network thread and the user's
    ByteSize,   \* values of a byte: a power of two, 256 in the code
    Mask,       \* the bits the checksum is made of: 0xAA
    Salt,       \* combined with the port: 0xCC
    Table,      \* sampEncrTable, a sequence: byte b becomes Table[b + 1]
    Plain,      \* datagrams sent: sequences of bytes, none empty
    Ports,      \* ports they are sent to
    MaxSends    \* bound: datagrams sent

Bytes == 0 .. ByteSize - 1
TableAssumption == DOMAIN Table = 1 .. ByteSize /\ { Table[b + 1] : b \in Bytes } = Bytes

VARIABLES
    sending,    \* encrBuffer, and of each thread how far it is in SendTo
    left        \* history: what left, and what was meant

vars == << sending, left >>

Idle == [ pc |-> "idle", data |-> << >>, port |-> 0, i |-> 0, alone |-> TRUE ]
Longest == CHOOSE n \in { Len(p) : p \in Plain } : \A p \in Plain : Len(p) <= n

Init ==
    /\ sending = [ encrBuffer |-> [ i \in 1 .. Longest + 1 |-> 0 ], threads |-> [ t \in Threads |-> Idle ] ]
    /\ left = << >>

Checksum(data) ==
    LET sum[ i \in 0 .. Len(data) ] == IF i = 0 THEN 0 ELSE sum[i - 1] ^^ (data[i] & Mask)
    IN  sum[Len(data)]
Key(port) == (port ^^ Salt) % ByteSize

\* The first byte is left as it is looked up, the second is combined, and so on.
Combined(byte, i, port) == IF i % 2 = 0 THEN byte ^^ Key(port) ELSE byte

Thread(t) == sending.threads[t]
Busy == { t \in Threads : Thread(t).pc # "idle" }

-----------------------------------------------------------------------------
\* The steps of a thread, each of which another may come between.
Begin(t, data, port) ==
    /\ Thread(t).pc = "idle" /\ Len(left) + Cardinality(Busy) < MaxSends
    /\ sending' = [ sending EXCEPT
         !.threads = [ u \in Threads |->
            IF u = t THEN [ pc |-> "checksum", data |-> data, port |-> port, i |-> 1, alone |-> TRUE ]
            ELSE @[u] ] ]
    /\ UNCHANGED left

\* History: who has bytes in the buffer while t writes to it is not alone.
WrittenBy(t) ==
    [ u \in Threads |-> IF u # t /\ Thread(u).pc \in { "copy", "encode", "send" }
                         THEN [ Thread(u) EXCEPT !.alone = FALSE ] ELSE Thread(u) ]

Stored(t, i, byte, pc, next) ==
    /\ sending' = [ encrBuffer |-> [ sending.encrBuffer EXCEPT ![i] = byte ],
                    threads |-> [ WrittenBy(t) EXCEPT ![t].pc = pc, ![t].i = next ] ]
    /\ UNCHANGED left

StoreChecksum(t) ==
    /\ Thread(t).pc = "checksum"
    /\ Stored(t, 1, Checksum(Thread(t).data), "copy", 1)

\* memcpy.
Copy(t) ==
    /\ Thread(t).pc = "copy"
    /\ LET data == Thread(t).data
           buffer == sending.encrBuffer
       IN  sending' = [ encrBuffer |-> [ i \in DOMAIN buffer |->
                            IF i \in 2 .. Len(data) + 1 THEN data[i - 1] ELSE buffer[i] ],
                        threads |-> [ WrittenBy(t) EXCEPT ![t].pc = "encode" ] ]
    /\ UNCHANGED left

\* A byte is read from the buffer, and written back.
Encode(t) ==
    /\ Thread(t).pc = "encode"
    /\ LET i == Thread(t).i
           last == i = Len(Thread(t).data)
       IN  Stored(t, i + 1, Combined(Table[sending.encrBuffer[i + 1] + 1], i, Thread(t).port),
                  IF last THEN "send" ELSE "encode", IF last THEN i ELSE i + 1)

SendTo(t) ==
    /\ Thread(t).pc = "send"
    /\ LET s == Thread(t)
       IN  left' = Append(left, [ bytes |-> SubSeq(sending.encrBuffer, 1, Len(s.data) + 1),
                                  data |-> s.data, port |-> s.port, alone |-> s.alone ])
    /\ sending' = [ sending EXCEPT !.threads[t] = Idle ]

Next ==
    \E t \in Threads :
        \/ \E data \in Plain, port \in Ports : Begin(t, data, port)
        \/ StoreChecksum(t) \/ Copy(t) \/ Encode(t) \/ SendTo(t)

-----------------------------------------------------------------------------
(* The server that is sent to: external. *)

DecrTable(byte) == CHOOSE b \in Bytes : Table[b + 1] = byte
Decoded(bytes, port) == [ i \in 1 .. Len(bytes) - 1 |-> DecrTable(Combined(bytes[i + 1], i, port)) ]
Accepts(bytes, port) == bytes[1] = Checksum(Decoded(bytes, port))

\* The server gets what was meant of a datagram, however the threads take turns, if none
\* of the others wrote to the buffer between its first byte and its sendto; any other
\* datagram leaves as a mixture.
RoundTrips ==
    \A n \in DOMAIN left :
        LET d == left[n]
        IN  d.alone => Accepts(d.bytes, d.port) /\ Decoded(d.bytes, d.port) = d.data

\* The buffer holds the part of a datagram that is done and the part that is
\* not, as long as no other thread has written to it since.
WellFormed ==
    \A t \in Threads :
        LET s == Thread(t)
        IN  s.pc \in { "encode", "send" } /\ s.alone =>
              \A i \in 1 .. Len(s.data) :
                sending.encrBuffer[i + 1] =
                  IF i < s.i \/ s.pc = "send" THEN Combined(Table[s.data[i] + 1], i, s.port) ELSE s.data[i]
=============================================================================
