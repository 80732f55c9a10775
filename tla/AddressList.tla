---------------------------- MODULE AddressList ----------------------------
(***************************************************************************)
(* SystemAddressList: addresses of systems, in an order that can be        *)
(* drawn, written to a stream and read from one (SystemAddressList.cpp).   *)
(***************************************************************************)
EXTENDS Integers, Sequences, FiniteSets, SequencesExt

CONSTANTS
    Systems,        \* addresses and ports
    SizeRange,      \* the size is written as an unsigned short: 65536
    MaxSize         \* bound: systems in the list

VARIABLES
    systemList, \* the list
    systems     \* history: how often each system is in it

vars == << systemList, systems >>

Counted(list) == [ s \in Systems |-> Cardinality({ i \in DOMAIN list : list[i] = s }) ]

Init == systemList = << >> /\ systems = Counted(<< >>)

AddSystem(s) ==
    /\ Len(systemList) < MaxSize
    /\ systemList' = Append(systemList, s)
    /\ systems' = [ systems EXCEPT ![s] = @ + 1 ]

\* List::Del(n) takes n elements from the end; what is meant is the n-th.
Without(s) ==
    LET found == { i \in DOMAIN systemList : systemList[i] = s }
        first == CHOOSE i \in found : \A j \in found : i <= j
    IN  IF found = {} THEN systemList
        ELSE SubSeq(systemList, 1, Len(systemList) - (first - 1))

RemoveSystem(s) ==
    /\ systemList' = Without(s)
    /\ systems' = Counted(systemList')

\* One of those from each place on is put there.
Swapped(list, i, j) == [ list EXCEPT ![i] = list[j], ![j] = list[i] ]
Orders ==
    LET size == Len(systemList)
        draws == { d \in [ 1 .. size -> 1 .. size ] : \A i \in 1 .. size : d[i] >= i }
        after(d) == LET list[ i \in 0 .. size ] ==
                          IF i = 0 THEN systemList ELSE Swapped(list[i - 1], i, d[i])
                    IN  list[size]
    IN  { after(d) : d \in draws }
RandomizeOrder ==
    /\ systemList' \in Orders
    /\ UNCHANGED systems

Clear == systemList' = << >> /\ systems' = Counted(<< >>)

Next ==
    \/ \E s \in Systems : AddSystem(s) \/ RemoveSystem(s)
    \/ RandomizeOrder
    \/ Clear

-----------------------------------------------------------------------------
(* Streams: two bytes of size; of each system four of address, two of port. *)

Entry(s) == [ k \in 1 .. 6 |-> << s, k >> ]
Serialized == [ size |-> Len(systemList) % SizeRange, bytes |-> FlattenSeq([ i \in DOMAIN systemList |-> Entry(systemList[i]) ]) ]

\* Reading a system: an address that is not there whole is left as it was, and
\* only the port's absence is noticed.
Address(bytes, last) == IF Len(bytes) >= 4 THEN SubSeq(bytes, 1, 4) ELSE last
Rest(bytes) == IF Len(bytes) >= 4 THEN SubSeq(bytes, 5, Len(bytes)) ELSE bytes
Unread == << "unread" >>

Deserialize(stream) ==
    LET read[ i \in 0 .. stream.size ] ==
          IF i = 0 THEN [ ok |-> TRUE, list |-> << >>, last |-> Unread, bytes |-> stream.bytes ]
          ELSE LET r == read[i - 1]
                   address == Address(r.bytes, r.last)
                   rest == Rest(r.bytes)
               IN  IF ~r.ok \/ Len(rest) < 2
                   THEN [ ok |-> FALSE, list |-> << >>, last |-> address, bytes |-> rest ]
                   ELSE [ ok |-> TRUE, list |-> Append(r.list, address \o SubSeq(rest, 1, 2)),
                          last |-> address, bytes |-> SubSeq(rest, 3, Len(rest)) ]
    IN  read[stream.size]

Cut(n) == [ Serialized EXCEPT !.bytes = SubSeq(@, 1, n) ]
Size == Len(Serialized.bytes)

\* What was written is read, unless its size does not fit; of what is cut short
\* nothing is read, but where two or three bytes are left of the last address,
\* which then is the one before it, with two of its own bytes for the port.
RoundTrips ==
    /\ Len(systemList) < SizeRange =>
         Deserialize(Serialized) = [ ok |-> TRUE, list |-> [ i \in DOMAIN systemList |-> Entry(systemList[i]) ],
            last |-> IF systemList = << >> THEN Unread ELSE SubSeq(Entry(Last(systemList)), 1, 4), bytes |-> << >> ]
    /\ systemList # << >> /\ Len(systemList) < SizeRange =>
         \A n \in 0 .. Size - 1 : Deserialize(Cut(n)).ok <=> Size - n \in { 3, 4 }

\* Drawing an order neither adds nor loses a system, and any may come first.
\* One that is in the first half stays when it is removed, and others go.
Faithful ==
    /\ \A order \in Orders \cup { systemList } : Counted(order) = systems
    /\ \A i \in DOMAIN systemList : \E order \in Orders : order[1] = systemList[i]
    /\ \A i \in DOMAIN systemList :
         2 * i <= Len(systemList) => Counted(Without(systemList[i]))[systemList[i]] > 0
=============================================================================
