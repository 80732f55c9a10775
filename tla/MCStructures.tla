---------------------------- MODULE MCStructures ----------------------------
(* Instances for TLC of the data structures, encodings and arithmetic, and *)
(* of the tables and protocols of RakPeer that are modelled apart: a       *)
(* behaviour is one of them, the subject, from its Init on.  rep is its    *)
(* representation, model what its caller believes of it.                   *)
EXTENDS Integers, Sequences, FiniteSets

VARIABLES subject, rep, model,
          more   \* of the deep tree: the stride, and the keys it has taken;
                 \* of the players: what each client knows

vars == << subject, rep, model, more >>

Numbers == INSTANCE RangeList WITH ranges <- rep, acks <- model,
    Indexes <- 0 .. 6, MaxBits <- { 48, 65, 100 }
Array == INSTANCE ArrayList WITH list <- rep, elements <- model,
    Elements <- { 0, 1 }, FirstAllocation <- 2, KeptAllocation <- 3, MaxSize <- 4
Fifo == INSTANCE ArrayQueue WITH queue <- rep, elements <- model,
    Elements <- { 0, 1 }, FirstAllocation <- 2, KeptAllocation <- 4, MaxSize <- 4
Links == INSTANCE CircularLinkedList WITH list <- rep, items <- model,
    Items <- { 0, 1 }, Nodes <- { 1, 2, 3, 4 }
Map == INSTANCE OrderedMap WITH map <- rep, data <- model, Keys <- 1 .. 4, Data <- { 0, 1 }
Weighed(isMaxHeap) == INSTANCE Heap WITH heap <- rep, weights <- model,
    Weights <- { 1, 2, 3 }, IsMaxHeap <- isMaxHeap, MaxSize <- 7
Avl == INSTANCE AVLTree WITH tree <- rep, items <- model, Items <- 1 .. 6
Tree == INSTANCE BPlusTree WITH tree <- rep, held <- model, Keys <- 1 .. 23, Order <- 4
Bits(fresh) == INSTANCE BitStream WITH stream <- rep, written <- model,
    Fresh <- fresh, StackBytes <- 4, MaxWrites <- 2
Coding == INSTANCE StringCoding WITH coding <- rep, strings <- model,
    ByteBits <- 2, LengthBits <- 3, Languages <- { 0, 1 }, MaxString <- 4, MaxFrequency <- 2
Blocks == INSTANCE DataBlockEncryptor WITH buffer <- rep, plain <- model,
    BlockSize <- 8, Lengths <- { 1, 2, 3, 9, 10, 11, 18 }, Contents <- { 0, 1, 255 }
Split == INSTANCE SplitPackets WITH layer <- rep, sent <- model, MTUSize <- 59, IdRange <- 2,
    Reliabilities <- { "UNRELIABLE_SEQUENCED", "RELIABLE", "RELIABLE_ORDERED" },
    BitLengths <- { 8, 217 }, MaxMessages <- 3
Big == INSTANCE BigTypes WITH big <- rep, operands <- model, WordBits <- 2, Words <- 2
Keys == INSTANCE RSACrypt WITH rsa <- rep, plain <- model, BitCount <- 12, FirstExponent <- 257,
    Primes <- { 5, 11, 17, 23, 31, 47, 53, 59, 61 },
    PlainTexts <- { 0, 1, 2, 5, 10, 11, 22, 54, 77, 100, 500, 1000, 2772, 3232 },
    Candidates <- { 5, 11, 17, 23, 25, 55, 85, 115, 121, 125, 155, 187, 205, 253, 275, 289, 341 }

Stream == INSTANCE ByteQueue WITH queue <- rep, bytes <- model,
    Contents <- { 0, 1 }, Fresh <- 0, LeastAllocation <- 3, MaxLength <- 2, MaxAllocation <- 9
Hosts == INSTANCE AddressList WITH systemList <- rep, systems <- model,
    Systems <- { 1, 2, 3 }, SizeRange <- 4, MaxSize <- 4
Named == INSTANCE NetworkIds WITH registry <- rep, past <- model, Objects <- { 1, 2 }, LastId <- 3
Rpc == INSTANCE RPCMap WITH rpcMap <- rep, registered <- model,
    Procedures <- { 1, 2 }, UNDEFINED_RPC_INDEX <- 3, MaxSize <- 6, MaxRemovals <- 2
Sender == INSTANCE Datagrams WITH sending <- rep, left <- model, Threads <- { "network", "user" },
    ByteSize <- 16, Mask <- 10, Salt <- 12, Table <- [ b \in 1 .. 16 |-> (5 * b + 2) % 16 ],
    Plain <- { << 1 >>, << 3, 14 >>, << 8, 8, 5 >> }, Ports <- { 7, 9 }, MaxSends <- 2

Remote == INSTANCE RemoteSystems WITH peer <- rep, user <- model,
    Ids <- { 1, 2 }, MaxPeers <- 2, maximumIncomingConnections <- 1, MaxRequests <- 1, MaxCommands <- 1
Ban == INSTANCE BanList WITH banList <- rep, banned <- model,
    Bans <- { << 1, 2 >>, << 1, 9 >> }, Addresses <- { << 1, 2 >>, << 1, 1, 2 >>, << 1 >> },
    Wildcard <- 9, Terms <- { 0, 1 }, MaxTime <- 2
Ping == INSTANCE PingTimes WITH system <- rep, pongs <- model, PING_TIMES_ARRAY_SIZE <- 3,
    NoPing <- 65535, Spike <- 7, SendTimes <- { 0, 2, 5 }, Times <- { 3, 6, 9 }
\* One number is enough: the keys of two requests differ by their cookies.
Secured == INSTANCE SecuredConnection WITH link <- rep, past <- model,
    Randoms <- { 1 }, MaxCookie <- 3, MaxRequests <- 2
Call == INSTANCE RemoteCalls WITH peer <- rep, past <- model, Ids <- { 1, 2 },
    Threads <- { 0, 1, 2 }, Targets <- { << 1, FALSE >>, << 1, TRUE >> },
    MaxCalls <- 2, MaxEvents <- 1

\* Calls as they are written: all procedures and data with no, a short and a
\* long time.
Written == INSTANCE CallMessage WITH message <- rep, call <- model,
    StackBytes <- 8, Fresh <- 1, MaxUniqueID <- 256, Differentials <- { 0, 7 },
    Calls <- [ uniqueID : { 5, 255, 256, 257 }, stamp : { << >>, << 10 >>, << 70000 >> },
               data : { << >>, << 1 >>, << 0 >>, << 1, 0, 1, 1, 0, 0, 1, 0 >>, [ i \in 1 .. 9 |-> 1 ],
                        [ i \in 1 .. 80 |-> i % 2 ] } ]

\* Acknowledgements of one number, of ranges and of more than fit; messages of
\* every reliability and of lengths about a byte's and the datagram's end.
Between(a, b) == [ minIndex |-> a, maxIndex |-> b ]
EightBits(n) == [ i \in 1 .. 8 |-> (n \div (2 ^ (8 - i))) % 2 ]
Message(number, reliability, channel, index, split, bits, data) ==
    [ messageNumber |-> number, reliability |-> reliability, orderingChannel |-> channel,
      orderingIndex |-> index, splitPacketId |-> split[1], splitPacketIndex |-> split[2],
      splitPacketCount |-> split[3], dataBitLength |-> bits, data |-> data ]
Whole == << 0, 0, 0 >>
Frame == INSTANCE MessageFrame WITH datagram <- rep, contents <- model,
    MTUBits <- 336, MaximumMTUSize <- 1492, EncryptorBits <- 128, StackBytes <- 8, Fresh <- 1,
    AckLists <- { << Between(7, 7) >>, << Between(3, 5), Between(9, 9), Between(300, 400) >>,
                  [ i \in 1 .. 11 |-> Between(4 * i, 4 * i + 1) ] },
    Messages <- {
        Message(1, 6, 0, 0, Whole, 3, << EightBits(5) >>),
        Message(65535, 9, 31, 300, Whole, 9, << EightBits(1), EightBits(128) >>),
        Message(258, 8, 0, 0, << 7, 2, 3 >>, 8, << EightBits(255) >>),
        Message(9, 7, 1, 2, Whole, 78, [ i \in 1 .. 10 |-> EightBits(85) ]),
        Message(2, 10, 1, 2, Whole, 262, [ i \in 1 .. 33 |-> EightBits(85) ]) }

\* Players whose static data is relayed, of whom one changes its own, or one comes
\* back; and players who are told of pings, or of seeds.
Games == { "change", "return", "pings", "seeds" }
Played(game) == INSTANCE Players WITH server <- rep, clients <- more, past <- model,
    Clients <- { 1, 2 }, Slots <- 2, PingPeriod <- 1, SeedPeriod <- 1,
    Settings <- { [ pings |-> game = "pings", seeds |-> game = "seeds", relay |-> game \in { "change", "return" } ] },
    MaxArrivals <- IF game = "return" THEN 3 ELSE 2, MaxData <- IF game = "change" THEN 2 ELSE 1,
    MaxTime <- IF game = "seeds" THEN 2 ELSE 1

\* What the modules assume of their constants.
ASSUME InstancesAreSound ==
    Named!IdAssumption /\ Rpc!IndexAssumption /\ Sender!TableAssumption /\ Call!CallAssumption

HeapName(max) == IF max THEN "maxheap" ELSE "minheap"
BitsName(fresh) == IF fresh = 1 THEN "ones" ELSE "zeros"

InitialStructure ==
    \/ subject = "numbers" /\ Numbers!Init
    \/ subject = "array"   /\ Array!Init
    \/ subject = "fifo"    /\ Fifo!Init
    \/ subject = "links"   /\ Links!Init
    \/ subject = "map"     /\ Map!Init
    \/ \E max \in BOOLEAN : subject = HeapName(max) /\ Weighed(max)!Init
    \/ subject = "avl"     /\ Avl!Init
    \/ subject \in { "tree", "tall" } /\ Tree!Init
    \/ \E fresh \in { 0, 1 } : subject = BitsName(fresh) /\ Bits(fresh)!Init
    \/ subject = "coding"  /\ Coding!Init
    \/ subject = "blocks"  /\ Blocks!Init
    \/ subject = "split"   /\ Split!Init
    \/ subject = "big"     /\ Big!Init
    \/ subject = "keys"    /\ Keys!Init
    \/ subject = "bytes" /\ Stream!Init
    \/ subject = "addresses" /\ Hosts!Init
    \/ subject = "objects" /\ Named!Init
    \/ subject = "procedures" /\ Rpc!Init
    \/ subject = "sent" /\ Sender!Init
    \/ subject = "systems" /\ Remote!Init
    \/ subject = "bans" /\ Ban!Init
    \/ subject = "ring" /\ Ping!Init
    \/ subject = "secured" /\ Secured!Init
    \/ subject = "calls" /\ Call!Init
    \/ subject = "written" /\ Written!Init
    \/ subject = "frame" /\ Frame!Init

Init ==
    \/ more = [ phase |-> "insert", stride |-> 0, taken |-> 0 ] /\ InitialStructure
    \/ \E game \in Games : subject = game /\ Played(game)!Init

\* The tree is checked with every order of insertions, deletions and clears of
\* eight keys; the tall one with 23, inserted by one stride and deleted by
\* another: trees of three levels, that split and merge on both sides.
Nth(stride, i) == ((stride * i) % 23) + 1
After(stride) ==
    IF more.taken < 22 THEN [ more EXCEPT !.stride = stride, !.taken = @ + 1 ]
    ELSE [ phase |-> IF more.phase = "insert" THEN "delete" ELSE "done", stride |-> 0, taken |-> 0 ]
Strides ==
    CASE more.phase = "done" -> {}
      [] more.taken > 0 -> { more.stride }
      [] OTHER -> 1 .. 22
Turns ==
    IF subject = "tree" THEN { << key, more >> : key \in 1 .. 8 }
    ELSE { << Nth(stride, more.taken), After(stride) >> : stride \in Strides }

TreeStep ==
    \/ subject = "tree" /\ Tree!Clear /\ UNCHANGED more
    \/ \E turn \in Turns : (Tree!Insert(turn[1]) \/ Tree!Delete(turn[1])) /\ more' = turn[2]

Next ==
    \/ subject = "numbers" /\ Numbers!Next /\ UNCHANGED << subject, more >>
    \/ subject = "array"   /\ Array!Next /\ UNCHANGED << subject, more >>
    \/ subject = "fifo"    /\ Fifo!Next /\ UNCHANGED << subject, more >>
    \/ subject = "links"   /\ Links!Next /\ UNCHANGED << subject, more >>
    \/ subject = "map"     /\ Map!Next /\ UNCHANGED << subject, more >>
    \/ \E max \in BOOLEAN : subject = HeapName(max) /\ Weighed(max)!Next /\ UNCHANGED << subject, more >>
    \/ subject = "avl"     /\ Avl!Next /\ UNCHANGED << subject, more >>
    \/ subject \in { "tree", "tall" } /\ TreeStep /\ UNCHANGED subject
    \/ \E fresh \in { 0, 1 } : subject = BitsName(fresh) /\ Bits(fresh)!Next /\ UNCHANGED << subject, more >>
    \/ subject = "coding"  /\ Coding!Next /\ UNCHANGED << subject, more >>
    \/ subject = "blocks"  /\ Blocks!Next /\ UNCHANGED << subject, more >>
    \/ subject = "split"   /\ Split!Next /\ UNCHANGED << subject, more >>
    \/ subject = "big"     /\ Big!Next /\ UNCHANGED << subject, more >>
    \/ subject = "keys"    /\ Keys!Next /\ UNCHANGED << subject, more >>
    \/ subject = "bytes" /\ Stream!Next /\ UNCHANGED << subject, more >>
    \/ subject = "addresses" /\ Hosts!Next /\ UNCHANGED << subject, more >>
    \/ subject = "objects" /\ Named!Next /\ UNCHANGED << subject, more >>
    \/ subject = "procedures" /\ Rpc!Next /\ UNCHANGED << subject, more >>
    \/ subject = "sent" /\ Sender!Next /\ UNCHANGED << subject, more >>
    \/ subject = "systems" /\ Remote!Next /\ UNCHANGED << subject, more >>
    \/ subject = "bans" /\ Ban!Next /\ UNCHANGED << subject, more >>
    \/ subject = "ring" /\ Ping!Next /\ UNCHANGED << subject, more >>
    \/ subject = "secured" /\ Secured!Next /\ UNCHANGED << subject, more >>
    \/ subject = "calls" /\ Call!Next /\ UNCHANGED << subject, more >>
    \/ subject = "written" /\ Written!Next /\ UNCHANGED << subject, more >>
    \/ subject = "frame" /\ Frame!Next /\ UNCHANGED << subject, more >>
    \/ \E game \in Games : subject = game /\ Played(game)!Next /\ UNCHANGED subject

Spec == Init /\ [][Next]_vars

-----------------------------------------------------------------------------
\* What a caller asks of a structure is what it would get from the sequence,
\* the set, the bag, the map or the number it stands for, in every order of calls.
Faithful ==
    /\ subject = "numbers" => Numbers!Faithful
    /\ subject = "array" => Array!Faithful
    /\ subject = "fifo" => Fifo!Faithful
    /\ subject = "links" => Links!Faithful
    /\ subject = "map" => Map!Faithful
    /\ \A max \in BOOLEAN : subject = HeapName(max) => Weighed(max)!Faithful
    /\ subject = "avl" => Avl!Faithful
    /\ subject \in { "tree", "tall" } => Tree!Faithful
    /\ subject = "split" => Split!Faithful
    /\ subject = "big" => Big!Faithful
    /\ subject = "keys" => Keys!Faithful
    /\ subject = "bytes" => Stream!Faithful
    /\ subject = "addresses" => Hosts!Faithful
    /\ subject = "objects" => Named!Faithful
    /\ subject = "procedures" => Rpc!Faithful
    /\ subject = "systems" => Remote!Faithful
    /\ subject = "bans" => Ban!Faithful
    /\ subject = "ring" => Ping!Faithful
    /\ subject = "secured" => Secured!Faithful
    /\ subject = "calls" => Call!Faithful
    /\ \A game \in Games : subject = game => Played(game)!Faithful

\* The representation keeps the shape its own searches, allocations and
\* rotations rely on: orders, balance, fill, links back, room allocated.
WellFormed ==
    /\ subject = "numbers" => Numbers!WellFormed
    /\ subject = "array" => Array!WellFormed
    /\ subject = "fifo" => Fifo!WellFormed
    /\ subject = "links" => Links!WellFormed
    /\ subject = "map" => Map!WellFormed
    /\ \A max \in BOOLEAN : subject = HeapName(max) => Weighed(max)!WellFormed
    /\ subject = "avl" => Avl!WellFormed
    /\ subject \in { "tree", "tall" } => Tree!WellFormed
    /\ \A fresh \in { 0, 1 } : subject = BitsName(fresh) => Bits(fresh)!WellFormed
    /\ subject = "coding" => Coding!WellFormed
    /\ subject = "blocks" => Blocks!WellFormed
    /\ subject = "split" => Split!WellFormed
    /\ subject = "keys" => Keys!WellFormed
    /\ subject = "bytes" => Stream!WellFormed
    /\ subject = "objects" => Named!WellFormed
    /\ subject = "procedures" => Rpc!WellFormed
    /\ subject = "sent" => Sender!WellFormed
    /\ subject = "systems" => Remote!WellFormed
    /\ subject = "bans" => Ban!WellFormed
    /\ subject = "ring" => Ping!WellFormed
    /\ subject = "secured" => Secured!WellFormed
    /\ subject = "calls" => Call!WellFormed
    /\ subject = "written" => Written!WellFormed
    /\ subject = "frame" => Frame!WellFormed
    /\ \A game \in Games : subject = game => Played(game)!WellFormed

\* What was encoded, encrypted or cut into parts is what comes out at the
\* other end, whatever was lost on the way.
RoundTrips ==
    /\ subject = "numbers" => Numbers!RoundTrips
    /\ \A fresh \in { 0, 1 } : subject = BitsName(fresh) => Bits(fresh)!RoundTrips
    /\ subject = "coding" => Coding!RoundTrips
    /\ subject = "blocks" => Blocks!RoundTrips
    /\ subject = "split" => Split!RoundTrips
    /\ subject = "keys" => Keys!RoundTrips
    /\ subject = "addresses" => Hosts!RoundTrips
    /\ subject = "sent" => Sender!RoundTrips
    /\ subject = "written" => Written!RoundTrips
    /\ subject = "frame" => Frame!RoundTrips

=============================================================================
