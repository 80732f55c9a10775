# connd, modelled in TLA+

connd keeps a SA-MP player's connection to a server alive while the game is
closed. When the game quits, a module loaded into it (`src/sa_module`) writes
the state of the session down and starts a daemon (`src/daemon`), which opens
the same UDP port, plays the handshake with the server to itself from recorded
answers, and goes on receiving and acknowledging. When the game starts again it
finds the daemon through a file, takes the session back, with the RPCs that came
in meanwhile, and goes on. The transport is RakNet 2.x (`src/RakNet`), part of
the repository and modified for this purpose.

The repository has no documentation of its own beyond the comments of its
source. What these modules call a promise of the code is quoted with its line.

| file | what it is |
|---|---|
| `Delivery.tla` | what one direction of a RakNet connection promises (abstract) |
| `ReliabilityLayer.tla` | the layer that implements it |
| `ReliabilityLayer_proofs.tla` | its proofs: the window, the streams, the refinement of `Delivery` |
| `Handover.tla` | the same, with an end that moves from process to process |
| `Handover_proofs.tla` | its proofs |
| `SplitPackets.tla` | messages cut into parts, on top of that promise |
| `MessageFrame.tla` | a datagram of it, bit by bit |
| `Connd.tla` | games, daemons, their files and loopback connections |
| `Connd_proofs.tla` | its proofs |
| `GameHandshake.tla` | how a started game joins the session: hooks, two threads |
| `GameHandshake_proofs.tla` | its proofs |
| `PacketFifo.tla` | a queue of messages (abstract): of the packets of a RakPeer, of the RPCs of a session |
| `PacketQueue.tla` | the lock-free ring that implements it, and its three threads |
| `PacketQueue_proofs.tla` | its proofs, the refinement of `PacketFifo` among them |
| `RakPeer.tla` | the peer inside the daemon, and the plugin's handshake |
| `RakPeer_proofs.tla` | its proofs |
| `RemoteSystems.tla`, `BanList.tla`, `PingTimes.tla`, `SecuredConnection.tla`, `RemoteCalls.tla`, `CallMessage.tla` | the rest of the peer, as the library it is |
| `SecuredConnection_proofs.tla` | proofs about one of them, the key exchange |
| `Players.tla` | a server and what its clients know of each other |
| `NetworkIds.tla`, `RPCMap.tla`, `AddressList.tla` | registries and lists |
| `Registries_proofs.tla` | proofs about two of them, `RemoteSystems` and `NetworkIds` |
| `RangeList.tla`, `OrderedList.tla`, `ArrayList.tla`, `ArrayQueue.tla`, `CircularLinkedList.tla`, `OrderedMap.tla`, `Heap.tla`, `AVLTree.tla`, `BPlusTree.tla`, `ByteQueue.tla` | RakNet's containers |
| `BitStream.tla`, `StringCoding.tla`, `DataBlockEncryptor.tla`, `Datagrams.tla`, `BigTypes.tla`, `RSACrypt.tla` | encodings, encryption, arithmetic |
| `MC*.tla`, `*.cfg` | instances for TLC (those of `Handover` are at its end) |

## Inventory

### Parts and state

* **Reliability layer** (`RakNet/src/ReliabilityLayer.cpp`). Sender: message
  number, ordering and sequencing write indexes, send queues by priority, resend
  queue and list, acknowledgement timer. Receiver: base index and window of what
  came past it, acknowledgements to send, read indexes and waiting messages of
  each ordering channel, output queue. Operations: `Send`, `Update`
  (`GenerateDatagram`: resends, new messages, acknowledgements),
  `HandleSocketReceiveFromConnectedPlayer`. Hard: loss, duplication and
  reordering; counters of 16 bits that wrap; holes given up after a time;
  acknowledging before the duplicate check. It is right when nothing is handed
  up twice, order is kept, what is acknowledged was accepted, and what is sent
  arrives or a side gives up.
* **Split packets** (same file). Sender: `splitPacketId`. Receiver: a channel of
  parts for each id. Right when what is put together is one message, and no
  channel is left behind.
* **Datagrams** (same file, `RangeList`, `sampencr.cpp`, `SocketLayer.cpp`). Headers
  whose fields depend on each other, an estimate of their length, a checksum and
  a byte table in a buffer all threads share. Right when the other side reads
  what was written, and nothing is longer than the path carries.
* **Peer** (`RakNet/src/RakPeer.cpp`, `RakClient.cpp`). The flags `endThreads`
  and `isMainLoopThreadActive`, the socket, the list of requested connections,
  the ban list, the remote systems, each with its reliability layer, connect mode
  and ping times, the buffered commands, the flag of a blocking call. A network
  thread runs `RunUpdateCycle`; user threads call `Connect`, `Receive`, `RPC`,
  `CloseConnection`, `Disconnect`. Hard: threads that start and end by two flags,
  requests retried on a timer, callbacks into a plugin from inside a send, both
  sides of a connection opening or closing it at once, keys turned on by each
  end by itself, a call whose reply another thread takes.
* **Packet queue** (`SingleProducerConsumer.h`). A ring of nodes, four pointers,
  a flag in each node, no lock; the network thread writes, one thread may read.
* **Server side** (`rakserver.cpp`, `RakClient.cpp`). Slots, static data, seeds and
  pings, relayed to clients that keep what they were told. connd links it without
  running a server. Right when clients agree on who is there.
* **Plugin** (`daemon/raknet_plugin.hpp`). The state of the emulated handshake
  and the queue of RPCs to give back. Called by the peer from inside its sends
  and receives.
* **Daemon** (`daemon/main.cpp`). A main thread (startup data, `Connect`, the
  loop that drains RPCs and watches the timeout), a daemon thread (listen, write
  the port file, accept, `Disconnect`, copy the indexes, send), RakNet's thread.
* **Game module** (`sa_module/dllmain.cpp`). Hooks in samp.dll: on connect, on
  each packet, on quit, on a crash; the state of restoring; `save_samp_state`,
  `start_subprocess`, `receive_startup_data`, `restore_samp_state`.
* **Loopback connections** (`ipc/`). A listening server of one client, a client,
  whole messages with a name.
* **Files.** `connd_samp_dump.json`: the saved state, and that a daemon should
  exist. `connd_port.json`: where the newest daemon listens.
* **Containers** (`RakNet/include/RakNet/DS_*.h`). Lists, queues, rings, maps, heaps
  and trees, each with the calls its header offers. Hard: the ends of arrays that
  wrap or grow, rotations, splits and merges. Right when each is the sequence,
  set, bag or map it stands for.
* **Encodings** (`BitStream`, `StringCompressor`, `StringTable`, `DataCompressor`,
  `DataBlockEncryptor`, `BigTypes.h`, `RSACrypt.h`). Right when what is written is
  read back, and arithmetic is arithmetic.
* **Registries** (`NetworkIDGenerator`, `RPCMap`, `SystemAddressList`). Right when what
  is registered is found, and only that.
* **State of the game** (`sa_module/*_state.hpp`): structures of samp.dll to JSON
  and back.
* **The rest of RakNet**: sockets, platform wrappers, and headers without an
  implementation.

### How they interact

    server ==UDP== [network thread: ReliabilityLayer in RakPeer] --packets--> main thread
                                      | plugin callbacks              | RPCs
                                      v                               v
                                 handshake, indexes               rpc_queue
    game --dump, parameters--> daemon          daemon --indexes, RPCs--> next game
                  (TCP on the loopback, addresses through connd_port.json)

The daemon's `Disconnect` runs on the daemon thread and stops the network thread
before the indexes are read; `stop` tells the main thread. A game and a daemon
never share memory: what one leaves to the other is the six values of
`raknet_state` (message number, base index, four arrays of ordering indexes), the
recorded handshake and the RPCs.

### What is hard, and what makes it right

`PROJECT.json` lists each hazard at its line. They fall in six groups:

1. *The transport itself*: loss, duplication, order, wrap-around.
2. *Handing a session on*: what the six values carry over and what they do not
   (the window past the base index, waiting ordered messages, the resend list).
3. *Processes*: two games, two daemons, two servers, and two files that name
   them; kills at any moment; the daemon's timeout racing a game's return.
4. *Threads in the daemon*: two flags, a queue without locks, three threads.
5. *A peer that joins a session it did not open*: the server goes on sending
   while the handshake is being played.
6. *Long sequences of legal calls* on the library below: a tree that is split and
   merged, a slot that is taken, answered and closed by both sides, a call whose
   reply comes late, a key that one end has already turned on.

## The modules and the code

**ReliabilityLayer.** A message is its position in the history of `Send`; the
code's 16-bit counters become numbers that do not wrap, and every comparison of
the code is made modulo `NumberRange`, so the model confuses what the code
confuses. `Send`, `Resend` and `Transmit` (the two halves of `GenerateDatagram`),
`SendAcks`, `ReceiveAck`, `Deliver` (all of the handler, from the duplicate check
to the release of waiting messages), `HolesRunOut`, `GiveUpConnection`, and the
network's `Lose` and `LoseAck`. The comment at `InternalPacket.h:33-40` asks the
application not to send so fast that numbers come round while in use: `SendLimit`
and `WindowLimit` state it, and `RateIsSafe` is how slow that has to be.
Abstracted: clocks (a resend may be due, a hole may expire, at any time),
coalescing, bandwidth, splitting, encryption, statistics.

**Delivery** is what remains when windows, numbers that wrap, acknowledgements, resends
and the network are forgotten: what `PacketPriority.h:32-39` tells the application. The
sender keeps a message (`kept`) until it lets it go (`Forget`), a reliable one only once it
has arrived or was given up; a message arrives once (`Arrive`), and is handed up as its
kind asks: an ordered one as soon as all before it on its channel were, together with
those it was waited for, a sequenced one if it is the newest. Three things the code does
that the comment there does not say are in it, each as narrow as it is true: the receiver
may stop waiting for a message (`skipped`); a channel that misses one for a whole round of
the indexes lets the order go (`broken`); and a sequenced message is taken for old if half
the range was missed before it (`Silence`). `ReliabilityLayer!ImplementsDelivery` maps the
queues, the lists and the window to these.

**Handover** extends `ReliabilityLayer`: at any moment the process of the sending or of the
receiving half is replaced by one with a fresh layer and the six values.

**Connd.** One game at a time, started again and again, and a set of daemons. The
game's actions follow `dllmain.cpp` from `samp_init_hook` to `save_samp_state`;
each daemon has `mainPc`, `threadPc` and `net` for its three threads. Steps are
cut at every blocking call and every access of a file, socket or variable that
another thread or process reads. Sessions are named by their port, and their
RPCs numbered; the transport below is the promise `ReliabilityLayer` makes (in
order, as often as the network likes, turned away under the base index).

**PacketQueue** takes the ring access by access: each test, each flag, each
pointer is a step of its own, with the steps of the other threads between. The
daemon's three threads use it as the code does, up to `Clear` and the freeing of
the pool. `readyToRead` of a new node is never initialized: the model chooses it.
The queue's own comments (lines 42-67) forbid a second reader; the daemon's
`Disconnect` can be one (`main.cpp:54` against `:125`). Such a state is called
`Misused`; the model stops there and claims nothing about what follows.
**PacketFifo** is what remains when everything inside is forgotten: packets are
added in order, returned in order, or freed. It is also what games and daemons together
make of a session (`Connd!SessionIsFifo`): the RPCs taken from the server, whichever
process holds them, are `pending`, those the game has handled are `returned`, those a
`Disconnect` loses `freed`. To the server and the game the processes in between are
nothing but one queue, as long as the session's indexes are carried over.

**RakPeer** is the peer with the plugin. `Connect` is cut into its calls
(`Disconnect`, `Initialize`, resolving, queueing the request), the update cycle
into its phases (receive until nothing is left, the request, the layer), and
`Disconnect` into the flag, the wait and the cleaning up. A request is answered
from inside its own sending, so the whole emulated handshake is one step of the
network thread (`Request`, `EmulateReply`). `handledWith` records with which
indexes datagrams of the session were handled; `events` what the user was told.
A ban lasts ten seconds and an attempt six, so one laid during the attempt
("late") outlives it, one laid before it ("early") need not. What comes in from
the server is `small`, `big` (over 512 bytes) or a `kick` (a disconnection
notification). Left out: RPC dispatch, pings, offline messages, statistics.

**GameHandshake.** The game that starts with a daemon waiting is made to play the
handshake to itself: its peer connects as ever, hooks (`SendToHook`,
`SendImmediateHook`, `SendHook`, `Passes` for `process_packet_hook`) swallow each
request, and `process_update`, once in a frame, emulates the recorded answer. `current_state` is written by both threads. The main thread's
steps are cut where `process_update` calls into the peer and where it writes
`current_state`: `EmulateCookie` and `CookieEmulated`, `EmulateReply`, `MainLooksUpRequest`
and `MainTakesRequest`, and so on to `RpcsRestored` and `IndexesRestored`. The network thread's are the phases of
`RunUpdateCycle`. Both read `requestedConnectionList`, a queue made for one reader: an
entry is free, or taken by one `ReadLock`. A game that has joined sends RPCs of its own
(`GameSends`): from inside `restore_samp_state`, where the replayed handlers
(`dllmain.cpp:429-434`), `local_player_state.hpp:155` and `netgame_state.hpp:186` answer, and when it
plays on. `SendHook` swallows a class selection and a spawn while the state is
`kCanEmulStaticData` (697-702) and nothing else; the rest waits in `commands` until the
network thread numbers it, with the layer there is by then (`SendCommand`). `mishap`
records what the properties make exceptions of: a reply that missed its request, a
frame of more than ten seconds, a connection lost because nothing is acknowledged, both
threads with one request, an exception and its fallback.

**Connd and GameHandshake** meet in `ConnectRestored` ... `Resume`: `Connd` has each phase
of the handshake as one step, `GameHandshake` shows what happens inside.

The modules that follow are each a state machine of their own: `MCStructures`
instantiates them side by side, one *subject* in a behaviour. In each, one
variable holds what the code keeps, another what a caller believes, or the
history; `Faithful` relates the two, `WellFormed` is what the code's own searches and
allocations rely on, `RoundTrips` says that what was written is read.

| module | what it models |
|---|---|
| `RangeList` | the acknowledgements as ranges in an `OrderedList`: insertion in any order, as many as fit written, and read back |
| `OrderedList` | the binary search and the insertion all ordered containers share |
| `ArrayList`, `ArrayQueue`, `ByteQueue` | arrays that grow by doubling; the queues wrap. A cell never written has no value, so a read of one is an error of the run |
| `CircularLinkedList` | nodes, links both ways, root and position; `LinkedList` and `QueueLinkedList` are its special cases |
| `OrderedMap` | an ordered list that believes its last search |
| `Heap` | sift up and down, of minimal and maximal heaps |
| `AVLTree` | both binary trees: insertion with rotations, deletion, the traversals, the copy |
| `BPlusTree` | pages, splits, rotations to either side, merges, the list of leaves |
| `BitStream` | bytes whose memory is not cleared, positions in bits, aligned, compressed and ranged writes and reads, streams cut short |
| `StringCoding` | Huffman trees built from frequencies, bit strings of bounded length, the table of strings, the compressor with its own tree |
| `DataBlockEncryptor` | padding, checksum, and blocks chained from the last to the first; the block cipher is a bijection that is undone |
| `Datagrams` | checksum, table and port in the one global buffer, by two threads, a byte a step, in every order of their steps |
| `SplitPackets` | parts lost, repeated and reordered; ids that wrap to those of messages still being put together; channels that are dropped after a time |
| `MessageFrame` | acknowledgement ranges and message headers written to a `BitStream` under the length estimate, read back whole or cut anywhere |
| `BigTypes` | each word-by-word operation against the numbers it stands for, over every operand |
| `RSACrypt` | key generation, Montgomery products, encryption by both sides, the primality rounds |
| `RemoteSystems` | `remoteSystemList` in all connect modes: requests of both sides, passwords, limits, notifications, losses and timeouts, with the user's commands in between |
| `BanList` | bans with wildcards and terms, expiry met by the next question, appends by two threads |
| `PingTimes` | the ring of round trips and clock differentials, its averages and spike rule |
| `SecuredConnection` | any number of requests, each answered, confirmed and accepted on its own; cookies, public key, random numbers, and the moment at which each end turns its key on |
| `RemoteCalls` | blocking and other calls by several threads of the user, the flag and the fields it guards a step each, replies, lost connections, the thread that receives and the network thread |
| `CallMessage` | a call written, its time shifted, and read |
| `Players` | the server's broadcasts and the clients' tables under reordering |
| `NetworkIds` | ids given, taken, restored and destroyed against the tree |
| `RPCMap` | the registered procedures, and the indexes another system announced |
| `AddressList` | addresses added, drawn, removed, written and read |

A structure is used by its callers only through its calls, and what a module
leaves out of them is named in its header. Where the code has a defect, the model
has it, and the property names exactly what remains true (see *Met while
modelling*).

## What the runs check

| run | bounds | shows |
|---|---|---|
| `rl_wrap` | 7 numbers, 8 messages, rate 3 (sequenced ones 2), window 3, 2 in flight, a stream that is ordered, reliable sequenced or unreliable sequenced, or 4 messages of no stream | `AckedIsAccepted`, `OutputOnce`, `OrderedInOrder`, `ImplementsDelivery`, with numbers and indexes once round |
| `rl_live` | 3 messages of two kinds and priorities | `ReliableArrives`, `OrderedArrives`, `ResendsEnd` over a link that is fair; over any link, and one that loses everything from some time on, `LossIsNoticed` |
| `handover` | 8 numbers, three streams, 3 messages, 1 handover of either half | `OrderedUntilWrap`, `SequencedForward`, and that what is repeated lay past the base index handed over (`RepeatsAfterHandover`) |
| `ho_stall` | 2 messages, 1 handover | **violated**: an acknowledged ordered message is lost |
| `connd_servers` | 2 servers, 2 daemons, 2 sessions of 2 RPCs | `DumpHasDaemon`, `StateFitsSession`, `Accounted`, `SessionIsFifo` |
| `connd_slow` | 1 server, 2 daemons, 2 sessions of 1 RPC, 1 kill, slow start | `OneSpeaker`, `HandledInOrder` |
| `connd_live` | 1 session, 2 daemons | `DaemonEnds`, `GameIsAnswered` |
| `queue` | 4 packets, ring of 3 | `AssertionsHold`, `ImplementsFifo`, `EveryPacketEnds`, `DisconnectReturns` |
| `rakpeer` | 6 requests, 2 datagrams at the socket | `CleansUpAlone`, `SessionMeetsItsIndexes`, `SessionIsHandedOver`, `OneOutcome`, `ConnectEnds`, `GameGetsIndexes` |
| `rakpeer_ban` | the same | **violated**: the session's server is banned |
| `handshake` | 3 requests, a server that answers with a cookie, a reply or a refusal, 1 datagram at the socket | `HandshakeStaysHere`, `RestoredIsConnected`, `SessionWaitsForIndexes`, `HandshakeEnds` |
| `structures` | below | `Faithful`, `WellFormed`, `RoundTrips` of 31 subjects |

`connd_servers`, `queue`, `rakpeer` and `handshake` also check `TypeOK`.

### Why the bounds are enough

* *Numbers.* The window tests compare distances with half the range; 7 numbers
  have both sides of every comparison, and the traffic goes round. With 7 and a rate of
  3 a receiver can give up an ordered message and the sender go once round since, which
  is the one state in which a channel's order goes (`Overtaken`): TLC reaches it, the
  messages handed up past it, and a sequenced message that is dropped although it is the
  newest. The proofs lift `AckedIsAccepted`, `OutputOnce`, `OrderedInOrder`,
  `SequencedForward` and `ImplementsDelivery` to every range. They also say what the rates
  are: the window needs `SendLimit` and `WindowLimit` at half the range or less
  (`RateIsSafe`), the sequenced streams one less (`SequencedRateIsSafe`), and no bound above
  it would do: at a range of 5 and a rate of 2 TLC finds a stream that goes back.
* *Flight.* Two datagrams, messages or acknowledgements, at a time: either can
  overtake, outlive or repeat the other.
* *Messages.* Two messages make every order, three a gap and its filling.
* *Daemons and servers.* Two of each: the file that names the other's is there.
* *Packets.* Four go once round a ring of three, and make it grow.
* *Datagrams.* Two at the socket, so that one can be handled and another wait;
  the run goes on receiving, so the number handled is not bounded.
* *Kills and slow starts.* `connd_servers` has neither, since they break two of
  its properties, and rightly so: a game killed without its handler leaves a dump
  without a daemon, and one that starts before the new daemon has published its
  port finds the old one's. `connd_slow` checks what holds even then.
* *Requests of the game.* Three are the first, the second and one that is due
  again while its answer is emulated.
* *What the game sends.* One RPC that `send_hook` looks for (`Spawn`; a class
  selection is treated like it) and one it does not (`OwnRpcs`), of which one is with
  the network thread at a time (`MaxCommands`); how many leave is not bounded.
* *Structures.* A bound is chosen so that every branch of the code is taken, and
  TLC's coverage shows that it is. Arrays grow twice and shrink (`MaxSize`); the AVL
  tree has all orders of insertion and deletion of 6 items, which is every case of
  its rotations; the B+ tree, of order 4, all orders of 8 keys, and 23 keys by each
  stride of insertion and of deletion, which makes three levels that split and
  merge on both sides. Bit streams take two writes of any kind at any offset into
  memory of zeros and of ones. Frames are filled to the limit of a small datagram
  by acknowledgements, by messages, and by both. Split messages have two parts and
  ids that wrap at two: three messages, so that an id comes round to the parts of the
  first while the second goes, whole or split, of any mix of a sequenced, a reliable and
  an ordered one. Long numbers are two words of two bits, over all pairs of
  operands. RSA has 12 bits, primes of every residue its rounds tell apart.
  Remote systems: two, of which one slot is for those that come in. Players: two,
  in four games (data that changes, a player that returns, pings, seeds). The key
  exchange: two requests, and cookies made of three numbers, one more than are accepted;
  one random number, since the keys of two requests differ by their cookies. Blocking
  calls: two, by any of three threads, one of which receives; to a system and to all
  others, so that what an earlier call left in the fields matches one and not the other.
  Of the two threads that do not receive the first that is idle calls, since they are
  alike. Objects with ids: two, the theorem being for any number.

The runs switch deadlock checking off: a session whose traffic is over, a
daemon that has ended, a peer that has been given up and a structure at its bound
really stop.

### Fairness

* `ReliabilityLayer`: either network thread keeps calling `Update`, so resends, new
  messages and acknowledgements are weakly fair, and that is all the specification
  assumes. Nothing forces holes to expire, connections to be given up, or anything to
  be sent. What else a property needs is its premise. `LinkIsFair`: a datagram sent again
  and again is not lost for ever (strong fairness of `Deliver` and `ReceiveAck`), without
  which nothing arrives. `LossIsNoticed` does without it: it needs that the timer, once
  it is not stopped any more, runs out (weak fairness of `GiveUpConnection`, which is
  enabled while `ackTimerRuns`); in the run it is not stopped for ever, as each of the
  finitely many messages is acknowledged at most once.
* `Connd`: each thread of a daemon keeps running, `Connect` is retried until it
  succeeds, time passes (strong fairness of `Expire`, which is enabled in each
  turn of the loop only for a moment). The user owes nothing.
* `PacketQueue`: the threads keep running; no game needs to come.
* `RakPeer`: the threads keep running, and a request that keeps being due is made:
  the cycle always reaches that phase when the receive loop ends, and the clock
  goes on. `ConnectEnds` says what it needs: that the loop ends again and again.
* `GameHandshake`: frames go on and the game reads its packets; the network thread
  runs; the game connects at last, which it does from a frame, and a request that
  is due again and again is made or given up (strong fairness of both: each is
  possible only between other steps of its thread). The game need not send anything.

### Disagreements found

* **A channel that stalls** (`ho_stall`). Ordered messages that wait in
  `orderingList` were acknowledged but are not handed over
  (`raknet_plugin.hpp:99`): the channel waits for them for good, against
  `PacketPriority.h:38`.
* **A server banned by its own client** (`rakpeer_ban`). `RakPeer.cpp:3798` bans
  unknown senders of more than 512 bytes: "Unknown systems should never send more
  than a small amount of data." The server of the session does, as the daemon's
  peer does not know it before the handshake is played. The ban outlives the
  attempt, the attempt fails, nothing tries again, and the game is later handed
  indexes of zero.

### Met while modelling

The models do what the code does here, and the properties say what is left. Paths
are under `src/`, RakNet's under `src/RakNet/src` and `src/RakNet/include/RakNet`.

*Session and processes*

* The base index is handed over, the window past it is not
  (`raknet_plugin.hpp:109`): a reliable message that came early is handled by the
  game, and again by the daemon when the server resends it. `RepeatsAfterHandover`
  says exactly when. Parts of split messages and `splitPacketId` stay behind too.
* Order survives a handover only until the ordering indexes of the channel come
  round: the acknowledgements owed die with the old process, so the server resends
  a message handed up before; its index is under the read index, it is stored
  (`ReliabilityLayer.cpp:724-730`), and released when the read index comes by again
  (701-708). `OrderedUntilWrap` says this; without the exception it fails.
* `dllmain.cpp:444` ends the state of restoring before the indexes are restored:
  an RPC in between is handled against fresh indexes (`spoiled` in `Connd`, and
  `SessionWaitsForIndexes`).
* A daemon waits in `send_rpcs` for ever when its game dies before asking
  (`Abandoned`); a game in `recv_raw_data` spins when its daemon dies.
* A daemon that loses the connection, or is kicked, hands zeros over
  (`SessionIsHandedOver` says so exactly).

*The transport*

* A receiver that gives up a missing ordered message goes on waiting for its index.
  When the sender has gone once round the 16-bit indexes, the message that has the
  same index is taken for it (`ReliabilityLayer.cpp:666` compares 16 bits), and the
  channel goes on with a gap of 65536. `OrderedInOrder` excepts a channel in that
  state (`Overtaken`); TLC finds the gap with 7 numbers and a rate of 3.
* A receiver that missed half the range of a sequenced stream drops the newest message of
  it, and all until the indexes come round, as older (2056-2068): `Silence` in `Delivery`.

*The game's handshake*

* The peer answers the emulated cookie from inside the call, with a second
  request, while the state is still `kCanEmulCookie`: it leaves for the server
  (`dllmain.cpp:466`).
* An emulated reply that finds the request in the network thread's `ReadLock`, or
  the attempt given up, is lost; the game stays in `kWaitingForThirdRequest` for
  good (`dllmain.cpp:472`; the exception of `HandshakeEnds`).
* Between the emulated acceptance and the restored indexes the peer pings with
  fresh message numbers (`RakPeer.cpp:2567`); the server ignores them only if its
  base index is in the lower half of its range. So do the keep-alive, if the frame is
  long, and every RPC that a replayed handler sends and `send_hook` does not look for:
  reliable messages that the server drops as duplicates, or counts as holes.
  `HandshakeStaysHere` says from which state on each of them may leave, and that a class
  selection and a spawn do not. One of those that waits in the peer's queue when the
  indexes are restored has a number of the session.
* A frame of more than ten seconds, or an exception, undoes everything.

*The peer as a library*

* The limit of incoming connections is looked at when a system asks, not when it
  is connected (`RakPeer.cpp:2920`). A reply for a system that is connected takes it
  back to `REQUESTED_CONNECTION` (3569), and it dies after ten seconds. A late
  request revives a slot that is being closed. A reply that finds the list full
  drops the request without an outcome. Broadcasts reach systems not verified
  (3115). `NotifyAndFlagForDisconnect` follows a pointer that may be null (2507).
* Two threads can ban an address twice (1323-1348); a wildcard in the middle of a
  ban matches all that follows it. `GetLastPing` returns 65535 for "-1" (1585).
* A secured system turns its key on when a datagram's length is a multiple of 8
  (3748), the comment says 16 (2478): a request sent in the clear again may turn it
  on too early. One lost message ends the attempt, though "Connection requests
  are resent periodically" (2811). The server writes 9 bytes of
  `ID_CONNECTION_REQUEST_ACCEPTED` (2465), the client asks for 13 (4449).
* A secured client with two requests in its list (3551-3598), or with a reply that came
  twice, asks twice; the server takes a request in every mode but `CONNECTED` (4224), so
  each is answered, and for each answer the client draws a number and overwrites
  `AESKey` (2898). The server turns on the key of the confirmation it accepted last, the
  client the key it drew last: when they are not the same, neither reads the other and
  both wait for their end. When both confirmations arrive, the second acceptance finds
  a client that is `CONNECTED`, which then disconnects (4449-4562); and a second request
  takes a server that waits for the key back to `HANDLING_CONNECTION_REQUEST`, where it
  does not turn it on before another confirmation. With three requests TLC finds two connected ends with
  different keys.
* A blocking call waits for a reply only `Receive` can take (1225); a reply that
  comes between the send and the flag (1188-1203) is dropped; one that comes after the
  flag and before the fields (1203-1210) is written where the last call wanted its
  own, if to a stream that is gone, or through a pointer nobody has set; a second thread
  may look at the flag (1105) before the first has set it, and each then clears the
  flag of the other (1234); a caller that returns for a lost connection leaves it set
  (1231). `Faithful` and `WellFormed` name these windows (`asking`, `overlap`, `givenUp`) and
  say that nothing else goes wrong. RPC 256 passes the test (`> 256`) and is sent
  as 0. Nothing in `src` sends `ID_RPC_REPLY`.
* A new player advances the server's seed, and only he is told
  (`rakserver.cpp:159-197`; `RakServer.h:173` says "synchronized among all
  clients"). A departure can overtake data and leave a ghost.
* `Ping` and `AdvertiseSystem` share the encoder's one buffer with the network
  thread (`sampencr.cpp:104`): a datagram of which a byte was written over leaves as a
  mixture. `RoundTrips` is about every other, whatever the threads do around it.
* Acknowledgements are limited by the MTU without the encryptor's room
  (`ReliabilityLayer.cpp:1289` against 1271). A `splitPacketId` that wraps meets
  the parts of an older message (2183: "It's ok if this wraps to 0"), and the channel
  puts the two together: those of an unreliable message stay until it is swept, those
  of a reliable sequenced one that was overtaken stay for ever. `SplitPackets` does not
  keep an id from coming round: `Undisturbed` names the messages whose id met another's,
  and `Faithful`, `RoundTrips` and `WellFormed` say what holds of those too (no part goes
  up twice, as many parts as the first says, in the order of their indexes, one channel
  for an id), and that all else is as sent.

*Containers and encodings*

* `RangeList`: a number inserted inside, or just after, a range that is not the last
  makes ranges that overlap (`DS_RangeList.h:157-163`).
* `Queue::PushAtHead` past the head does not wrap (115-166); copies of an empty `List`
  or `Queue` leave members unset. `CircularLinkedList::Concatenate` into an empty list
  adds each element twice. `Map::SetNew` of a key that is there remembers index -1.
* `BinarySearchTree::Del` of any item empties a tree of one; the AVL tree is not
  balanced by deletions. `BPlusTree::Insert` of a key that is there can add it again.
* `ByteQueue` counts one byte less when it wraps, and loses the last when it then
  grows. `SystemAddressList::RemoveSystem` drops from the end.
* `NetworkIDGenerator`: an object robbed of its id removes the new owner's entry.
  `RPCMap::AddIdentifierWithFunction` is never found by its own lookup (62).
* `BitStream`: `Read(PlayerID)` checks only its last part; `WriteBits` aligned to the
  left with a tail that is not zero corrupts the next write. `StringTable` takes
  index 0 for failure (72). `StringCompressor` cuts lengths to 16 bits (382).
* `BigTypes.h`: the signed comparison of two negative numbers is reversed (387, 402)
  and the signed shift loses the sign (560). `RSACrypt.h`: the Montgomery product
  loses a carry; the primality test uses every other small prime (959).

## What is proved

Everything in the `_proofs` modules is checked by TLAPS, for all values of the
constants that satisfy the named assumptions. The safety properties that the runs
check of the systems (all but those of the structures) are theorems, without a condition
beyond the module's own `ASSUME` but for these:

| theorems | condition | what it asks |
|---|---|---|
| `InvariantHolds`, `AckedIsAcceptedHolds`, `OutputOnceHolds`, `OrderedInOrderHolds`, `StoredAreNewerHolds`, `RepeatsAfterHandoverHolds`, `OrderedUntilWrapHolds`, `OrderedAcrossNewSenders` | `RateIsSafe` | that numbers in use span less than half the range, which `InternalPacket.h:33-40` asks of the application |
| `SequencedForwardHolds`, `SequencedForwardAcrossHandovers`, `ImplementsDeliveryHolds` | `RateIsSafe`, `SequencedRateIsSafe` | that they span one less |
| `DumpHasDaemonHolds`, `StateFitsSessionHolds` | `Kills = 0`, `SlowStart = FALSE` | that no process is killed without its handlers, and that a game is not started before the last one's daemon has written its port |

**ReliabilityLayer_proofs** (assumption `ConstantsAssumption`):

* `TypeCorrect`: `Spec => []TypeOK`.
* `InvariantHolds`: if `RateIsSafe`, then `Spec => []IInv`; from it
  `AckedIsAcceptedHolds` and `OutputOnceHolds`.
* `TimerHolds`: the timer runs while an acknowledgement is owed, at any rate. It is the
  part of `LossIsNoticed` that does not rest on fairness.

Neither `OutputOnce` nor `AckedIsAccepted` is inductive. That a message is not
taken twice depends on the window remembering exactly what was accepted
(`WindowIsExact`), which depends on every number that may still arrive being
less than half a range away from the base index (`InUseIsRecent`), where the
comparison modulo the range agrees with the true one; that is what `RateIsSafe`
buys. Acknowledgements are true (`AcksAreTrue`) because an old message under the
base index was accepted or given up. `HeldOnce` ties the ordering lists and the
output to what was accepted. `IInv` is their conjunction, and the proof takes it
through each action, conjunct by conjunct where the action disturbs it.

*The streams.* `OrderedInOrderHolds`, `SequencedForwardHolds`, and `StoredAreNewerHolds`, the
assertion that is commented out at `ReliabilityLayer.cpp:726`, with the exception
`Overtaken`. `StreamsInv` goes beside `IInv`. `IndexesFollowSend` says that the indexes of a
channel are the ranks of its messages in the order of `Send`, so that two of them with
the same 16 bits are a whole range apart. `OrderedStream` says that everything under the
read index was handed up in that order, `StoredIsNewer` that what is stored lies past it,
both unless the channel is `Overtaken`. They are not inductive by themselves: an ordered
message that comes with an index under the read index would be stored, too. That it does
not come is `OutputOnce`, which is why the proof rests on `IInv`. `SequencedInv` says that what
was handed up of a sequenced stream lies under the read index and rises; the step that
hands up needs the distance of every message in use from the read index, in both
directions, which `SequencedRateIsSafe` bounds.

*The promise.* `ImplementsDeliveryHolds`: every behaviour is one of `Delivery`. The proof adds
`PlacesInv` to the invariants above, the part that says where a message must be, and not
only where it may be: an ordered message that was accepted is handed up or stored
(`AcceptedIsPlaced`), a read index of a sequenced stream stands behind a message that was
handed up (`ReadFollows`), and what was given up lies under the window and was not accepted
(`GivenUpIsMissing`). `Send` is `Submit`; the new message is the next of its stream by
`IndexesFollowSend`, and a channel it breaks misses a message far under the window, given up
by `WindowIsExact`. `Deliver` of a message that is no duplicate is `Arrive`, of a duplicate a
stutter. That no stored message could go up, too, is `StoredIsNewer`: the one with the
read index is missing (`NoneReady`). That a sequenced message is not dropped without one of
the two reasons is arithmetic modulo the range (`OlderIsSeen`, `OlderIsFar`). Every other
action is a `Forget` or a stutter by `AckedIsAccepted`.

**Handover_proofs** (assumptions of both modules): `HandoverTypeCorrect`,
`RepeatsAfterHandoverHolds`, `OrderedUntilWrapHolds`, `SequencedForwardAcrossHandovers`,
`OrderedAcrossNewSenders`, for any number of handovers. `IInv` does not survive a new
receiver, whose window is empty: what was accepted past the base index is accepted
again. `HInv` keeps what does survive. `WindowOK` asks the window only to be true of
what this process took; `HandedUpOnce` counts from the last handover (`Since`); and the
streams keep theirs until the indexes wrap (`OrderedUntil`), because the read indexes are
among the six values. `OrderedAcrossNewSenders` is for a connection whose receiving half
stays: then all of `StreamsInv` does.

**RakPeer_proofs** (assumption `PeerAssumption`): `TypeCorrect`, `CleansUpAloneHolds`,
`SessionMeetsItsIndexesHolds`, `SessionIsHandedOverHolds`, `OneOutcomeHolds`, for any
number of requests and of datagrams. The invariant has two parts beside the
properties. `ThreadsInv` relates the two flags to the positions of the three
threads: with it, passing the wait for `isMainLoopThreadActive` means that no
network thread is there. `SessionInv` says that an open request has no outcome
yet, that an active slot has the session's indexes, and what the indexes are as
a function of what was told to the user. `TypeOK` needs `ThreadsInv`: only a
running network thread reads the socket, and only a thread that runs has one.

**GameHandshake_proofs** (assumption `HandshakeAssumption`): `TypeCorrect`,
`NothingLeaves` (`HandshakeStaysHere`), `RestoredForGood` (`RestoredIsConnected`) and
`SessionWaits` (`SessionWaitsForIndexes`, an action property), for any number of
requests and any answers. The invariant has four parts. `StepInv`: what
`current_state` is in the middle of a step of `process_update`, which is why the
network thread's writes to it do no harm. `RequestInv`: an open request belongs to
a state before the third one. `SessionInv`: from the reply on, each state fits one
packet on its way to the game, and the mode of the slot; the game reads the
packets one by one, so no state is skipped. `CommandsInv`: what the game has sent and the
network thread has not numbered is of a state in which it may leave, and an answer to a
class selection or a spawn is there only once the session's numbers are. The last three
hold as long as no frame stalled, no connection was lost and no request was taken
twice (`Undisturbed`). `NothingLeaves` is for any set of the RPCs a game may send
(`OwnRpcs`), and any number of them.

**Connd_proofs** (assumption `ConndAssumption`): `TypeCorrect`, `OneSpeakerHolds`,
`HandledInOrderHolds`, `AccountedHolds` and `SessionIsFifoHolds`, for any number of servers, daemons, sessions, messages and
kills. Two invariants, each inductive with the help of the one before.

`IInv` is about who holds a session. `OneSpeaker` alone is not inductive: a daemon
that has its parameters opens the port next without asking anyone, and so does a
game that was accepted. `ClaimInv` therefore says that a session is in the hands of
one process, counting those that are about to open it (`Claims`, `GameHolds`), and
that the daemon that accepted a game is the only one the game can take over from.
`DaemonInv` ties a daemon's port to the places of its two threads (what keeps it
closed once its parameters are sent), `GameInv` says what the game holds where it
stands, and `OpenedInv` that a new session is new.

`OrderInv` is about the RPCs of a session that is not spoiled. Wherever they are,
those handled, those in `rpc_queue` or sent back for replay, and those received but
not yet handled stand in one line that rises, in which none is missing but those a
`Disconnect` freed (`Line`); and the base index of whoever holds the session is the
number of the last one taken, so that the next one taken is the next number.
`QueuesInv` says which queues are empty (a daemon that has not joined has received
nothing; a game replays before it receives), so that the line has three pieces at
most. `LineMoves` is what the actions do to the line. The proof takes the parts of
`OrderInv` (`HandledInv`, `GameOrder`, `DaemonOrder`) through every action; that no
second process touches the session's line in the meantime is `ClaimInv`.
`HandledInOrder` is the first piece of the line, `Accounted` the whole of it.

`SessionIsFifoHolds` says the same as a refinement of `PacketFifo`, of a session: what
waits is what was taken and neither handled nor freed. It takes two things more of the
line, that what was freed was taken and waits nowhere. Then the RPC that a game handles
is the head of the line, so the oldest that waits (`LineWaits`, `HandledIsReturn`); what
`Disconnect` frees did wait (`FreedIsFree`); what is taken next is newer than all
(`TakenIsPut`); and whatever else games and daemons do with a session (save it, hand its
RPCs over, lose them with a process that is killed) is a stutter.

`KeepInv` is about the state a game leaves behind, for `DumpHasDaemon` and
`StateFitsSession`. Neither is inductive: a game that starts reads the dump, then the
port file, then what the daemon answers, and each of these can be of another
session than the one before. `StartingInv` says what the starting game has in hand at
each of these places, `DumpInv` that a dump says `daemon` only while one daemon keeps its
session (`Keeps`) and no other is starting (`StartsAlone`), `StateInv` that the state the
game holds is that of the session it holds or is about to get. With a kill or a slow
start TLC violates both properties, so the two conditions of the theorems are not
for the prover's sake: what then remains is `OneSpeaker`, `HandledInOrder` and `Accounted`.

**PacketQueue_proofs** (assumption `QueueAssumption`): `QueueTypeCorrect`,
`AssertionsHoldHolds`, and `ImplementsFifoHolds`: every behaviour of the ring is one of
`PacketFifo`, for any number of packets and any size of the first ring. Nothing is
claimed once a second reader has come in (`Misused`).

The ring is a circle of nodes that grows while it is used, so the invariant speaks
of a walk along it. `Ring` says that a bijection `g` numbers the nodes so that `next`
leads from each to the one after; `WriterAt`, `ReaderAt` say where the four pointers stand on that
walk; `Holds` and `Line` that the packets between the read and the write pointer are
the ones published and not returned, in order, each with its flag set;
`Accounted` and `Gone` where every other packet is. Inserting a node shifts the walk, and so
the invariant asks only that some `g` exists. While `Clear` empties the ring
(`Going`, then `Emptied`), the flags are no longer true and the invariant says how far it
has come. `ThreadInv` ties the places of the three threads to each other.

The refinement maps the queue to `(1..published)` without what was returned or freed;
`WriteUnlock`'s move of the write pointer publishes, the end of `Receive` returns,
`Disconnect` frees. The rest stutters.

**SecuredConnection_proofs** (no assumption): `TypeCorrect`, `KeysAreTheClients`,
`EarlyKeyIsAccident`: the `Faithful` and `WellFormed` of that module, for any random numbers
and any number of cookies and of requests. A datagram once sent may arrive at any time
after, and again. `KeyInv` says where a key can be. What comes of a request has its
number and is no later than the last (`Numbered`); a request is answered once, and
confirmed with one key, however late (`AnsweredOnce`); every key in a message, on its way or at an
end is one the client drew (`KeysAreDrawn`), and one the client has encrypted with if a
datagram is under it (`ClientEncrypts`, `WireEncrypted`); the server has a key before the
client encrypts (`ServerHasKey`), and is connected only by a message it could read
(`ServerConnected`). That there is one key if there is one request is `AnsweredOnce`; with two,
the theorem says what remains. The steps are first brought into one form, what they
leave of the ends, the wire and the messages handled (`Effect`).

**Registries_proofs**: the `Faithful` and `WellFormed` of two modules that look things up.

`SystemsAgree` and `SystemsAnnounced` are about `RemoteSystems`, for any number of systems and
slots (`PeersAssumption`: `UNASSIGNED_PLAYER_ID` is not a system's). A closed slot keeps its
player's id, so that a list and a tree agree takes more than what each step writes:
`Looked` says that the tree leads to every active slot and to nothing else, which is why
the first slot a scan finds (`IndexIsLooked`) is the one of the tree, and why assigning a
slot, which asks only the tree, never gives a system two. `Asked` keeps the reason
of a connection through the modes that lead to it, `Told` is `Faithful` by the tree. Each
action is one of three changes of the list (a mode, a slot assigned, a slot given up)
or none; `ModeStep`, `AssignStep` and `CloseStep` take the invariant through these.

`ObjectsFound` is about `NetworkIds`, for any finite set of objects that leaves one
identifier free (`IdsAssumption`, which `GenerateID` needs: its loop does not end
otherwise). `Found` says that a node leads to a living object of that identifier, except
the node of `UNASSIGNED_NETWORK_ID`, which `GenerateID` may hand out; `Kept`, that a living
object that was not robbed has its node. That a generated identifier is free is the pigeonhole
principle (`SomeFree`) and arithmetic modulo their number (`GeneratedIsFree`); that
setting one steals no node that `robbed` does not record is `SetStep`.

### Model-checked only

* *Liveness* of every module: it rests on fairness, which the prover does not treat.
* *The structures* (`Faithful`, `WellFormed`, `RoundTrips`), but for the key
  exchange, the remote systems and the ids of objects. Many of their operations follow the code's loops with `RECURSIVE`
  operators, which disable the SMT backend, or with folds, and what a loop computes
  for every input is an induction over data, whose library theorems the provers
  cannot instantiate. Where the code's loop is a recursive function over
  numbers with a bound, the induction can be replaced by the pigeonhole principle:
  the lemma `Climb` of `PacketQueue_proofs` does so for the walk along the ring.

## What is not modelled

* `Table`, `WeightedGraph` and `Tree`: no code of the repository uses them (the B+ tree
  a table is made of is modelled).
* The tables of rijndael and SHA-1: arithmetic without state; a bijection stands
  for the cipher, and connd runs its sessions with no key (`raknet_plugin.hpp:82`).
* Binding and receiving of sockets, platform wrappers, allocation: calls of the
  operating system.
* Window size control, bandwidth and statistics of the reliability layer; offline
  messages and the routing of plugins in the peer; in `RakPeer`, the short datagrams that
  reject a connection (banned, full: `RakPeer.cpp:3461-3531`), which a server does not send
  to a client it has, and the receive error that ends the peer from inside (3886-3907); `TableSerializer`; the `Int` class
  of `BigTypes.h`, which calls functions that are not there.
* The conversion of the game's structures to JSON and back, field by field, for
  structures of a binary outside the repository.
* Headers of RakNet plugins whose sources are not in the repository; logging,
  patterns and build files.
* In the modelled parts: byte counts on the loopback (messages arrive whole),
  failure of `CreateProcess`, and data that no property tells apart. In `Connd` an RPC is
  taken from RakNet and put on `rpc_queue` in one step (`Drain`); the daemon thread may read
  the queue while the main thread is in between (`raknet_plugin.hpp:127`), and that RPC is
  then lost, which the model does not show. In `SecuredConnection` the server has room
  for the client, the client its password, and a datagram carries one message.
* Some hazards are there and excused by name: a session is `spoiled` once its messages are
  handled with indexes not its own (`Connd`), a daemon `Abandoned` whose game died before
  asking for its RPCs, a handshake `missed` its reply. The properties say that nothing
  else makes them fail.

## Plan

1. `ReliabilityLayer` and its proofs; `Handover`. *Done.*
2. `Connd`; `PacketFifo` and `PacketQueue`; `RakPeer` and its proofs. *Done.*
3. `GameHandshake` and its proofs: two threads, recorded answers, the request that
   leaves before the state is set, the moment at which packets are let through
   again. *Done.*
4. The library below: split packets, frames, containers, encodings, the peer's
   tables and protocols, players, registries. *Done.*
5. The theorems of `Connd`: who holds a session, the order of its RPCs, and what a
   dump and a daemon know of it. *Done.*
6. `OrderedInOrder` and `SequencedForward` as theorems, and what is left of them over
   handovers; `Delivery`, which `ReliabilityLayer` implements, by TLC and by proof. *Done.*
7. `PacketQueue`: the assertions and the refinement of `PacketFifo` as theorems, by a walk
   along the ring. *Done.*
8. `Connd` as one queue for each session, from the server to the game. *Done.*
9. Of the structures, the key exchange, the remote systems and the ids of objects as
   theorems. *Done.*
10. `Connd` with `GameHandshake` in place of its one step for each phase. *Open.*
