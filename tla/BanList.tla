------------------------------ MODULE BanList ------------------------------
(***************************************************************************)
(* banList of RakPeer (RakNet/src/RakPeer.cpp): addresses, each banned for *)
(* good or until a time, the last character of an address a wildcard; an   *)
(* expired ban is forgotten by the next question that comes upon it.       *)
(* A question is asked for every datagram, by the network thread.          *)
(***************************************************************************)
EXTENDS Integers, Sequences, FiniteSets, Functions, SequencesExt

CONSTANTS
    Bans,        \* addresses that are banned and allowed again, sequences
    Addresses,   \* complete addresses, without a wildcard
    Wildcard,
    Terms,       \* milliseconds of a ban, 0 for good
    MaxTime      \* bound: the clock

VARIABLES
    banList,     \* the list, the time, and the bans two threads have not found
                 \* in it and are about to append
    banned       \* history: the addresses banned, each with its end, and those
                 \* that were appended although they were there

vars == << banList, banned >>

Init ==
    /\ banList = [ bans |-> << >>, time |-> 0, adding |-> << >> ]
    /\ banned = [ ends |-> << >>, twice |-> {} ]

\* Where an address is in the list, 0 if it is not.
Find(IP) ==
    LET found == { i \in DOMAIN banList.bans : banList.bans[i].IP = IP }
    IN  IF found = {} THEN 0 ELSE CHOOSE i \in found : \A j \in found : i <= j

Timeout(milliseconds) == IF milliseconds = 0 THEN 0 ELSE banList.time + milliseconds

Banned(ban) == [ x \in DOMAIN banned.ends \cup { ban.IP } |->
                   IF x = ban.IP THEN ban.timeout ELSE banned.ends[x] ]

\* The user thread bans, and the network thread a system that sends nonsense.
\* The lock is not held between the search and the end of the list.
AddToBanList(IP, milliseconds) ==
    LET ban == [ IP |-> IP, timeout |-> Timeout(milliseconds) ]
        i == Find(IP)
    IN  IF i # 0
        THEN /\ banList' = [ banList EXCEPT !.bans[i] = ban ]
             /\ banned' = [ banned EXCEPT !.ends = Banned(ban) ]
        ELSE /\ Len(banList.adding) < 2
             /\ banList' = [ banList EXCEPT !.adding = Append(@, ban) ]
             /\ UNCHANGED banned

Insert(n) ==
    LET ban == banList.adding[n]
    IN  /\ banList' = [ banList EXCEPT !.bans = Append(@, ban), !.adding = RemoveAt(@, n) ]
        /\ banned' = [ ends |-> Banned(ban),
                       twice |-> banned.twice \cup (IF Find(ban.IP) # 0 THEN { ban.IP } ELSE {}) ]

\* The last element takes the place of the one removed.
Without(list, i) == Front([ list EXCEPT ![i] = Last(list) ])

RemoveFromBanList(IP) ==
    /\ Find(IP) # 0
    /\ banList' = [ banList EXCEPT !.bans = Without(@, Find(IP)) ]
    /\ banned' = [ banned EXCEPT !.ends = RestrictDomain(@, LAMBDA x : x # IP) ]

ClearBanList ==
    /\ banList' = [ banList EXCEPT !.bans = << >> ]
    /\ banned' = [ ends |-> << >>, twice |-> {} ]

Expired(ban) == ban.timeout > 0 /\ ban.timeout < banList.time

\* The characters of a ban and an address, compared up to the first difference.
Matches(ban, IP) ==
    LET differ == { k \in 1 .. Len(ban) + 1 :
                      \/ k > Len(IP) \/ k > Len(ban) \/ ban[k] # IP[k] }
        k == CHOOSE n \in differ : \A m \in differ : n <= m
    IN  IF k > Len(ban) \/ k > Len(IP) THEN ban = IP ELSE ban[k] = Wildcard

\* The loop of IsBanned: the answer, and the list it leaves.
RECURSIVE Scan(_, _, _)
Scan(list, i, IP) ==
    IF i > Len(list) THEN [ answer |-> FALSE, bans |-> list ]
    ELSE IF Expired(list[i]) THEN Scan(Without(list, i), i, IP)
    ELSE IF Matches(list[i].IP, IP) THEN [ answer |-> TRUE, bans |-> list ]
    ELSE Scan(list, i + 1, IP)

IsBanned(IP) == Scan(banList.bans, 1, IP)

Ask(IP) == banList' = [ banList EXCEPT !.bans = IsBanned(IP).bans ] /\ UNCHANGED banned

Tick ==
    /\ banList.time < MaxTime
    /\ banList' = [ banList EXCEPT !.time = @ + 1 ]
    /\ UNCHANGED banned

Next ==
    \/ \E IP \in Bans :
        \/ RemoveFromBanList(IP)
        \/ \E milliseconds \in Terms : AddToBanList(IP, milliseconds)
    \/ \E IP \in Addresses : Ask(IP)
    \/ \E n \in DOMAIN banList.adding : Insert(n)
    \/ ClearBanList \/ Tick

-----------------------------------------------------------------------------
Covers(ban, IP) ==
    \/ ban = IP
    \/ \E k \in DOMAIN ban \cap DOMAIN IP :
         ban[k] = Wildcard /\ \A j \in 1 .. k - 1 : ban[j] = IP[j]

\* An address is banned exactly when a ban that has not ended is that address
\* or starts it up to a wildcard, whatever was banned, allowed and asked before;
\* but a ban that two threads appended may outlive its end and its removal.
Faithful ==
    \A IP \in Addresses :
        (\A ban \in banned.twice : ~Covers(ban, IP)) =>
            (IsBanned(IP).answer <=>
                \E ban \in DOMAIN banned.ends :
                    /\ banned.ends[ban] = 0 \/ banned.ends[ban] >= banList.time
                    /\ Covers(ban, IP))

\* Only such a ban is in the list twice: allowing another again allows it.
WellFormed ==
    \A i, j \in DOMAIN banList.bans :
        i # j /\ banList.bans[i].IP = banList.bans[j].IP => banList.bans[i].IP \in banned.twice
=============================================================================
