---------------------------- MODULE StringCoding ----------------------------
(***************************************************************************)
(* Strings on the wire: HuffmanEncodingTree (DS_HuffmanEncodingTree.cpp),  *)
(* StringCompressor and StringTable over it, and DataCompressor.  A byte   *)
(* has ByteBits bits, a string is a sequence of bytes other than 0, and    *)
(* the length of an encoding is a number of LengthBits bits (a short).     *)
(***************************************************************************)
EXTENDS Integers, Sequences, FiniteSets, OrderedList

CONSTANTS
    ByteBits,
    LengthBits,
    Languages,      \* 0 is the tree that is always there
    MaxString,      \* bound: bytes of a string
    MaxFrequency    \* bound: a weight of the first tree

VARIABLES
    coding,         \* huffmanEncodingTrees, and orderedStringList with what of it is freed
    strings         \* history: the strings added to the table

vars == << coding, strings >>

Bytes == 0 .. 2 ^ ByteBits - 1
Strings(n) == UNION { [ 1 .. k -> Bytes \ {0} ] : k \in 0 .. n }

-----------------------------------------------------------------------------
(* The tree *)

Leaf(value, weight) == [ value |-> value, weight |-> weight, left |-> << >>, right |-> << >> ]
IsLeaf(node) == node.left = << >>

\* InsertNodeIntoSortedList: before the first node that does not weigh less.
InsertSorted(list, node) ==
    LET i == SelectInSeq(list, LAMBDA other : other.weight >= node.weight)
    IN  IF i = 0 THEN Append(list, node) ELSE InsertAt(list, i, node)

\* The two lightest become one, until one is left.
RECURSIVE Joined(_)
Joined(list) ==
    LET node == [ value |-> 0, weight |-> list[1].weight + list[2].weight,
                  left |-> << list[1] >>, right |-> << list[2] >> ]
        rest == SubSeq(list, 3, Len(list))
    IN  IF rest = << >> THEN node ELSE Joined(InsertSorted(rest, node))

\* GenerateFromFrequencyTable: a byte that does not occur weighs 1.
Tree(frequency) ==
    Joined(FoldLeft(LAMBDA list, b : InsertSorted(list, Leaf(b, IF frequency[b] = 0 THEN 1 ELSE frequency[b])),
                    << >>, [ i \in 1 .. 2 ^ ByteBits |-> i - 1 ]))

\* encodingTable: the way from the root to the leaf.
RECURSIVE Paths(_, _)
Paths(node, path) ==
    IF IsLeaf(node) THEN { << node.value, path >> }
    ELSE Paths(node.left[1], Append(path, 0)) \cup Paths(node.right[1], Append(path, 1))

EncodingTable(tree) ==
    LET paths == Paths(tree, << >>)
    IN  [ b \in Bytes |-> (CHOOSE p \in paths : p[1] = b)[2] ]

\* EncodeArray fills the last byte with the beginning of a longer code.
EncodeArray(tree, input) ==
    LET table == EncodingTable(tree)
        bits == FlattenSeq([ i \in DOMAIN input |-> table[input[i]] ])
        remaining == ByteBits - (Len(bits) % ByteBits)
        longer == { b \in Bytes : Len(table[b]) > remaining }
        pad == CHOOSE b \in longer : \A c \in longer : b <= c
    IN  IF Len(bits) % ByteBits = 0 \/ longer = {} THEN bits
        ELSE bits \o SubSeq(table[pad], 1, remaining)

DecodeArray(tree, bits) ==
    FoldLeft(LAMBDA r, bit :
                 LET node == IF bit = 0 THEN r.node.left[1] ELSE r.node.right[1]
                 IN  IF IsLeaf(node) THEN [ node |-> tree, output |-> Append(r.output, node.value) ]
                     ELSE [ r EXCEPT !.node = node ],
             [ node |-> tree, output |-> << >> ], bits).output

Counted(input) == [ b \in Bytes |-> Cardinality({ i \in DOMAIN input : input[i] = b }) ]

-----------------------------------------------------------------------------
(* StringCompressor, StringTable and DataCompressor *)

Freed == << >>                      \* what a pointer to freed memory leads to

Cut(string, max) == IF max <= 0 \/ Len(string) < max THEN string ELSE SubSeq(string, 1, max - 1)

\* StringCompressor::EncodeString; the number of bits is cut to a short.
Encoded(language, string, max) ==
    LET bits == EncodeArray(coding.tree[language], Cut(string, max))
        length == Len(bits) % 2 ^ LengthBits
    IN  [ found |-> FALSE, length |-> length, bits |-> SubSeq(bits, 1, length) ]

Decoded(language, message, max) == Cut(DecodeArray(coding.tree[language], message.bits), max)

\* strcmp, as the table compares.
RECURSIVE Strcmp(_, _)
Strcmp(a, b) ==
    CASE a = b -> 0
      [] a # b /\ (a = << >> \/ b = << >>) -> IF a = << >> THEN -1 ELSE 1
      [] OTHER -> IF a[1] = b[1] THEN Strcmp(Tail(a), Tail(b)) ELSE a[1] - b[1]

Order(string) == [ i \in DOMAIN coding.table |-> Strcmp(string, coding.table[i].str) ]
At(string) == GetIndexFromKey(Order(string))

\* StringTable::EncodeString and DecodeString: the index of a string that is there.
TableEncoded(string, max) ==
    IF At(string).objectExists THEN [ found |-> TRUE, index |-> At(string).index ]
    ELSE Encoded(0, string, max)

TableDecoded(message, max) ==
    IF message.found THEN Cut(coding.table[message.index + 1].str, max) ELSE Decoded(0, message, max)

\* DataCompressor sends the frequencies, from which the other side makes the tree.
Compressed(data) ==
    [ size |-> Len(data), frequency |-> Counted(data), bits |-> EncodeArray(Tree(Counted(data)), data) ]
Decompressed(message) == DecodeArray(Tree(message.frequency), message.bits)

-----------------------------------------------------------------------------
Init ==
    /\ coding \in { [ tree |-> [ l \in Languages |-> IF l = 0 THEN Tree(f) ELSE Freed ], table |-> << >> ] :
                      f \in [ Bytes -> 0 .. MaxFrequency ] }
    /\ strings = {}

\* With no input the old tree is deleted and stays where it was.
GenerateTreeFromStrings(language, input) ==
    /\ coding.table = << >>
    /\ coding' = [ coding EXCEPT !.tree[language] = IF input = << >> THEN Freed ELSE Tree(Counted(input)) ]
    /\ UNCHANGED strings

\* Insert returns the index, and 0 is taken for a failure: a copy is deleted
\* that has become the first of the list.
AddString(string, copyString) ==
    LET at == At(string)
        freed == copyString /\ ~at.objectExists /\ at.index = 0
    IN  /\ Cardinality(strings) < 2
        /\ \A i \in DOMAIN coding.table : coding.table[i].live
        /\ coding' = [ coding EXCEPT !.table = InsertKey(@, Order(string), [ str |-> string, live |-> ~freed ]) ]
        /\ strings' = strings \cup { string }

Next ==
    \/ \E language \in Languages, input \in Strings(3) : GenerateTreeFromStrings(language, input)
    \/ \E string \in Strings(2), copyString \in BOOLEAN : AddString(string, copyString)

-----------------------------------------------------------------------------
\* No code is the beginning of another one.
PrefixFree(tree) ==
    LET table == EncodingTable(tree)
    IN  \A b, c \in Bytes : IsPrefix(table[b], table[c]) => b = c

Fits(language, string) == Len(EncodeArray(coding.tree[language], string)) < 2 ^ LengthBits

\* A string that is encoded comes back, cut to the length that was asked for,
\* by itself, by its index in the table, and compressed with its own tree.
RoundTrips ==
    /\ \A l \in Languages : coding.tree[l] # Freed =>
         /\ PrefixFree(coding.tree[l])
         /\ coding.table = << >> => \A string \in Strings(MaxString) : \A max \in { 0, MaxString } :
              Fits(l, string) =>
                Decoded(l, Encoded(l, string, max), IF max = 0 THEN MaxString + 1 ELSE max) = Cut(string, max)
    /\ coding.tree[0] # Freed => \A string \in Strings(2) :
         Fits(0, string) => TableDecoded(TableEncoded(string, 2), 2) = Cut(string, 2)
    /\ strings = {} => \A data \in Strings(3) : data # << >> => Decompressed(Compressed(data)) = data

\* The table has each string once, in order.
WellFormed ==
    /\ { coding.table[i].str : i \in DOMAIN coding.table } = strings
    /\ \A i \in 2 .. Len(coding.table) : Strcmp(coding.table[i - 1].str, coding.table[i].str) < 0
=============================================================================
