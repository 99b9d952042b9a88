-------------------------------- MODULE Slice --------------------------------
(***************************************************************************)
(* One slice: slice_writer packs the parts of sorted key-value pairs into  *)
(* leaf nodes and builds a tree of index nodes over them, and slice reads  *)
(* them back from the beginning.  SliceRange reads from a key.             *)
(*                                                                         *)
(* A node is the sequence of its entries and its location is its place in  *)
(* the file; compression, checksums and the encoding of locations are left *)
(* out.  A value is a sequence of bytes, and a byte is the number of the   *)
(* add() that brought it with its place in that call's value, so no two    *)
(* are alike.  Space in a node is counted in units: an entry takes         *)
(* EntrySpace for the entry, key and attributes, and its bytes one each.   *)
(***************************************************************************)
EXTENDS Naturals, Sequences, SequencesExt

CONSTANTS
    SliceKeys,      \* keys, positive numbers in byte order
    Sizes,          \* sizes of the values given to one add()
    NodeSpace,      \* node::node_size less the key count
    EntrySpace,     \* an entry, its key and its attributes
    MinPart,        \* smallest part a value is split into, 16 bytes
    PartDivisor,    \* but at least this fraction of the value, 8
    IndexFanout,    \* entries in an index node
    Unfinished,     \* whether callers give a value in several add()s
    MaxAdds         \* bound: number of add()s

ASSUME SliceKeysAssumption == SliceKeys \subseteq Nat \ {0}
ASSUME SizesAssumption == Sizes \subseteq Nat
ASSUME SpaceAssumption ==
    NodeSpace \in Nat /\ EntrySpace \in Nat /\ MinPart \in Nat \ {0} /\ PartDivisor \in Nat \ {0}
\* index_writer::flush never ends if a level has as many nodes as the one below.
ASSUME FanoutAssumption == IndexFanout \in Nat \ {0, 1}
\* add() never ends for a value whose smallest part needs more than a node.
ASSUME PartsFitAssumption ==
    \A n \in Sizes : NodeSpace >= EntrySpace + MinPart + n \div PartDivisor

VARIABLES
    w,              \* the slice_writer
    added,          \* ghost: what add() was given
    flushed         \* flush() returned; w.root is the root

sliceVars == <<w, added, flushed>>

NoKey == 0          \* an empty key_buffer
Invalid == 0        \* an invalid location

-----------------------------------------------------------------------------
(* node_writer *)

FreeSpace(node) ==
    NodeSpace - Len(node) * EntrySpace - Len(FlattenSeq([i \in 1..Len(node) |-> node[i].bytes]))

\* has_enough_space, for an entry that may be split.
has_enough_space(node, value) ==
    FreeSpace(node) >= EntrySpace + Max({MinPart, Len(value) \div PartDivisor})

\* node_writer::add: as much of the value as the node has space for.
CopiedSize(node, value) == Min({FreeSpace(node) - EntrySpace, Len(value)})

\* Mutant: the first part of a split value already ends the record.
NodeAdd_EorEarly(node, key, value, eor, deleted) ==
    Append(node, [key |-> key, bytes |-> SubSeq(value, 1, CopiedSize(node, value)),
                  eor |-> eor, deleted |-> deleted])

NodeAdd(node, key, value, eor, deleted) ==
    LET size == CopiedSize(node, value)
    IN Append(node, [key |-> key, bytes |-> SubSeq(value, 1, size),
                     eor |-> eor /\ size = Len(value), deleted |-> deleted])

-----------------------------------------------------------------------------
(* slice_writer *)

\* slice_writer::store: every node is linked from the one stored before it.
store(file, node, leaf) ==
    LET linked == IF file = <<>> THEN file
                  ELSE [file EXCEPT ![Len(file)].next = Len(file) + 1]
    IN Append(linked, [leaf |-> leaf, entries |-> node, next |-> Invalid])

NewIndexWriter == [node |-> <<>>, first |-> NoKey, last |-> NoKey]

\* index_writer::add at one level: a full node is stored and goes to the level above.
Climb(c) ==
    LET wr == c.writer
        l == wr.index[c.level]
        first == IF l.first = NoKey THEN c.entry.key ELSE l.first
        file == store(wr.file, l.node, FALSE)
        index == [wr.index EXCEPT ![c.level] =
                    [node |-> <<c.entry>>, first |-> c.entry.key, last |-> c.entry.max]]
        levels == IF c.level = Len(index) THEN Append(index, NewIndexWriter) ELSE index
    IN IF c.done THEN c
       ELSE IF Len(l.node) < IndexFanout
       THEN [c EXCEPT !.done = TRUE,
                      !.writer.index[c.level] = [node |-> Append(l.node, c.entry),
                                                 first |-> first, last |-> c.entry.max]]
       ELSE [writer |-> [wr EXCEPT !.file = file, !.index = levels], level |-> c.level + 1,
             entry |-> [key |-> first, max |-> l.last, location |-> Len(file)], done |-> FALSE]

\* index_writer::add, up to the first level with space, which may be a new one.
IndexAdd(wr, level, e) ==
    LET climbed[i \in 0..Len(wr.index) + 1] ==
            IF i = 0 THEN [writer |-> wr, level |-> level, entry |-> e, done |-> FALSE]
            ELSE Climb(climbed[i - 1])
    IN climbed[Len(wr.index) + 1].writer

\* index_writer::flush at one level.
FlushLevel(c) ==
    LET wr == c.writer
        l == wr.index[c.level]
        file == store(wr.file, l.node, FALSE)
        stored == [wr EXCEPT !.file = file, !.root = Len(file)]
    IN IF c.done THEN c
       ELSE IF c.level = Len(wr.index) THEN [c EXCEPT !.writer = stored, !.done = TRUE]
       ELSE [writer |-> IndexAdd(stored, c.level + 1,
                                 [key |-> l.first, max |-> l.last, location |-> Len(file)]),
             level |-> c.level + 1, done |-> FALSE]

\* index_writer::flush of all levels, to which one may be added on the way.
IndexFlush(wr) ==
    LET flush[i \in 0..Len(wr.index) + 1] ==
            IF i = 0 THEN [writer |-> wr, level |-> 1, done |-> FALSE] ELSE FlushLevel(flush[i - 1])
    IN flush[Len(wr.index) + 1].writer

\* A data node is indexed only if some key begins in it.
StoreLeaf(wr) ==
    LET file == store(wr.file, wr.node, TRUE)
        stored == [wr EXCEPT !.file = file, !.node = <<>>]
    IN IF wr.first_key = NoKey THEN stored
       ELSE IndexAdd(stored, 1, [key |-> wr.first_key, max |-> wr.last_key,
                                 location |-> Len(file)])

\* What follows the store in slice_writer::add: the next node's first key.
FirstKeyAfterStore(wr, key, new_key) ==
    IF wr.first_key = NoKey THEN NoKey ELSE IF new_key THEN key ELSE NoKey

\* A pass of the loop of slice_writer::add.
AddPart(c, key, eor, deleted, new_key) ==
    LET wr == c.writer
        fits == has_enough_space(wr.node, c.value)
        filled == IF fits THEN [wr EXCEPT !.node = NodeAdd(@, key, c.value, eor, deleted)]
                  ELSE wr
        rest == IF fits THEN SubSeq(c.value, CopiedSize(wr.node, c.value) + 1, Len(c.value))
                ELSE c.value
    IN IF c.done THEN c
       ELSE IF fits /\ rest = <<>> THEN [writer |-> filled, value |-> rest, done |-> TRUE]
       ELSE [writer |-> [StoreLeaf(filled) EXCEPT
                           !.first_key = FirstKeyAfterStore(filled, key, new_key)],
             value |-> rest, done |-> FALSE]

\* The loop.  Every pass but the first has an empty node and copies something.
AddParts(wr, key, value, eor, deleted, new_key) ==
    LET pass[i \in 0..Len(value) + 2] ==
            IF i = 0 THEN [writer |-> wr, value |-> value, done |-> FALSE]
            ELSE AddPart(pass[i - 1], key, eor, deleted, new_key)
    IN pass[Len(value) + 2].writer

\* slice_writer::check: what add() accepts; anything else throws.
check(key, size, eor, deleted) ==
    /\ w.last_key # NoKey =>
          /\ key >= w.last_key
          /\ key = w.last_key => ~w.last_eor /\ ~deleted
          /\ key > w.last_key => w.last_eor
    /\ deleted => eor /\ size = 0

SliceInit ==
    /\ w = [node |-> <<>>, first_key |-> NoKey, last_key |-> NoKey, last_eor |-> TRUE,
            file |-> <<>>, index |-> <<NewIndexWriter>>, root |-> Invalid]
    /\ added = <<>>
    /\ flushed = FALSE

Add(key, size, eor, deleted) ==
    /\ ~flushed /\ Len(added) < MaxAdds
    /\ eor \/ Unfinished
    /\ check(key, size, eor, deleted)
    /\ LET new_key == key # w.last_key
           value == [i \in 1..size |-> <<Len(added) + 1, i>>]
           first == IF new_key /\ w.first_key = NoKey THEN key ELSE w.first_key
       IN /\ w' = [AddParts([w EXCEPT !.first_key = first], key, value, eor, deleted, new_key)
                   EXCEPT !.last_key = key, !.last_eor = eor]
          /\ added' = Append(added, [key |-> key, bytes |-> value, eor |-> eor,
                                     deleted |-> deleted])
    /\ UNCHANGED flushed

\* The chain of data nodes ends at the last one, though index nodes follow.
FlushSlice ==
    /\ ~flushed /\ w.last_eor
    /\ LET leaf == Len(w.file) + 1
           done == IndexFlush(StoreLeaf(w))
       IN w' = [done EXCEPT !.file[leaf].next = Invalid]
    /\ flushed' = TRUE
    /\ UNCHANGED added

SliceNext ==
    \/ \E key \in SliceKeys, size \in Sizes, eor, deleted \in BOOLEAN : Add(key, size, eor, deleted)
    \/ FlushSlice

SliceSpec == SliceInit /\ [][SliceNext]_sliceVars

-----------------------------------------------------------------------------
(* slice and slice_iterator, on a flushed slice *)

\* slice_iterator reads a node; load_next passes over index nodes.
ReadNode(c) ==
    IF c.at = Invalid THEN c
    ELSE LET node == w.file[c.at]
         IN [at |-> node.next, parts |-> c.parts \o IF node.leaf THEN node.entries ELSE <<>>]

\* The parts from the node at location on.
Chain(location) ==
    LET read[i \in 0..Len(w.file)] ==
            IF i = 0 THEN [at |-> location, parts |-> <<>>] ELSE ReadNode(read[i - 1])
    IN read[Len(w.file)].parts

begin == IF added = <<>> THEN <<>> ELSE Chain(1)

-----------------------------------------------------------------------------
(* Properties *)

BytesOf(parts, key) ==
    FlattenSeq([i \in 1..Len(parts) |-> IF parts[i].key = key THEN parts[i].bytes ELSE <<>>])

\* A client that joins the parts of parts up to eor gets what was given in
\* given: the same keys in order, each with all of its bytes and no more.
Rebuilds(parts, given) ==
    /\ {<<e.key, e.deleted>> : e \in ToSet(parts)} = {<<e.key, e.deleted>> : e \in ToSet(given)}
    /\ \A e \in ToSet(given) : BytesOf(parts, e.key) = BytesOf(given, e.key)
    /\ \A i \in 1..Len(parts) - 1 :
          IF parts[i].eor THEN parts[i].key < parts[i + 1].key
          ELSE parts[i].key = parts[i + 1].key
    /\ parts # <<>> => Last(parts).eor

\* Iterating a slice from its beginning gives every key and value that was
\* added, however values were split over nodes and whatever index nodes lie
\* between the data nodes (verify_sequential of ushard_test.cpp).
BeginReadsAll == flushed => Rebuilds(begin, added)

=============================================================================
