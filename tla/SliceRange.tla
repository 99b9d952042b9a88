------------------------------ MODULE SliceRange ------------------------------
(***************************************************************************)
(* Reading a flushed slice from a key: the search through the index and in *)
(* the leaf.                                                               *)
(***************************************************************************)
EXTENDS Slice

CONSTANT
    LinearSpan      \* node::lower_bound scans this many entries, 8

ASSUME SpanAssumption == LinearSpan \in Nat \ {0}

\* node::lower_bound: binary search down to LinearSpan entries, then a scan.
\* Places count from 1; one past the end when every key is smaller.
RECURSIVE Narrow(_, _, _, _)
Narrow(node, key, start, end) ==
    LET ndx == start + (end - start) \div 2
    IN IF end - start <= LinearSpan THEN <<start, end>>
       ELSE IF key <= node[ndx].key THEN Narrow(node, key, start, ndx)
       ELSE Narrow(node, key, ndx, end)

lower_bound(node, key) ==
    LET span == Narrow(node, key, 1, Len(node) + 1)
    IN Min({ndx \in span[1]..span[2] : ndx = span[2] \/ key <= node[ndx].key})

\* Mutant: no step back to the entry that covers min.
IndexPlace_NoStepBack(node, min) ==
    IF lower_bound(node, min) > Len(node) THEN Len(node) ELSE lower_bound(node, min)

\* Where find_node_for descends: the last entry that begins at or before min.
IndexPlace(node, min) ==
    LET ndx == lower_bound(node, min)
    IN IF ndx > Len(node) THEN ndx - 1
       ELSE IF min < node[ndx].key /\ ndx # 1 THEN ndx - 1 ELSE ndx

RECURSIVE find_node_for(_, _, _)
find_node_for(location, min, max) ==
    LET node == w.file[location].entries
        e == node[IndexPlace(node, min)]
    IN IF min > e.max \/ max < e.key THEN Invalid
       ELSE IF w.file[e.location].leaf THEN e.location
       ELSE find_node_for(e.location, min, max)

\* slice::range, cut at max as ushard_iterator::is_out_of_bounds does.
range(min, max) ==
    LET location == find_node_for(w.root, min, max)
        ndx == lower_bound(w.file[location].entries, min)
    IN IF added = <<>> THEN <<>>
       ELSE IF location = Invalid THEN <<>>
       ELSE SelectSeq(SubSeq(Chain(location), ndx, Len(Chain(location))),
                      LAMBDA e : e.key <= max)

-----------------------------------------------------------------------------
(* Properties *)

Between(parts, min, max) == SelectSeq(parts, LAMBDA e : min <= e.key /\ e.key <= max)

\* A query from a key that is in the slice, to any later key, gives the
\* complete records of the range (verify_range of ushard_test.cpp).
RangeFromKeyIsComplete ==
    flushed => \A e \in ToSet(added), max \in SliceKeys :
                  e.key <= max => Rebuilds(range(e.key, max), Between(added, e.key, max))

\* Every value is in one leaf.
NothingSplit ==
    \A i \in 1..Len(w.file) : w.file[i].leaf => \A e \in ToSet(w.file[i].entries) : e.eor

Leaves == {node.entries : node \in {n \in ToSet(w.file) : n.leaf /\ n.entries # <<>>}}

\* The keys of no leaf reach over min, and there are leaves before and after it.
BetweenLeaves(min) ==
    /\ \A leaf \in Leaves : Last(leaf).key < min \/ min < leaf[1].key
    /\ \E before, after \in Leaves : Last(before).key < min /\ min < after[1].key

\* In a slice in which no value had to be split a query between any two keys, be they
\* in the slice or not, gives all of the range and nothing outside of it, whatever
\* the index levels: it starts at the first key not before min, in the leaf that has
\* it.  Only from a min that falls between the last key of a leaf and the first of
\* the next one it gives nothing (slice::find_node_for).
RangesComplete ==
    flushed /\ NothingSplit =>
        \A min, max \in SliceKeys :
            min <= max =>
                IF BetweenLeaves(min) THEN range(min, max) = <<>>
                ELSE Rebuilds(range(min, max), Between(added, min, max))

=============================================================================
