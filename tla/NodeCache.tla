------------------------------ MODULE NodeCache ------------------------------
(***************************************************************************)
(* tyrdbs::cache, the cache of decompressed nodes, between the writers     *)
(* that put every node they store into it and the readers of committed     *)
(* slices that load what is missing.                                       *)
(*                                                                         *)
(* A node is its link to the next one.  In the file the link follows the   *)
(* node and is written with the next node; in memory the writer sets it in *)
(* the node object that it shares with the cache.  A key is a slice and a  *)
(* location in it.                                                         *)
(***************************************************************************)
EXTENDS WTinyLfu

CONSTANTS
    Slices,
    NodeReaders,    \* threads that read
    MaxNodes,       \* bound: nodes of a slice
    MaxRefs         \* bound: references to a latch that failed loads leave behind

ASSUME NodesAssumption == MaxNodes \in Nat /\ MaxRefs \in Nat

VARIABLES
    nodes,          \* __cache
    loads,          \* __latch: ref_count of each latched key
    file,           \* the links in the file of each slice, in stored order
    slices,         \* how far each slice is
    loading,        \* the key that each reader loads
    got,            \* ghost: the node that each reader got last, and its key
    refused         \* an assertion failed

nodeVars == <<nodes, loads, file, slices, loading, got, refused>>

Invalid == 0            \* location::invalid_size
Unset == MaxNodes + 1   \* the link of a node object before set_next
NoKey == <<>>
NodeKeys == Slices \X (1..MaxNodes)

NodeCacheInit ==
    /\ nodes = EmptyLists
    /\ loads = <<>>
    /\ file = [s \in Slices |-> <<>>]
    /\ slices = [s \in Slices |-> "written"]
    /\ loading = [r \in NodeReaders |-> NoKey]
    /\ got = [r \in NodeReaders |-> [key |-> NoKey, next |-> Invalid]]
    /\ refused = FALSE

-----------------------------------------------------------------------------
(* Writers *)

\* node::set_next on the object of a node, which the cache may still hold.
set_next(c, key, next) ==
    IF key \in Cached(c) THEN [c EXCEPT !.item[key] = next] ELSE c

\* slice_writer::store, on a cache and the links of a file: the node before
\* gets its link in the file and in memory, and the new one goes to the cache.
Linked(links, next) == IF links = <<>> THEN links ELSE [links EXCEPT ![Len(links)] = next]

store(c, links, s) ==
    LET location == Len(links) + 1
    IN {e.cache : e \in Set(set_next(c, <<s, Len(links)>>, location), <<s, location>>, Unset)}

Store(s) ==
    /\ slices[s] = "written" /\ Len(file[s]) + 2 < MaxNodes /\ ~refused
    /\ nodes' \in store(nodes, file[s], s)
    /\ file' = [file EXCEPT ![s] = Append(Linked(file[s], Len(file[s]) + 1), Unset)]
    /\ UNCHANGED <<loads, slices, loading, got, refused>>

\* Mutant: in memory the last data node stays linked to the index node.
EndLinks_OnlyRoot(c, s, leaf) == set_next(c, <<s, leaf + 1>>, Invalid)

\* last_data_node->set_next and m_last_node->set_next.
EndLinks(c, s, leaf) == set_next(set_next(c, <<s, leaf>>, Invalid), <<s, leaf + 1>>, Invalid)

\* slice_writer::flush: the last data node, whose link in the file is invalid,
\* then the root; then commit, with nobody else in between that knows the slice.
Flush(s) ==
    /\ slices[s] = "written" /\ Len(file[s]) + 2 <= MaxNodes /\ ~refused
    /\ LET leaf == Len(file[s]) + 1
           links == Append(Linked(file[s], leaf), Invalid)
       IN /\ \E c \in store(nodes, file[s], s) : \E d \in store(c, links, s) :
                nodes' = EndLinks(d, s, leaf)
          /\ file' = [file EXCEPT ![s] = Append(links, Invalid)]
    /\ slices' = [slices EXCEPT ![s] = "committed"]
    /\ UNCHANGED <<loads, loading, got, refused>>

-----------------------------------------------------------------------------
(* Readers: cache::get *)

NodesLatched == DOMAIN loads
LatchNode(key, refs) == [k \in NodesLatched \cup {key} |-> IF k = key THEN refs ELSE loads[k]]

UnlatchNode(key) == [k \in NodesLatched \ {key} |-> loads[k]]

Readable(key) == slices[key[1]] = "committed" /\ key[2] <= Len(file[key[1]])

HitNode(r, key) ==
    /\ loading[r] = NoKey /\ Readable(key) /\ key \in Cached(nodes) /\ ~refused
    /\ nodes' = touch(nodes, key)
    /\ got' = [got EXCEPT ![r] = [key |-> key, next |-> nodes.item[key]]]
    /\ UNCHANGED <<loads, file, slices, loading, refused>>

\* latch::acquire gives the empty value to everybody, since nobody sets it: each
\* reader that misses loads the node itself, and none waits.
MissNode(r, key) ==
    /\ loading[r] = NoKey /\ Readable(key) /\ key \notin Cached(nodes) /\ ~refused
    /\ loads' = LatchNode(key, IF key \in NodesLatched THEN loads[key] + 1 ELSE 1)
    /\ loading' = [loading EXCEPT ![r] = key]
    /\ UNCHANGED <<nodes, file, slices, got, refused>>

\* latch::remove.
IsLast(key) == loads[key] = 1

\* load returns: release, for which nobody waits, remove, and the last one adds
\* the node.
LoadDone(r) ==
    /\ loading[r] # NoKey /\ ~refused
    /\ LET key == loading[r]
           next == file[key[1]][key[2]]
       IN /\ got' = [got EXCEPT ![r] = [key |-> key, next |-> next]]
          /\ loads' = IF loads[key] = 1 THEN UnlatchNode(key) ELSE LatchNode(key, loads[key] - 1)
          /\ nodes' \in IF IsLast(key) /\ key \notin Cached(nodes)
                        THEN {e.cache : e \in Set(nodes, key, next)} ELSE {nodes}
          /\ refused' = (IsLast(key) /\ key \in Cached(nodes))
    /\ loading' = [loading EXCEPT ![r] = NoKey]
    /\ UNCHANGED <<file, slices>>

\* load throws, for a bad checksum or a disk error: the reference stays.
LoadFails(r) ==
    /\ loading[r] # NoKey /\ ~refused
    /\ loads[loading[r]] < MaxRefs
    /\ loading' = [loading EXCEPT ![r] = NoKey]
    /\ UNCHANGED <<nodes, loads, file, slices, got, refused>>

NodeCacheNext ==
    \/ \E s \in Slices : Store(s) \/ Flush(s)
    \/ \E r \in NodeReaders :
          \/ \E key \in NodeKeys : HitNode(r, key) \/ MissNode(r, key)
          \/ LoadDone(r) \/ LoadFails(r)

NodeCacheSpec == NodeCacheInit /\ [][NodeCacheNext]_nodeVars

-----------------------------------------------------------------------------
(* Properties *)

\* A reader gets a node with the link that its file has, whether the node comes
\* from the disk or is the object that the writer left in the cache: iterating
\* a slice right after its commit reads the same nodes as much later.
NodesLinkedAsInFile ==
    \A r \in NodeReaders : LET key == got[r].key
                           IN key # NoKey => got[r].next = file[key[1]][key[2]]
=============================================================================
