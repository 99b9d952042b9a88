------------------------------- MODULE WTinyLfu -------------------------------
(***************************************************************************)
(* wtinylfu, the cache that storage::cache and tyrdbs::cache are made of:  *)
(* a window for new keys and a main part of two lists, a1 for keys on      *)
(* trial and a2 for keys that were used again.                             *)
(*                                                                         *)
(* A cache is a record with its three lists, most recently used key first, *)
(* and the item of each key.  Operations that ask which of two keys was    *)
(* used more often give the set of their outcomes.                         *)
(***************************************************************************)
EXTENDS Naturals, Sequences, SequencesExt, FiniteSets

CONSTANTS
    WindowMax,      \* m_window.max_items
    A1Max,          \* m_main_a1.max_items
    A2Max           \* m_main_a2.max_items

\* The constructor divides max_items, at least 100, among the lists.
ASSUME ListsAssumption == WindowMax \in Nat \ {0} /\ A1Max \in Nat \ {0} /\ A2Max \in Nat \ {0}

NoItem == "no item"     \* m_empty_item

EmptyLists == [window |-> <<>>, a1 |-> <<>>, a2 |-> <<>>, item |-> <<>>]

Cached(c) == DOMAIN c.item

\* erase from m_map.
Unmap(c, key) == [c EXCEPT !.item = [k \in Cached(c) \ {key} |-> c.item[k]]]

\* wtinylfu::touch.  A key of a1 goes to a2; when a2 is full, the last of a2
\* comes back to a1.
touch(c, key) ==
    IF key \in ToSet(c.window) THEN [c EXCEPT !.window = <<key>> \o RemoveFirst(@, key)]
    ELSE IF key \in ToSet(c.a2) THEN [c EXCEPT !.a2 = <<key>> \o RemoveFirst(@, key)]
    ELSE LET a1 == RemoveFirst(c.a1, key)
         IN IF Len(c.a2) = A2Max
            THEN [c EXCEPT !.a1 = <<Last(c.a2)>> \o a1, !.a2 = <<key>> \o Front(@)]
            ELSE [c EXCEPT !.a1 = a1, !.a2 = <<key>> \o @]

\* The oldest key of a list leaves, and its item with it.
EvictWindow(c) ==
    [cache |-> Unmap([c EXCEPT !.window = Front(@)], Last(c.window)),
     old |-> c.item[Last(c.window)]]
EvictA1(c) ==
    [cache |-> Unmap([c EXCEPT !.a1 = Front(@)], Last(c.a1)), old |-> c.item[Last(c.a1)]]
EvictA2(c) ==
    [cache |-> Unmap([c EXCEPT !.a2 = Front(@)], Last(c.a2)), old |-> c.item[Last(c.a2)]]

WindowToA1(c) == [c EXCEPT !.window = Front(@), !.a1 = <<Last(c.window)>> \o @]

\* frequency(it1->key) > frequency(it2->key), of two different keys: the sketch
\* counts hashes in a few bits and halves its counts, so either can come out.
MoreFrequent == BOOLEAN

\* The candidate that was used less often is evicted.
evict_worse_candidate(c) ==
    {IF more THEN [cache |-> WindowToA1(EvictA1(c).cache), old |-> EvictA1(c).old]
     ELSE EvictWindow(c) : more \in MoreFrequent}

evict_if_necessary(c) ==
    IF Len(c.window) < WindowMax THEN {[cache |-> c, old |-> NoItem]}
    ELSE IF Len(c.a1) < A1Max THEN {[cache |-> WindowToA1(c), old |-> NoItem]}
    ELSE evict_worse_candidate(c)

evict(c) ==
    IF c.window # <<>> /\ c.a1 # <<>> THEN evict_worse_candidate(c)
    ELSE IF c.window # <<>> THEN {EvictWindow(c)}
    ELSE IF c.a1 # <<>> THEN {EvictA1(c)}
    ELSE IF c.a2 # <<>> THEN {EvictA2(c)}
    ELSE {[cache |-> c, old |-> NoItem]}

\* wtinylfu::create, for a key that is in no list.
create(c, key, item) ==
    [c EXCEPT !.window = <<key>> \o @,
              !.item = [k \in Cached(c) \cup {key} |-> IF k = key THEN item ELSE c.item[k]]]

\* wtinylfu::set, with the item that had to leave; the code asserts that the
\* key is not there.
Set(c, key, item) ==
    {[cache |-> create(e.cache, key, item), old |-> e.old] : e \in evict_if_necessary(c)}

-----------------------------------------------------------------------------
(* Properties of a cache *)

\* The lists and the map hold the same keys, each once, and no list is longer
\* than its limit (the assertions of wtinylfu.h:34).
ListsMatchMap(c) ==
    /\ IsInjective(c.window \o c.a1 \o c.a2)
    /\ ToSet(c.window \o c.a1 \o c.a2) = Cached(c)
    /\ Len(c.window) <= WindowMax /\ Len(c.a1) <= A1Max /\ Len(c.a2) <= A2Max
=============================================================================
