------------------------------ MODULE PageCache ------------------------------
(***************************************************************************)
(* storage::cache: a fixed set of memory pages and a wtinylfu that maps    *)
(* cache keys to the pages that hold their data.  A page that is neither   *)
(* free nor in the map belongs to whoever allocated it, a reader that      *)
(* fills it or a writer whose data is not on disk yet.                     *)
(***************************************************************************)
EXTENDS WTinyLfu

CONSTANT Pages      \* memory pages, at least 2^7 in the code

\* cache::cache gives wtinylfu as many items as it has pages; invalid_handle is
\* none of them.
ASSUME PagesAssumption ==
    /\ IsFiniteSet(Pages) /\ Cardinality(Pages) = WindowMax + A1Max + A2Max
    /\ NoItem \notin Pages

NoPage == NoItem        \* invalid_handle

EmptyCache == [window |-> <<>>, a1 |-> <<>>, a2 |-> <<>>, item |-> <<>>, free |-> Pages]

FreePage(c, page) == [c EXCEPT !.free = @ \cup ({page} \ {NoPage})]

\* Mutant: the page of the key that made room is forgotten.
CacheAdd_ForgetsOld(c, key, page) == {e.cache : e \in Set(c, key, page)}

\* cache::add: the page of an evicted key is free.
CacheAdd(c, key, page) == {FreePage(e.cache, e.old) : e \in Set(c, key, page)}

\* cache::allocate, with the page it gives; no outcome when the slabs have
\* none to give, where the code fails an assertion.
CacheAllocate(c) ==
    LET made == IF c.free # {} THEN {c} ELSE {FreePage(e.cache, e.old) : e \in evict(c)}
    IN UNION {{[cache |-> [m EXCEPT !.free = @ \ {page}], page |-> page] : page \in m.free}
              : m \in made}

\* No two keys have the same page, nor a free one.
PagesMatchMap(c) ==
    /\ \A k \in Cached(c) : c.item[k] \in Pages \ c.free
    /\ \A k, l \in Cached(c) : c.item[k] = c.item[l] => k = l
=============================================================================
