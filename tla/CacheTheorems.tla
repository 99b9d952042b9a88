----------------------------- MODULE CacheTheorems -----------------------------
(***************************************************************************)
(* What wtinylfu and storage::cache do to their lists, their map and their *)
(* pages, whatever the sketch says of two keys: the lemmas that the proofs *)
(* about readers and writers of pages share.  K is the set of cache keys.  *)
(***************************************************************************)
EXTENDS PageCache, ListTheorems

(* The lists of a cache. *)

ListFields == {"window", "a1", "a2", "item"}

\* Three lists that hold the keys M once each, within their limits.
Lists(K, w, a, b, M) ==
    /\ w \in Seq(K) /\ a \in Seq(K) /\ b \in Seq(K)
    /\ IsInjective(w) /\ IsInjective(a) /\ IsInjective(b)
    /\ ToSet(w) \cap ToSet(a) = {} /\ ToSet(w) \cap ToSet(b) = {} /\ ToSet(a) \cap ToSet(b) = {}
    /\ ToSet(w) \cup ToSet(a) \cup ToSet(b) = M
    /\ Len(w) <= WindowMax /\ Len(a) <= A1Max /\ Len(b) <= A2Max

ListsOK(K, c) == Lists(K, c.window, c.a1, c.a2, Cached(c))

Mapped(c) == {c.item[k] : k \in Cached(c)}
Owned(c) == c.free \cup Mapped(c)

\* A cache of pages.
CacheOK(K, c) ==
    /\ DOMAIN c = ListFields \cup {"free"}
    /\ ListsOK(K, c)
    /\ c.free \subseteq Pages
    /\ PagesMatchMap(c)

-----------------------------------------------------------------------------
(* What the operations of wtinylfu do to the map. *)

LEMMA UnmapItems ==
    ASSUME NEW c, ListFields \subseteq DOMAIN c, NEW key
    PROVE  /\ DOMAIN Unmap(c, key) = DOMAIN c
           /\ Unmap(c, key).item = [k \in Cached(c) \ {key} |-> c.item[k]]
           /\ \A f \in DOMAIN c : f # "item" => Unmap(c, key)[f] = c[f]
    BY DEF Unmap, ListFields

\* d has the items of some of the keys of c.
FewerItems(d, c) ==
    /\ ListFields \subseteq DOMAIN d
    /\ Cached(d) \subseteq Cached(c)
    /\ \A k \in Cached(d) : d.item[k] = c.item[k]

LEMMA FewerItemsTransitive ==
    ASSUME NEW c, NEW d, NEW e, FewerItems(d, c), FewerItems(e, d)
    PROVE  FewerItems(e, c)
    BY DEF FewerItems

LEMMA WindowToA1Items ==
    ASSUME NEW c, ListFields \subseteq DOMAIN c
    PROVE  FewerItems(WindowToA1(c), c)
    BY DEF WindowToA1, FewerItems, ListFields, Cached

LEMMA EvictItems ==
    ASSUME NEW c, ListFields \subseteq DOMAIN c
    PROVE  FewerItems(EvictWindow(c).cache, c) /\ FewerItems(EvictA1(c).cache, c)
    <1>1. ASSUME NEW d, ListFields \subseteq DOMAIN d, d.item = c.item, NEW key
          PROVE  FewerItems(Unmap(d, key), c)
        <2> DEFINE u == Unmap(d, key)
        <2>1. DOMAIN u = DOMAIN d /\ u.item = [k \in Cached(d) \ {key} |-> d.item[k]]
            BY <1>1, UnmapItems
        <2> HIDE DEF u
        <2>2. FewerItems(u, c)
            BY <1>1, <2>1 DEF FewerItems, Cached
        <2> QED BY <2>2 DEF u
    <1>2. /\ ListFields \subseteq DOMAIN [c EXCEPT !.window = Front(@)]
          /\ [c EXCEPT !.window = Front(@)].item = c.item
        BY DEF ListFields
    <1>3. /\ ListFields \subseteq DOMAIN [c EXCEPT !.a1 = Front(@)]
          /\ [c EXCEPT !.a1 = Front(@)].item = c.item
        BY DEF ListFields
    <1> QED BY <1>1, <1>2, <1>3 DEF EvictWindow, EvictA1

LEMMA EvictIfNecessaryItems ==
    ASSUME NEW c, ListFields \subseteq DOMAIN c, NEW e \in evict_if_necessary(c)
    PROVE  FewerItems(e.cache, c)
    <1>1. CASE e = [cache |-> c, old |-> NoItem]
        BY <1>1 DEF FewerItems
    <1>2. CASE e = [cache |-> WindowToA1(c), old |-> NoItem]
        BY <1>2, WindowToA1Items
    <1>3. CASE e = [cache |-> WindowToA1(EvictA1(c).cache), old |-> EvictA1(c).old]
        <2>1. FewerItems(EvictA1(c).cache, c)
            BY EvictItems
        <2>2. FewerItems(WindowToA1(EvictA1(c).cache), EvictA1(c).cache)
            BY <2>1, WindowToA1Items DEF FewerItems
        <2> QED BY <1>3, <2>1, <2>2, FewerItemsTransitive
    <1>4. CASE e = EvictWindow(c)
        BY <1>4, EvictItems
    <1> QED BY <1>1, <1>2, <1>3, <1>4
            DEF evict_if_necessary, evict_worse_candidate, MoreFrequent

\* set: other keys may leave, none changes its item.
LEMMA SetItems ==
    ASSUME NEW c, ListFields \subseteq DOMAIN c, NEW key, NEW item, NEW o \in Set(c, key, item)
    PROVE  /\ ListFields \subseteq DOMAIN o.cache
           /\ Cached(o.cache) \subseteq Cached(c) \cup {key}
           /\ \A k \in Cached(o.cache) : o.cache.item[k] = IF k = key THEN item ELSE c.item[k]
    <1>1. PICK e \in evict_if_necessary(c) : o = [cache |-> create(e.cache, key, item), old |-> e.old]
        BY DEF Set
    <1> DEFINE d == o.cache
    <1>2. FewerItems(e.cache, c)
        BY EvictIfNecessaryItems
    <1>3. /\ ListFields \subseteq DOMAIN d
          /\ d.item = [k \in Cached(e.cache) \cup {key} |->
                          IF k = key THEN item ELSE e.cache.item[k]]
        BY <1>1, <1>2 DEF create, FewerItems, ListFields
    <1> HIDE DEF d
    <1>4. /\ Cached(d) \subseteq Cached(c) \cup {key}
          /\ \A k \in Cached(d) : d.item[k] = IF k = key THEN item ELSE c.item[k]
        BY <1>2, <1>3 DEF FewerItems, Cached
    <1> QED BY <1>3, <1>4 DEF d

LEMMA touchItems ==
    ASSUME NEW c, ListFields \subseteq DOMAIN c, NEW key
    PROVE  /\ DOMAIN touch(c, key) = DOMAIN c /\ touch(c, key).item = c.item
           /\ "free" \in DOMAIN c => touch(c, key).free = c.free
    BY DEF touch, ListFields

-----------------------------------------------------------------------------
(* What the operations of wtinylfu do to the lists. *)

LEMMA Limits == WindowMax \in Nat /\ A1Max \in Nat /\ A2Max \in Nat
    BY ListsAssumption

\* An element less, an element more.
LEMMA LengthBounds ==
    \A n, m \in Nat : /\ n <= m => n - 1 <= m /\ n - 1 < m
                      /\ n < m => n + 1 <= m
                      /\ n - 1 + 1 = n
    OBVIOUS

\* A key leaves a list.
LEMMA EvictLists ==
    ASSUME NEW K, NEW w, NEW a, NEW b, NEW M, Lists(K, w, a, b, M)
    PROVE  /\ w # <<>> => /\ Lists(K, Front(w), a, b, M \ {Last(w)}) /\ Last(w) \in M
                          /\ Len(Front(w)) < WindowMax
           /\ a # <<>> => /\ Lists(K, w, Front(a), b, M \ {Last(a)}) /\ Last(a) \in M
                          /\ Len(Front(a)) < A1Max
           /\ b # <<>> => Lists(K, w, a, Front(b), M \ {Last(b)}) /\ Last(b) \in M
    <1>0. Len(w) \in Nat /\ Len(a) \in Nat /\ Len(b) \in Nat
        BY LenProperties DEF Lists
    <1>1. ASSUME w # <<>>
          PROVE  /\ Lists(K, Front(w), a, b, M \ {Last(w)}) /\ Last(w) \in M
                 /\ Len(Front(w)) < WindowMax
        <2>1. /\ Front(w) \in Seq(K) /\ IsInjective(Front(w))
              /\ ToSet(Front(w)) = ToSet(w) \ {Last(w)} /\ Last(w) \in ToSet(w)
              /\ Len(Front(w)) = Len(w) - 1
            BY <1>1, FrontSet DEF Lists
        <2>2. Len(Front(w)) <= WindowMax /\ Len(Front(w)) < WindowMax
            BY <1>0, <2>1, LengthBounds, Limits DEF Lists
        <2> QED BY <2>1, <2>2 DEF Lists
    <1>2. ASSUME a # <<>>
          PROVE  /\ Lists(K, w, Front(a), b, M \ {Last(a)}) /\ Last(a) \in M
                 /\ Len(Front(a)) < A1Max
        <2>1. /\ Front(a) \in Seq(K) /\ IsInjective(Front(a))
              /\ ToSet(Front(a)) = ToSet(a) \ {Last(a)} /\ Last(a) \in ToSet(a)
              /\ Len(Front(a)) = Len(a) - 1
            BY <1>2, FrontSet DEF Lists
        <2>2. Len(Front(a)) <= A1Max /\ Len(Front(a)) < A1Max
            BY <1>0, <2>1, LengthBounds, Limits DEF Lists
        <2> QED BY <2>1, <2>2 DEF Lists
    <1>3. ASSUME b # <<>>
          PROVE  Lists(K, w, a, Front(b), M \ {Last(b)}) /\ Last(b) \in M
        <2>1. /\ Front(b) \in Seq(K) /\ IsInjective(Front(b))
              /\ ToSet(Front(b)) = ToSet(b) \ {Last(b)} /\ Last(b) \in ToSet(b)
              /\ Len(Front(b)) = Len(b) - 1
            BY <1>3, FrontSet DEF Lists
        <2>2. Len(Front(b)) <= A2Max
            BY <1>0, <2>1, LengthBounds, Limits DEF Lists
        <2> QED BY <2>1, <2>2 DEF Lists
    <1> QED BY <1>1, <1>2, <1>3

\* The oldest key of the window goes on trial.
LEMMA MoveLists ==
    ASSUME NEW K, NEW w, NEW a, NEW b, NEW M, Lists(K, w, a, b, M), w # <<>>, Len(a) < A1Max
    PROVE  /\ Lists(K, Front(w), <<Last(w)>> \o a, b, M)
           /\ Len(Front(w)) < WindowMax
    <1>0. Len(w) \in Nat /\ Len(a) \in Nat
        BY LenProperties DEF Lists
    <1>1. /\ Front(w) \in Seq(K) /\ IsInjective(Front(w))
          /\ ToSet(Front(w)) = ToSet(w) \ {Last(w)} /\ Last(w) \in ToSet(w) /\ Last(w) \in K
          /\ Len(Front(w)) = Len(w) - 1
        BY FrontSet DEF Lists
    <1>2. Len(Front(w)) <= WindowMax /\ Len(Front(w)) < WindowMax
        BY <1>0, <1>1, LengthBounds, Limits DEF Lists
    <1> DEFINE k == Last(w)
               n == <<k>> \o a
    <1>3. k \in K /\ k \notin ToSet(a)
        BY <1>1 DEF Lists
    <1>4. /\ n \in Seq(K) /\ ToSet(n) = {k} \cup ToSet(a) /\ IsInjective(n)
          /\ Len(n) = Len(a) + 1
        <2> HIDE DEF k
        <2> QED BY <1>3, ConsSet DEF Lists
    <1>5. Len(n) <= A1Max
        BY <1>0, <1>4, LengthBounds, Limits
    <1> HIDE DEF n
    <1>6. Lists(K, Front(w), n, b, M)
        BY <1>1, <1>2, <1>4, <1>5 DEF Lists
    <1> QED BY <1>2, <1>6 DEF n

\* A new key goes to the window.
LEMMA NewLists ==
    ASSUME NEW K, NEW w, NEW a, NEW b, NEW M, Lists(K, w, a, b, M), Len(w) < WindowMax,
           NEW key \in K \ M
    PROVE  Lists(K, <<key>> \o w, a, b, M \cup {key})
    <1> DEFINE n == <<key>> \o w
    <1>0. Len(w) \in Nat /\ key \notin ToSet(w)
        BY LenProperties DEF Lists
    <1>1. /\ n \in Seq(K) /\ ToSet(n) = {key} \cup ToSet(w) /\ IsInjective(n)
          /\ Len(n) = Len(w) + 1
        BY <1>0, ConsSet DEF Lists
    <1>2. Len(n) <= WindowMax
        BY <1>0, <1>1, LengthBounds, Limits
    <1> HIDE DEF n
    <1>3. Lists(K, n, a, b, M \cup {key})
        BY <1>1, <1>2 DEF Lists
    <1> QED BY <1>3 DEF n

\* A list whose element moves to its front holds the same, as often.
LEMMA FrontmostSet ==
    ASSUME NEW K, NEW l \in Seq(K), IsInjective(l), NEW key \in ToSet(l)
    PROVE  LET n == <<key>> \o RemoveFirst(l, key)
           IN  n \in Seq(K) /\ IsInjective(n) /\ ToSet(n) = ToSet(l) /\ Len(n) = Len(l)
    <1> DEFINE m == RemoveFirst(l, key)
               n == <<key>> \o m
    <1>1. /\ m \in Seq(K) /\ IsInjective(m) /\ ToSet(m) = ToSet(l) \ {key}
          /\ Len(m) = Len(l) - 1
        BY RemoveFirstSet
    <1>2. key \in K /\ Len(l) \in Nat
        BY InToSet, LenProperties
    <1> HIDE DEF m
    <1>3. n \in Seq(K) /\ ToSet(n) = {key} \cup ToSet(m) /\ IsInjective(n) /\ Len(n) = Len(m) + 1
        BY <1>1, <1>2, ConsSet
    <1>4. Len(n) = Len(l)
        BY <1>1, <1>2, <1>3
    <1> HIDE DEF n
    <1>5. n \in Seq(K) /\ IsInjective(n) /\ ToSet(n) = ToSet(l)
        BY <1>1, <1>3
    <1> QED BY <1>4, <1>5 DEF n, m

\* A cache with lists.
HasLists(K, c) == ListFields \subseteq DOMAIN c /\ ListsOK(K, c)

\* wtinylfu::touch.
LEMMA touchLists ==
    ASSUME NEW K, NEW c, HasLists(K, c), NEW key \in Cached(c)
    PROVE  ListsOK(K, touch(c, key))
    <1> DEFINE w == c.window
               a == c.a1
               b == c.a2
               M == Cached(c)
    <1>0. /\ Lists(K, w, a, b, M) /\ Len(a) \in Nat /\ Len(b) \in Nat
          /\ \A d : ListsOK(K, d) <=> Lists(K, d.window, d.a1, d.a2, DOMAIN d.item)
          /\ M = DOMAIN c.item
        BY LenProperties DEF HasLists, ListsOK, Lists, Cached
    <1>1. CASE key \in ToSet(w)
        <2> DEFINE n == <<key>> \o RemoveFirst(w, key)
                   d == [c EXCEPT !.window = n]
        <2>1. touch(c, key) = d /\ d.window = n /\ d.a1 = a /\ d.a2 = b /\ d.item = c.item
            BY <1>1 DEF touch, HasLists, ListFields
        <2>2. n \in Seq(K) /\ IsInjective(n) /\ ToSet(n) = ToSet(w) /\ Len(n) = Len(w)
            BY <1>0, <1>1, FrontmostSet DEF Lists
        <2> HIDE DEF n, d, w, a, b, M
        <2>3. Lists(K, n, a, b, M)
            BY <1>0, <2>2 DEF Lists
        <2> QED BY <1>0, <2>1, <2>3
    <1>2. CASE key \notin ToSet(w) /\ key \in ToSet(b)
        <2> DEFINE n == <<key>> \o RemoveFirst(b, key)
                   d == [c EXCEPT !.a2 = n]
        <2>1. touch(c, key) = d /\ d.window = w /\ d.a1 = a /\ d.a2 = n /\ d.item = c.item
            BY <1>2 DEF touch, HasLists, ListFields
        <2>2. n \in Seq(K) /\ IsInjective(n) /\ ToSet(n) = ToSet(b) /\ Len(n) = Len(b)
            BY <1>0, <1>2, FrontmostSet DEF Lists
        <2> HIDE DEF n, d, w, a, b, M
        <2>3. Lists(K, w, a, n, M)
            BY <1>0, <2>2 DEF Lists
        <2> QED BY <1>0, <2>1, <2>3
    <1>3. CASE key \notin ToSet(w) /\ key \notin ToSet(b)
        <2> DEFINE ra == RemoveFirst(a, key)
        <2>1. key \in ToSet(a) /\ key \in K
            BY <1>0, <1>3, InToSet DEF Lists
        <2>2. /\ ra \in Seq(K) /\ IsInjective(ra) /\ ToSet(ra) = ToSet(a) \ {key}
              /\ Len(ra) = Len(a) - 1
            BY <1>0, <2>1, RemoveFirstSet DEF Lists
        <2>3. CASE Len(b) = A2Max
            <3> DEFINE l == Last(b)
                       f == Front(b)
                       na == <<l>> \o ra
                       nb == <<key>> \o f
                       d == [c EXCEPT !.a1 = na, !.a2 = nb]
            <3>1. touch(c, key) = d /\ d.window = w /\ d.a1 = na /\ d.a2 = nb /\ d.item = c.item
                BY <1>3, <2>3 DEF touch, HasLists, ListFields
            <3>2. b # <<>>
                BY <1>0, <2>3, ListsAssumption, EmptySeq DEF Lists
            <3>3. /\ f \in Seq(K) /\ IsInjective(f) /\ ToSet(f) = ToSet(b) \ {l}
                  /\ l \in ToSet(b) /\ l \in K /\ Len(f) = Len(b) - 1
                BY <1>0, <3>2, FrontSet DEF Lists
            <3> HIDE DEF l, f, w, a, b, M, ra
            <3>4. l \notin ToSet(ra) /\ key \notin ToSet(f)
                BY <1>0, <1>3, <2>2, <3>3 DEF Lists
            <3>5. na \in Seq(K) /\ ToSet(na) = {l} \cup ToSet(ra) /\ IsInjective(na) /\ Len(na) = Len(ra) + 1
                BY <2>2, <3>3, <3>4, ConsSet
            <3>6. nb \in Seq(K) /\ ToSet(nb) = {key} \cup ToSet(f) /\ IsInjective(nb) /\ Len(nb) = Len(f) + 1
                BY <2>1, <3>3, <3>4, ConsSet
            <3>7. Len(na) = Len(a) /\ Len(nb) = Len(b)
                BY <1>0, <2>2, <3>3, <3>5, <3>6, LengthBounds
            <3> HIDE DEF na, nb, d
            <3>8. ToSet(w) \cap ToSet(na) = {} /\ ToSet(w) \cap ToSet(nb) = {} /\ ToSet(na) \cap ToSet(nb) = {}
                BY <1>0, <1>3, <2>2, <3>3, <3>5, <3>6 DEF Lists
            <3>9. ToSet(w) \cup ToSet(na) \cup ToSet(nb) = M
                BY <1>0, <2>1, <2>2, <3>3, <3>5, <3>6 DEF Lists
            <3>10. Lists(K, w, na, nb, M)
                BY <1>0, <3>5, <3>6, <3>7, <3>8, <3>9 DEF Lists
            <3> QED BY <1>0, <3>1, <3>10
        <2>4. CASE Len(b) # A2Max
            <3> DEFINE nb == <<key>> \o b
                       d == [c EXCEPT !.a1 = ra, !.a2 = nb]
            <3>1. touch(c, key) = d /\ d.window = w /\ d.a1 = ra /\ d.a2 = nb /\ d.item = c.item
                BY <1>3, <2>4 DEF touch, HasLists, ListFields
            <3> HIDE DEF w, a, b, M, ra
            <3>2. nb \in Seq(K) /\ ToSet(nb) = {key} \cup ToSet(b) /\ IsInjective(nb) /\ Len(nb) = Len(b) + 1
                BY <1>0, <1>3, <2>1, ConsSet DEF Lists
            <3>3. Len(b) <= A2Max /\ Len(a) <= A1Max
                BY <1>0 DEF Lists
            <3>4. Len(ra) <= A1Max /\ Len(nb) <= A2Max
                BY <1>0, <2>2, <2>4, <3>2, <3>3, LengthBounds, Limits
            <3> HIDE DEF nb, d
            <3>5. Lists(K, w, ra, nb, M)
                BY <1>0, <1>3, <2>1, <2>2, <3>2, <3>4 DEF Lists
            <3> QED BY <1>0, <3>1, <3>5
        <2> QED BY <2>3, <2>4
    <1> QED BY <1>1, <1>2, <1>3

\* An outcome of an eviction from c: nothing left, or one key and its item.
Evicted(K, c, e) ==
    /\ DOMAIN e.cache = DOMAIN c /\ ListsOK(K, e.cache)
    /\ "free" \in DOMAIN c => e.cache.free = c.free
    /\ \/ e.old = NoItem /\ e.cache.item = c.item
       \/ \E k \in Cached(c) :
             e.old = c.item[k] /\ e.cache.item = [l \in Cached(c) \ {k} |-> c.item[l]]

\* A key k leaves the lists, which become w, a and b, and the map.
LEMMA LeavesCache ==
    ASSUME NEW K, NEW c, ListFields \subseteq DOMAIN c, NEW k \in Cached(c), NEW d,
           DOMAIN d = DOMAIN c, d.item = c.item, "free" \in DOMAIN c => d.free = c.free,
           Lists(K, d.window, d.a1, d.a2, Cached(c) \ {k})
    PROVE  /\ Evicted(K, c, [cache |-> Unmap(d, k), old |-> c.item[k]])
           /\ Unmap(d, k).window = d.window /\ Unmap(d, k).a1 = d.a1 /\ Unmap(d, k).a2 = d.a2
    <1> DEFINE u == Unmap(d, k)
               e == [cache |-> u, old |-> c.item[k]]
    <1>1. /\ DOMAIN u = DOMAIN d /\ u.item = [l \in Cached(d) \ {k} |-> d.item[l]]
          /\ \A f \in DOMAIN d : f # "item" => u[f] = d[f]
        BY UnmapItems
    <1>2. e.cache = u /\ e.old = c.item[k]
        OBVIOUS
    <1> HIDE DEF u, e
    <1>3. u.window = d.window /\ u.a1 = d.a1 /\ u.a2 = d.a2
        BY <1>1 DEF ListFields
    <1>4. "free" \in DOMAIN c => u.free = c.free
        BY <1>1
    <1>5. u.item = [l \in Cached(c) \ {k} |-> c.item[l]] /\ Cached(u) = Cached(c) \ {k}
        BY <1>1 DEF Cached
    <1>6. ListsOK(K, u)
        BY <1>3, <1>5 DEF ListsOK
    <1>7. Evicted(K, c, e)
        BY <1>1, <1>2, <1>4, <1>5, <1>6 DEF Evicted
    <1> QED BY <1>3, <1>7 DEF u, e

LEMMA EvictWindowOK ==
    ASSUME NEW K, NEW c, HasLists(K, c), c.window # <<>>
    PROVE  Evicted(K, c, EvictWindow(c)) /\ Len(EvictWindow(c).cache.window) < WindowMax
    <1> DEFINE d == [c EXCEPT !.window = Front(@)]
               k == Last(c.window)
    <1>1. /\ ListFields \subseteq DOMAIN c /\ DOMAIN d = DOMAIN c /\ d.item = c.item
          /\ d.window = Front(c.window) /\ d.a1 = c.a1 /\ d.a2 = c.a2
          /\ "free" \in DOMAIN c => d.free = c.free
        BY DEF HasLists, ListFields
    <1>2. /\ Lists(K, Front(c.window), c.a1, c.a2, Cached(c) \ {k}) /\ k \in Cached(c)
          /\ Len(Front(c.window)) < WindowMax
        BY EvictLists DEF HasLists, ListsOK
    <1>3. EvictWindow(c) = [cache |-> Unmap(d, k), old |-> c.item[k]]
        BY DEF EvictWindow
    <1> HIDE DEF d, k
    <1>4. Evicted(K, c, [cache |-> Unmap(d, k), old |-> c.item[k]]) /\ Unmap(d, k).window = d.window
        <2>1. Lists(K, d.window, d.a1, d.a2, Cached(c) \ {k}) /\ k \in Cached(c)
            BY <1>1, <1>2
        <2>2. /\ ListFields \subseteq DOMAIN c /\ DOMAIN d = DOMAIN c /\ d.item = c.item
              /\ "free" \in DOMAIN c => d.free = c.free
            BY <1>1
        <2> QED BY ONLY <2>1, <2>2, LeavesCache
    <1> QED BY <1>1, <1>2, <1>3, <1>4

LEMMA EvictA1OK ==
    ASSUME NEW K, NEW c, HasLists(K, c), c.a1 # <<>>
    PROVE  /\ Evicted(K, c, EvictA1(c)) /\ Len(EvictA1(c).cache.a1) < A1Max
           /\ EvictA1(c).cache.window = c.window
    <1> DEFINE d == [c EXCEPT !.a1 = Front(@)]
               k == Last(c.a1)
    <1>1. /\ ListFields \subseteq DOMAIN c /\ DOMAIN d = DOMAIN c /\ d.item = c.item
          /\ d.window = c.window /\ d.a1 = Front(c.a1) /\ d.a2 = c.a2
          /\ "free" \in DOMAIN c => d.free = c.free
        BY DEF HasLists, ListFields
    <1>2. /\ Lists(K, c.window, Front(c.a1), c.a2, Cached(c) \ {k}) /\ k \in Cached(c)
          /\ Len(Front(c.a1)) < A1Max
        BY EvictLists DEF HasLists, ListsOK
    <1>3. EvictA1(c) = [cache |-> Unmap(d, k), old |-> c.item[k]]
        BY DEF EvictA1
    <1> HIDE DEF d, k
    <1>4. /\ Evicted(K, c, [cache |-> Unmap(d, k), old |-> c.item[k]])
          /\ Unmap(d, k).window = d.window /\ Unmap(d, k).a1 = d.a1
        <2>1. Lists(K, d.window, d.a1, d.a2, Cached(c) \ {k}) /\ k \in Cached(c)
            BY <1>1, <1>2
        <2>2. /\ ListFields \subseteq DOMAIN c /\ DOMAIN d = DOMAIN c /\ d.item = c.item
              /\ "free" \in DOMAIN c => d.free = c.free
            BY <1>1
        <2> QED BY ONLY <2>1, <2>2, LeavesCache
    <1> QED BY <1>1, <1>2, <1>3, <1>4

LEMMA EvictA2OK ==
    ASSUME NEW K, NEW c, HasLists(K, c), c.a2 # <<>>
    PROVE  Evicted(K, c, EvictA2(c))
    <1> DEFINE d == [c EXCEPT !.a2 = Front(@)]
               k == Last(c.a2)
    <1>1. /\ ListFields \subseteq DOMAIN c /\ DOMAIN d = DOMAIN c /\ d.item = c.item
          /\ d.window = c.window /\ d.a1 = c.a1 /\ d.a2 = Front(c.a2)
          /\ "free" \in DOMAIN c => d.free = c.free
        BY DEF HasLists, ListFields
    <1>2. Lists(K, c.window, c.a1, Front(c.a2), Cached(c) \ {k}) /\ k \in Cached(c)
        BY EvictLists DEF HasLists, ListsOK
    <1>3. EvictA2(c) = [cache |-> Unmap(d, k), old |-> c.item[k]]
        BY DEF EvictA2
    <1> HIDE DEF d, k
    <1>4. Evicted(K, c, [cache |-> Unmap(d, k), old |-> c.item[k]])
        BY <1>1, <1>2, LeavesCache
    <1> QED BY <1>3, <1>4

LEMMA WindowToA1OK ==
    ASSUME NEW K, NEW c, HasLists(K, c), c.window # <<>>, Len(c.a1) < A1Max
    PROVE  /\ DOMAIN WindowToA1(c) = DOMAIN c /\ ListsOK(K, WindowToA1(c))
           /\ "free" \in DOMAIN c => WindowToA1(c).free = c.free
           /\ WindowToA1(c).item = c.item
           /\ Len(WindowToA1(c).window) < WindowMax
    <1> DEFINE d == WindowToA1(c)
    <1>1. /\ DOMAIN d = DOMAIN c /\ d.item = c.item /\ d.window = Front(c.window)
          /\ d.a1 = <<Last(c.window)>> \o c.a1 /\ d.a2 = c.a2
          /\ "free" \in DOMAIN c => d.free = c.free
        BY DEF HasLists, ListFields, WindowToA1
    <1>2. /\ Lists(K, Front(c.window), <<Last(c.window)>> \o c.a1, c.a2, Cached(c))
          /\ Len(Front(c.window)) < WindowMax
        BY MoveLists DEF HasLists, ListsOK
    <1> HIDE DEF d
    <1>3. ListsOK(K, d)
        BY <1>1, <1>2 DEF ListsOK, Cached
    <1> QED BY <1>1, <1>2, <1>3 DEF d

\* The candidate that was used less often leaves, and there is room in the window.
LEMMA WorseCandidateOK ==
    ASSUME NEW K, NEW c, HasLists(K, c), c.window # <<>>, c.a1 # <<>>, NEW e \in evict_worse_candidate(c)
    PROVE  Evicted(K, c, e) /\ Len(e.cache.window) < WindowMax
    <1> DEFINE x == EvictA1(c)
               y == [cache |-> WindowToA1(x.cache), old |-> x.old]
    <1>1. e = y \/ e = EvictWindow(c)
        BY DEF evict_worse_candidate, MoreFrequent
    <1>2. CASE e = EvictWindow(c)
        BY <1>2, EvictWindowOK
    <1>3. CASE e = y
        <2>1. Evicted(K, c, x) /\ Len(x.cache.a1) < A1Max /\ x.cache.window = c.window
            BY EvictA1OK
        <2>2. HasLists(K, x.cache)
            BY <2>1 DEF Evicted, HasLists
        <2> HIDE DEF x
        <2>3. /\ DOMAIN WindowToA1(x.cache) = DOMAIN x.cache /\ ListsOK(K, WindowToA1(x.cache))
              /\ "free" \in DOMAIN x.cache => WindowToA1(x.cache).free = x.cache.free
              /\ WindowToA1(x.cache).item = x.cache.item
              /\ Len(WindowToA1(x.cache).window) < WindowMax
            BY <2>1, <2>2, WindowToA1OK
        <2>4. e.cache = WindowToA1(x.cache) /\ e.old = x.old
            BY <1>3
        <2> QED BY <2>1, <2>3, <2>4 DEF Evicted
    <1> QED BY <1>1, <1>2, <1>3

LEMMA EvictIfNecessaryOK ==
    ASSUME NEW K, NEW c, HasLists(K, c), NEW e \in evict_if_necessary(c)
    PROVE  Evicted(K, c, e) /\ Len(e.cache.window) < WindowMax
    <1>0. Len(c.window) \in Nat /\ Len(c.a1) \in Nat
        BY LenProperties DEF HasLists, ListsOK, Lists
    <1>1. CASE Len(c.window) < WindowMax
        <2>1. e = [cache |-> c, old |-> NoItem]
            BY <1>1 DEF evict_if_necessary
        <2> QED BY <1>1, <2>1 DEF Evicted, HasLists
    <1>2. CASE ~(Len(c.window) < WindowMax)
        <2>1. c.window # <<>>
            BY <1>0, <1>2, ListsAssumption
        <2>2. CASE Len(c.a1) < A1Max
            <3>1. e = [cache |-> WindowToA1(c), old |-> NoItem]
                BY <1>2, <2>2 DEF evict_if_necessary
            <3>2. /\ DOMAIN WindowToA1(c) = DOMAIN c /\ ListsOK(K, WindowToA1(c))
                  /\ "free" \in DOMAIN c => WindowToA1(c).free = c.free
                  /\ WindowToA1(c).item = c.item
                  /\ Len(WindowToA1(c).window) < WindowMax
                BY <2>1, <2>2, WindowToA1OK
            <3>3. e.cache = WindowToA1(c) /\ e.old = NoItem
                BY <3>1
            <3> QED BY <3>2, <3>3 DEF Evicted
        <2>3. CASE ~(Len(c.a1) < A1Max)
            <3>1. c.a1 # <<>>
                BY <1>0, <2>3, ListsAssumption
            <3>2. e \in evict_worse_candidate(c)
                BY <1>2, <2>3 DEF evict_if_necessary
            <3> QED BY <2>1, <3>1, <3>2, WorseCandidateOK
        <2> QED BY <2>2, <2>3
    <1> QED BY <1>1, <1>2

LEMMA EvictOK ==
    ASSUME NEW K, NEW c, HasLists(K, c), NEW e \in evict(c)
    PROVE  Evicted(K, c, e)
    <1>1. CASE c.window # <<>> /\ c.a1 # <<>>
        <2>1. e \in evict_worse_candidate(c)
            BY <1>1 DEF evict
        <2> QED BY <1>1, <2>1, WorseCandidateOK
    <1>2. CASE c.window # <<>> /\ c.a1 = <<>>
        <2>1. e = EvictWindow(c)
            BY <1>2 DEF evict
        <2> QED BY <1>2, <2>1, EvictWindowOK
    <1>3. CASE c.window = <<>> /\ c.a1 # <<>>
        <2>1. e = EvictA1(c)
            BY <1>3 DEF evict
        <2> QED BY <1>3, <2>1, EvictA1OK
    <1>4. CASE c.window = <<>> /\ c.a1 = <<>> /\ c.a2 # <<>>
        <2>1. e = EvictA2(c)
            BY <1>4 DEF evict
        <2> QED BY <1>4, <2>1, EvictA2OK
    <1>5. CASE c.window = <<>> /\ c.a1 = <<>> /\ c.a2 = <<>>
        <2>1. e = [cache |-> c, old |-> NoItem]
            BY <1>5 DEF evict
        <2> QED BY <2>1 DEF Evicted, HasLists
    <1> QED BY <1>1, <1>2, <1>3, <1>4, <1>5

-----------------------------------------------------------------------------
(* storage::cache *)

\* d owns the pages P and has the items of some of the keys of c.
KeepsPages(K, d, c, P) ==
    /\ CacheOK(K, d) /\ Owned(d) = P
    /\ Cached(d) \subseteq Cached(c)
    /\ \A k \in Cached(d) : d.item[k] = c.item[k]

LEMMA CacheHasLists ==
    ASSUME NEW K, NEW c, CacheOK(K, c)
    PROVE  HasLists(K, c) /\ "free" \in DOMAIN c /\ ListFields \subseteq DOMAIN c
    BY DEF CacheOK, HasLists, ListFields

\* The fields of a cache decide whether it is one.
LEMMA CacheFields ==
    ASSUME NEW K, NEW c, NEW d, CacheOK(K, c), DOMAIN d = DOMAIN c,
           d.window = c.window, d.a1 = c.a1, d.a2 = c.a2, d.item = c.item,
           NEW F, d.free = F, F \subseteq Pages, F \cap Mapped(c) = {}
    PROVE  CacheOK(K, d) /\ Cached(d) = Cached(c) /\ Mapped(d) = Mapped(c)
    <1>1. Cached(d) = Cached(c) /\ Mapped(d) = Mapped(c)
        BY DEF Cached, Mapped
    <1>2. ListsOK(K, d) /\ d.free \subseteq Pages /\ DOMAIN d = ListFields \cup {"free"}
        BY <1>1 DEF CacheOK, ListsOK
    <1>3. PagesMatchMap(d)
        BY <1>1 DEF CacheOK, PagesMatchMap, Mapped
    <1> QED BY <1>1, <1>2, <1>3 DEF CacheOK

LEMMA FreePageOK ==
    ASSUME NEW K, NEW c, CacheOK(K, c), NEW page \in Pages, page \notin Mapped(c)
    PROVE  /\ CacheOK(K, FreePage(c, page)) /\ Owned(FreePage(c, page)) = Owned(c) \cup {page}
           /\ FreePage(c, page).item = c.item
    <1> DEFINE d == FreePage(c, page)
               F == c.free \cup {page}
    <1>1. page # NoPage
        BY PagesAssumption DEF NoPage
    <1>2. /\ DOMAIN d = DOMAIN c /\ d.window = c.window /\ d.a1 = c.a1 /\ d.a2 = c.a2
          /\ d.item = c.item /\ d.free = F
        BY <1>1 DEF FreePage, CacheOK, ListFields
    <1>3. F \subseteq Pages /\ F \cap Mapped(c) = {}
        BY DEF CacheOK, PagesMatchMap, Mapped
    <1>4. d.free = c.free \cup {page}
        BY <1>2
    <1> HIDE DEF d, F
    <1>5. CacheOK(K, d) /\ Mapped(d) = Mapped(c)
        BY <1>2, <1>3, CacheFields
    <1> QED BY <1>2, <1>4, <1>5 DEF d, Owned

\* An eviction, and the page of the key that left is free.
LEMMA MadeRoomOK ==
    ASSUME NEW K, NEW c, CacheOK(K, c), NEW e, Evicted(K, c, e)
    PROVE  KeepsPages(K, FreePage(e.cache, e.old), c, Owned(c))
    <1> DEFINE m == FreePage(e.cache, e.old)
    <1>0. "free" \in DOMAIN c /\ DOMAIN e.cache = DOMAIN c /\ e.cache.free = c.free /\ ListsOK(K, e.cache)
        BY CacheHasLists DEF Evicted
    <1>1. /\ DOMAIN m = DOMAIN c /\ m.window = e.cache.window /\ m.a1 = e.cache.a1
          /\ m.a2 = e.cache.a2 /\ m.item = e.cache.item /\ m.free = c.free \cup ({e.old} \ {NoPage})
        BY <1>0 DEF FreePage, CacheOK, ListFields
    <1> HIDE DEF m
    <1>2. ListsOK(K, m) /\ DOMAIN m = ListFields \cup {"free"}
        BY <1>0, <1>1 DEF ListsOK, Cached, CacheOK
    <1>3. CASE e.old = NoItem /\ e.cache.item = c.item
        <2>1. m.free = c.free /\ m.item = c.item
            BY <1>1, <1>3 DEF NoPage
        <2>2. PagesMatchMap(m) /\ m.free \subseteq Pages /\ Owned(m) = Owned(c)
            BY <2>1 DEF CacheOK, PagesMatchMap, Owned, Mapped, Cached
        <2> QED BY <1>2, <2>1, <2>2 DEF KeepsPages, CacheOK, Cached, m
    <1>4. ASSUME NEW k \in Cached(c), e.old = c.item[k],
                 e.cache.item = [l \in Cached(c) \ {k} |-> c.item[l]]
          PROVE  KeepsPages(K, m, c, Owned(c))
        <2>1. e.old \in Pages /\ e.old # NoPage /\ e.old \in Mapped(c) /\ e.old \notin c.free
            BY <1>4, PagesAssumption DEF CacheOK, PagesMatchMap, Mapped, NoPage
        <2>2. m.free = c.free \cup {e.old}
            BY <1>1, <2>1
        <2>3. /\ Cached(m) = Cached(c) \ {k}
              /\ \A l \in Cached(m) : m.item[l] = c.item[l] /\ m.item[l] # e.old
            BY <1>1, <1>4 DEF Cached, CacheOK, PagesMatchMap
        <2>4. PagesMatchMap(m) /\ m.free \subseteq Pages
            BY <2>1, <2>2, <2>3 DEF CacheOK, PagesMatchMap
        <2>5. Mapped(c) = Mapped(m) \cup {e.old}
            BY <1>4, <2>3 DEF Mapped
        <2>6. Owned(m) = Owned(c)
            BY <2>2, <2>5 DEF Owned
        <2> QED BY <1>2, <2>3, <2>4, <2>6 DEF KeepsPages, CacheOK
    <1> QED BY <1>3, <1>4 DEF Evicted, m

\* cache::allocate gives a page that is in the cache no more.
LEMMA AllocateOK ==
    ASSUME NEW K, NEW c, CacheOK(K, c), NEW o \in CacheAllocate(c)
    PROVE  /\ o.page \in Owned(c) /\ o.page \in Pages
           /\ KeepsPages(K, o.cache, c, Owned(c) \ {o.page})
    <1> DEFINE made == IF c.free # {} THEN {c} ELSE {FreePage(e.cache, e.old) : e \in evict(c)}
    <1>1. PICK m \in made : \E page \in m.free :
                o = [cache |-> [m EXCEPT !.free = @ \ {page}], page |-> page]
        BY DEF CacheAllocate
    <1>2. PICK page \in m.free : o = [cache |-> [m EXCEPT !.free = @ \ {page}], page |-> page]
        BY <1>1
    <1>3. KeepsPages(K, m, c, Owned(c))
        <2>1. CASE m = c
            BY <2>1 DEF KeepsPages
        <2>2. ASSUME NEW e \in evict(c), m = FreePage(e.cache, e.old)
              PROVE  KeepsPages(K, m, c, Owned(c))
            <3>1. Evicted(K, c, e)
                BY CacheHasLists, EvictOK
            <3> QED BY <2>2, <3>1, MadeRoomOK
        <2> QED BY <2>1, <2>2
    <1> HIDE DEF made
    <1> DEFINE n == [m EXCEPT !.free = @ \ {page}]
               F == m.free \ {page}
    <1>4. o.cache = n /\ o.page = page
        BY <1>2
    <1>5. /\ CacheOK(K, m) /\ Owned(m) = Owned(c) /\ Cached(m) \subseteq Cached(c)
          /\ \A k \in Cached(m) : m.item[k] = c.item[k]
        BY <1>3 DEF KeepsPages
    <1>6. /\ DOMAIN n = DOMAIN m /\ n.window = m.window /\ n.a1 = m.a1 /\ n.a2 = m.a2
          /\ n.item = m.item /\ n.free = F
        BY <1>5 DEF CacheOK, ListFields
    <1>7. F \subseteq Pages /\ m.free \cap Mapped(m) = {} /\ page \in Pages
        BY <1>5 DEF CacheOK, PagesMatchMap, Mapped
    <1>8. F \cap Mapped(m) = {} /\ F = m.free \ {page}
        BY <1>7
    <1> HIDE DEF n, F
    <1>9. CacheOK(K, n) /\ Cached(n) = Cached(m) /\ Mapped(n) = Mapped(m)
        BY <1>5, <1>6, <1>7, <1>8, CacheFields
    <1>10. Owned(n) = Owned(c) \ {page} /\ page \in Owned(c)
        BY <1>5, <1>6, <1>7, <1>8, <1>9 DEF Owned
    <1>11. KeepsPages(K, n, c, Owned(c) \ {page})
        BY <1>5, <1>6, <1>9, <1>10 DEF KeepsPages
    <1> QED BY <1>4, <1>7, <1>10, <1>11

\* cache::add takes a page in.
LEMMA AddOK ==
    ASSUME NEW K, NEW c, CacheOK(K, c), NEW key \in K \ Cached(c), NEW page \in Pages \ Owned(c),
           NEW d \in CacheAdd(c, key, page)
    PROVE  /\ CacheOK(K, d) /\ Owned(d) = Owned(c) \cup {page}
           /\ Cached(d) \subseteq Cached(c) \cup {key}
           /\ \A k \in Cached(d) : d.item[k] = IF k = key THEN page ELSE c.item[k]
    <1>1. PICK o \in Set(c, key, page) : d = FreePage(o.cache, o.old)
        BY DEF CacheAdd
    <1>2. PICK e \in evict_if_necessary(c) :
                o = [cache |-> create(e.cache, key, page), old |-> e.old]
        BY DEF Set
    <1>3. d = FreePage(create(e.cache, key, page), e.old)
        BY <1>1, <1>2
    <1>4. Evicted(K, c, e) /\ Len(e.cache.window) < WindowMax
        BY CacheHasLists, EvictIfNecessaryOK
    <1>5. KeepsPages(K, FreePage(e.cache, e.old), c, Owned(c))
        BY <1>4, MadeRoomOK
    <1> DEFINE m == FreePage(e.cache, e.old)
               new == <<key>> \o e.cache.window
    <1>6. /\ DOMAIN e.cache = ListFields \cup {"free"} /\ e.cache.free = c.free
        BY <1>4, CacheHasLists DEF Evicted, CacheOK
    <1>7. /\ m.window = e.cache.window /\ m.a1 = e.cache.a1 /\ m.a2 = e.cache.a2
          /\ m.item = e.cache.item /\ m.free = c.free \cup ({e.old} \ {NoPage})
        BY <1>6 DEF FreePage, ListFields
    <1>8. /\ DOMAIN d = ListFields \cup {"free"}
          /\ d.window = <<key>> \o e.cache.window /\ d.a1 = e.cache.a1 /\ d.a2 = e.cache.a2
          /\ d.item = [k \in Cached(e.cache) \cup {key} |->
                          IF k = key THEN page ELSE e.cache.item[k]]
          /\ d.free = c.free \cup ({e.old} \ {NoPage})
        BY <1>3, <1>6 DEF FreePage, create, ListFields
    <1> HIDE DEF m
    <1>9. CacheOK(K, m) /\ Owned(m) = Owned(c) /\ Cached(m) \subseteq Cached(c)
        BY <1>5 DEF KeepsPages, m
    <1>10. /\ Cached(m) = Cached(e.cache) /\ Cached(d) = Cached(m) \cup {key} /\ key \notin Cached(m)
           /\ d.free = m.free /\ d.window = <<key>> \o m.window /\ d.a1 = m.a1 /\ d.a2 = m.a2
           /\ \A k \in Cached(d) : d.item[k] = IF k = key THEN page ELSE m.item[k]
        BY <1>7, <1>8, <1>9 DEF Cached
    <1>11. \A k \in Cached(m) : m.item[k] = c.item[k]
        BY <1>5 DEF KeepsPages, m
    <1>12. ListsOK(K, d)
        <2>1. Lists(K, m.window, m.a1, m.a2, Cached(m)) /\ Len(m.window) < WindowMax
            BY <1>4, <1>7, <1>9 DEF CacheOK, ListsOK
        <2>2. Lists(K, <<key>> \o m.window, m.a1, m.a2, Cached(m) \cup {key})
            BY <1>10, <2>1, NewLists
        <2>3. Lists(K, d.window, d.a1, d.a2, Cached(d))
            BY <1>10, <2>2
        <2> QED BY <2>3 DEF ListsOK
    <1>13. page \notin m.free /\ page \notin Mapped(m)
        BY <1>9 DEF Owned
    <1>14. PagesMatchMap(d) /\ d.free \subseteq Pages
        BY <1>9, <1>10, <1>13 DEF CacheOK, PagesMatchMap, Mapped
    <1>15. Mapped(d) = Mapped(m) \cup {page}
        <2>1. ASSUME NEW x \in Mapped(d) PROVE x \in Mapped(m) \cup {page}
            BY <1>10, <2>1 DEF Mapped
        <2>2. page \in Mapped(d)
            BY <1>10 DEF Mapped
        <2>3. ASSUME NEW x \in Mapped(m) PROVE x \in Mapped(d)
            <3>1. PICK k \in Cached(m) : x = m.item[k]
                BY <2>3 DEF Mapped
            <3>2. k \in Cached(d) /\ d.item[k] = x
                BY <1>10, <3>1
            <3> QED BY <3>2 DEF Mapped
        <2> QED BY <2>1, <2>2, <2>3
    <1>16. Owned(d) = Owned(c) \cup {page}
        BY <1>9, <1>10, <1>15 DEF Owned
    <1>17. /\ Cached(d) \subseteq Cached(c) \cup {key}
           /\ \A k \in Cached(d) : d.item[k] = IF k = key THEN page ELSE c.item[k]
        BY <1>9, <1>10, <1>11
    <1>18. CacheOK(K, d)
        BY <1>8, <1>12, <1>14 DEF CacheOK
    <1> QED BY <1>16, <1>17, <1>18

LEMMA touchOK ==
    ASSUME NEW K, NEW c, CacheOK(K, c), NEW key \in Cached(c)
    PROVE  /\ CacheOK(K, touch(c, key)) /\ Owned(touch(c, key)) = Owned(c)
           /\ touch(c, key).item = c.item
    <1> DEFINE d == touch(c, key)
    <1>1. HasLists(K, c) /\ "free" \in DOMAIN c /\ ListFields \subseteq DOMAIN c
        BY CacheHasLists
    <1>2. DOMAIN d = DOMAIN c /\ d.item = c.item /\ d.free = c.free
        BY <1>1, touchItems
    <1>3. ListsOK(K, d)
        BY <1>1, touchLists
    <1> HIDE DEF d
    <1>4. CacheOK(K, d)
        BY <1>2, <1>3 DEF CacheOK, PagesMatchMap, Cached
    <1>5. Owned(d) = Owned(c)
        BY <1>2 DEF Owned, Mapped, Cached
    <1> QED BY <1>2, <1>4, <1>5 DEF d

LEMMA ListsMatch ==
    ASSUME NEW K, NEW c, ListsOK(K, c)
    PROVE  ListsMatchMap(c)
    <1> DEFINE w == c.window
               a == c.a1
               b == c.a2
               m == w \o a
    <1>1. Lists(K, w, a, b, Cached(c))
        BY DEF ListsOK
    <1> HIDE DEF w, a, b
    <1>2. m \in Seq(K) /\ ToSet(m) = ToSet(w) \cup ToSet(a) /\ IsInjective(m)
        BY <1>1, ConcatSet DEF Lists
    <1> HIDE DEF m
    <1>3. ToSet(m) \cap ToSet(b) = {} /\ b \in Seq(K) /\ IsInjective(b)
        BY <1>1, <1>2 DEF Lists
    <1>4. ToSet(m \o b) = ToSet(m) \cup ToSet(b) /\ IsInjective(m \o b)
        BY <1>2, <1>3, ConcatSet
    <1>5. ToSet(m \o b) = Cached(c)
        BY <1>1, <1>2, <1>4 DEF Lists
    <1>6. Len(w) <= WindowMax /\ Len(a) <= A1Max /\ Len(b) <= A2Max
        BY <1>1 DEF Lists
    <1> QED BY <1>4, <1>5, <1>6 DEF ListsMatchMap, m, w, a, b

\* As many in S as in T, when f takes each element of S to one of its own in T.
LEMMA SameSize ==
    ASSUME NEW S, NEW T, IsFiniteSet(T), NEW f \in [S -> T],
           \A x, y \in S : f[x] = f[y] => x = y, \A t \in T : \E x \in S : f[x] = t
    PROVE  Cardinality(S) = Cardinality(T)
    <1>1. f \in Injection(S, T) /\ f \in Surjection(S, T)
        BY DEF Injection, Surjection, IsInjective
    <1> QED BY <1>1, FS_Injection
================================================================================
