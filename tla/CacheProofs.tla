----------------------------- MODULE CacheProofs -----------------------------
(***************************************************************************)
(* Proofs about the page cache and the node cache, for every number of     *)
(* pages, keys and threads: no page is in two places, a reader gets what   *)
(* it asked for, the release of a latch reaches everybody who waits for    *)
(* it, and a node has the link that its file has.                          *)
(***************************************************************************)
EXTENDS DiskReader, NodeCache, CacheTheorems

(* The inductive invariant of DiskReader. *)

Places == {"idle", "reading", "waiting", "woken"}

LatchRecords == [ref_count : Nat \ {0}, released : BOOLEAN, page : Pages]

ReaderTypes ==
    /\ memory \in [Pages -> Keys \cup {Nothing}]
    /\ readers \in [Readers -> [at : Places, key : Keys \cup {Nothing}, page : Pages \cup {NoPage}]]
    /\ dirty \in [Writers -> Pages \cup {NoPage}]
    /\ Latched \subseteq Keys
    /\ \A k \in Latched : latch[k] \in LatchRecords
    /\ DOMAIN result = Readers
    /\ aborted \in BOOLEAN

LatchedPages == {latch[k].page : k \in Latched}
HeldPages == {dirty[wr] : wr \in Writers} \ {NoPage}

\* A page is free, in the map, latched or held, and in one of them only.
PagePlaces ==
    /\ CacheOK(Keys, cache)
    /\ Pages = Owned(cache) \cup LatchedPages \cup HeldPages
    /\ LatchedPages \cap Owned(cache) = {}
    /\ HeldPages \cap (Owned(cache) \cup LatchedPages) = {}
    /\ \A k, l \in Latched : latch[k].page = latch[l].page => k = l
    /\ \A v, w \in Writers : dirty[v] # NoPage /\ dirty[v] = dirty[w] => v = w

\* A key is in the cache or latched, not both, and what its page holds is known
\* when it is in the cache or its latch is released.
DataInPlace ==
    /\ Cached(cache) \cap Latched = {}
    /\ \A k \in Cached(cache) : memory[cache.item[k]] = k
    /\ \A k \in Latched : latch[k].released => memory[latch[k].page] = k

Using(k) == {r \in Readers : readers[r].at # "idle" /\ readers[r].key = k}

\* Whoever reads or waits has a reference to a latch, with its page, and a page
\* has one reader.
ReadersHoldLatches ==
    /\ \A r \in Readers : readers[r].at # "idle" =>
          /\ readers[r].key \in Latched
          /\ latch[readers[r].key].page = readers[r].page
          /\ latch[readers[r].key].released <=> readers[r].at = "woken"
    /\ \A q, r \in Readers :
          readers[q].at = "reading" /\ readers[r].at = "reading"
             /\ readers[q].key = readers[r].key => q = r
    /\ \A k \in Latched : Cardinality(Using(k)) <= latch[k].ref_count

ReaderInv == ReaderTypes /\ PagePlaces /\ DataInPlace /\ ReadersHoldLatches /\ ReadsOwnPage

-----------------------------------------------------------------------------
(* The inductive invariant of NodeCache. *)

NodeTypes ==
    /\ file \in [Slices -> Seq(Nat)]
    /\ slices \in [Slices -> {"written", "committed"}]
    /\ loading \in [NodeReaders -> NodeKeys \cup {NoKey}]
    /\ got \in [NodeReaders -> [key : NodeKeys \cup {NoKey}, next : Nat]]
    /\ ListFields \subseteq DOMAIN nodes

\* The links of the cached nodes of the slices are those of the files.
LinksAsIn(c, f) ==
    \A k \in Cached(c) :
        /\ k \in Slices \X Nat
        /\ k[2] \in 1 .. Len(f[k[1]])
        /\ c.item[k] = f[k[1]][k[2]]

\* Nodes are read from committed slices, whose links do not change any more.
ReadCommitted ==
    /\ \A r \in NodeReaders : loading[r] # NoKey => Readable(loading[r])
    /\ \A r \in NodeReaders : got[r].key # NoKey =>
          /\ Readable(got[r].key)
          /\ got[r].next = file[got[r].key[1]][got[r].key[2]]

NodeInv == NodeTypes /\ LinksAsIn(nodes, file) /\ ReadCommitted

-----------------------------------------------------------------------------
(* NodeCache *)

LEMMA set_nextItems ==
    ASSUME NEW c, ListFields \subseteq DOMAIN c, NEW key, NEW next
    PROVE  /\ ListFields \subseteq DOMAIN set_next(c, key, next)
           /\ Cached(set_next(c, key, next)) = Cached(c)
           /\ \A k \in Cached(c) :
                 set_next(c, key, next).item[k] = IF k = key THEN next ELSE c.item[k]
    BY DEF set_next, ListFields, Cached

\* The links of a file that gets another node, with the link y; the node before
\* gets the link x.
LEMMA LinkedShape ==
    ASSUME NEW links \in Seq(Nat), NEW x \in Nat, NEW y \in Nat
    PROVE  LET new == Append(Linked(links, x), y)
           IN  /\ new \in Seq(Nat)
               /\ Len(new) = Len(links) + 1
               /\ \A i \in 1 .. Len(links) : new[i] = IF i = Len(links) THEN x ELSE links[i]
               /\ new[Len(links) + 1] = y
    <1> DEFINE l == Linked(links, x)
    <1>1. Len(links) \in Nat /\ DOMAIN links = 1 .. Len(links) /\ links \in [1 .. Len(links) -> Nat]
        BY LenProperties
    <1>2. /\ l \in Seq(Nat) /\ Len(l) = Len(links)
          /\ \A i \in 1 .. Len(links) : l[i] = IF i = Len(links) THEN x ELSE links[i]
        <2>1. CASE links = <<>>
            BY <2>1, EmptySeq DEF Linked
        <2>2. CASE links # <<>>
            <3>1. l = [links EXCEPT ![Len(links)] = x]
                BY <2>2 DEF Linked
            <3>2. l \in [1 .. Len(links) -> Nat]
                BY <1>1, <3>1
            <3>3. l \in Seq(Nat) /\ Len(l) = Len(links)
                BY <1>1, <3>2, SeqDef, LenProperties
            <3> QED BY <1>1, <3>1, <3>3
        <2> QED BY <2>1, <2>2
    <1> HIDE DEF l
    <1>3. /\ Append(l, y) \in Seq(Nat) /\ Len(Append(l, y)) = Len(l) + 1
          /\ \A i \in 1 .. Len(l) : Append(l, y)[i] = l[i]
          /\ Append(l, y)[Len(l) + 1] = y
        BY <1>2, AppendProperties
    <1> QED BY <1>2, <1>3 DEF l

\* d is c with the node new and with the link next of the node last, but perhaps
\* without some others.
Stored(c, d, last, new, next) ==
    /\ ListFields \subseteq DOMAIN d
    /\ Cached(d) \subseteq Cached(c) \cup {new}
    /\ \A k \in Cached(d) :
          d.item[k] = IF k = new THEN Unset ELSE IF k = last THEN next ELSE c.item[k]

\* slice_writer::store links the node before and adds the new one.
LEMMA StoreItems ==
    ASSUME NEW c, ListFields \subseteq DOMAIN c, NEW links, NEW s, NEW d \in store(c, links, s)
    PROVE  Stored(c, d, <<s, Len(links)>>, <<s, Len(links) + 1>>, Len(links) + 1)
    <1> DEFINE next == Len(links) + 1
               last == <<s, Len(links)>>
               new == <<s, next>>
               m == set_next(c, last, next)
    <1>1. PICK e \in Set(m, new, Unset) : d = e.cache
        BY DEF store
    <1> HIDE DEF next, last, new
    <1>2. /\ ListFields \subseteq DOMAIN m
          /\ Cached(m) = Cached(c)
          /\ \A k \in Cached(c) : m.item[k] = IF k = last THEN next ELSE c.item[k]
        BY set_nextItems
    <1> HIDE DEF m
    <1>3. /\ ListFields \subseteq DOMAIN e.cache
          /\ Cached(e.cache) \subseteq Cached(m) \cup {new}
          /\ \A k \in Cached(e.cache) : e.cache.item[k] = IF k = new THEN Unset ELSE m.item[k]
        BY <1>2, SetItems
    <1>4. Stored(c, d, last, new, next)
        BY <1>1, <1>2, <1>3 DEF Stored
    <1> QED BY <1>4 DEF new, last, next

\* g is f with another node of s, linked to nothing yet.
OneMoreNode(f, g, s) ==
    LET n == Len(f[s])
    IN  /\ g \in [Slices -> Seq(Nat)] /\ Len(g[s]) = n + 1
        /\ \A i \in 1 .. n : g[s][i] = IF i = n THEN n + 1 ELSE f[s][i]
        /\ g[s][n + 1] = Unset
        /\ \A t \in Slices : t # s => g[t] = f[t]

LEMMA OneMoreNodeShape ==
    ASSUME NEW f \in [Slices -> Seq(Nat)], NEW s \in Slices
    PROVE  OneMoreNode(f, [f EXCEPT ![s] = Append(Linked(f[s], Len(f[s]) + 1), Unset)], s)
    <1> DEFINE links == f[s]
               next == Len(links) + 1
               new == Append(Linked(links, next), Unset)
    <1>1. links \in Seq(Nat) /\ Len(links) \in Nat /\ next \in Nat /\ Unset \in Nat
        BY LenProperties, NodesAssumption DEF Unset
    <1>2. /\ new \in Seq(Nat) /\ Len(new) = Len(links) + 1
          /\ \A i \in 1 .. Len(links) : new[i] = IF i = Len(links) THEN next ELSE links[i]
          /\ new[Len(links) + 1] = Unset
        <2> HIDE DEF links, next
        <2> QED BY <1>1, LinkedShape
    <1> HIDE DEF new
    <1>3. OneMoreNode(f, [f EXCEPT ![s] = new], s)
        BY <1>1, <1>2 DEF OneMoreNode
    <1> QED BY <1>3 DEF new

\* It keeps the cache and the file alike.
LEMMA StoreLinks ==
    ASSUME NEW c, ListFields \subseteq DOMAIN c, NEW f \in [Slices -> Seq(Nat)], LinksAsIn(c, f),
           NEW s \in Slices, NEW links, Len(links) = Len(f[s]), NEW d \in store(c, links, s),
           NEW g, OneMoreNode(f, g, s)
    PROVE  ListFields \subseteq DOMAIN d /\ LinksAsIn(d, g)
    <1> DEFINE n == Len(f[s])
    <1>1. n \in Nat /\ n + 1 \in Nat
        BY LenProperties
    <1>2. /\ Len(g[s]) = n + 1
          /\ \A i \in 1 .. n : g[s][i] = IF i = n THEN n + 1 ELSE f[s][i]
          /\ g[s][n + 1] = Unset
        BY DEF OneMoreNode
    <1>3. \A t \in Slices : t # s => g[t] = f[t]
        BY DEF OneMoreNode
    <1>6. /\ ListFields \subseteq DOMAIN d
          /\ Cached(d) \subseteq Cached(c) \cup {<<s, n + 1>>}
          /\ \A k \in Cached(d) :
                d.item[k] = IF k = <<s, n + 1>> THEN Unset
                            ELSE IF k = <<s, n>> THEN n + 1 ELSE c.item[k]
        <2>1. Stored(c, d, <<s, Len(links)>>, <<s, Len(links) + 1>>, Len(links) + 1)
            BY StoreItems
        <2> QED BY <2>1 DEF Stored
    <1> HIDE DEF n
    <1>7. ASSUME NEW k \in Cached(d)
          PROVE  /\ k \in Slices \X Nat
                 /\ k[2] \in 1 .. Len(g[k[1]])
                 /\ d.item[k] = g[k[1]][k[2]]
        <2>1. CASE k = <<s, n + 1>>
            <3>1. k[1] = s /\ k[2] = n + 1 /\ k \in Slices \X Nat
                BY <1>1, <2>1
            <3>2. n + 1 \in 1 .. n + 1
                BY <1>1
            <3> QED BY <1>2, <1>6, <2>1, <3>1, <3>2
        <2>2. CASE k # <<s, n + 1>>
            <3>1. /\ k \in Cached(c) /\ k \in Slices \X Nat /\ k[2] \in 1 .. Len(f[k[1]])
                  /\ c.item[k] = f[k[1]][k[2]]
                BY <1>6, <2>2 DEF LinksAsIn
            <3>2. d.item[k] = IF k = <<s, n>> THEN n + 1 ELSE c.item[k]
                BY <1>6, <2>2
            <3>3. CASE k[1] # s
                <4>1. k # <<s, n>>
                    BY <3>3
                <4> QED BY <1>3, <3>1, <3>2, <3>3, <4>1
            <3>4. CASE k[1] = s
                <4>1. k[2] \in 1 .. n /\ (k = <<s, n>> <=> k[2] = n)
                    BY <3>1, <3>4 DEF n
                <4>2. k[2] \in 1 .. n + 1
                    BY <1>1, <4>1
                <4>3. d.item[k] = g[s][k[2]]
                    BY <1>2, <3>1, <3>2, <3>4, <4>1
                <4> QED BY <1>2, <3>1, <3>4, <4>2, <4>3
            <3> QED BY <3>3, <3>4
        <2> QED BY <2>1, <2>2
    <1> QED BY <1>6, <1>7 DEF LinksAsIn

\* g is f with the link x of the node n of s.
OneLinkSet(f, g, s, n, x) ==
    /\ g \in [Slices -> Seq(Nat)] /\ Len(g[s]) = Len(f[s])
    /\ \A i \in 1 .. Len(f[s]) : g[s][i] = IF i = n THEN x ELSE f[s][i]
    /\ \A t \in Slices : t # s => g[t] = f[t]

LEMMA OneLinkSetShape ==
    ASSUME NEW f \in [Slices -> Seq(Nat)], NEW s \in Slices, NEW n \in 1 .. Len(f[s]), NEW x \in Nat
    PROVE  OneLinkSet(f, [f EXCEPT ![s][n] = x], s, n, x)
    <1> DEFINE h == [f[s] EXCEPT ![n] = x]
    <1>1. Len(f[s]) \in Nat /\ DOMAIN f[s] = 1 .. Len(f[s]) /\ f[s] \in [1 .. Len(f[s]) -> Nat]
        BY LenProperties
    <1>2. h \in [1 .. Len(f[s]) -> Nat] /\ \A i \in 1 .. Len(f[s]) : h[i] = IF i = n THEN x ELSE f[s][i]
        BY <1>1
    <1>3. h \in Seq(Nat) /\ Len(h) = Len(f[s])
        BY <1>1, <1>2, SeqDef, LenProperties
    <1> HIDE DEF h
    <1>4. OneLinkSet(f, [f EXCEPT ![s] = h], s, n, x)
        BY <1>2, <1>3 DEF OneLinkSet
    <1> QED BY <1>4 DEF h

\* node::set_next, in the cache and in the file.
LEMMA set_nextLinks ==
    ASSUME NEW c, ListFields \subseteq DOMAIN c, NEW f \in [Slices -> Seq(Nat)], LinksAsIn(c, f),
           NEW s \in Slices, NEW n \in 1 .. Len(f[s]), NEW x, NEW key, key = <<s, n>>,
           NEW g, OneLinkSet(f, g, s, n, x)
    PROVE  /\ ListFields \subseteq DOMAIN set_next(c, key, x)
           /\ LinksAsIn(set_next(c, key, x), g)
    <1> DEFINE d == set_next(c, key, x)
    <1>1. /\ ListFields \subseteq DOMAIN d
          /\ Cached(d) = Cached(c)
          /\ \A k \in Cached(c) : d.item[k] = IF k = key THEN x ELSE c.item[k]
        BY set_nextItems, SMTT(30)
    <1> HIDE DEF d
    <1>2. ASSUME NEW k \in Cached(d)
          PROVE  /\ k \in Slices \X Nat
                 /\ k[2] \in 1 .. Len(g[k[1]])
                 /\ d.item[k] = g[k[1]][k[2]]
        <2>1. /\ k \in Cached(c) /\ k \in Slices \X Nat /\ k[2] \in 1 .. Len(f[k[1]])
              /\ c.item[k] = f[k[1]][k[2]]
            BY <1>1, <1>2 DEF LinksAsIn
        <2>2. k = key <=> k[1] = s /\ k[2] = n
            BY <2>1
        <2>3. CASE k[1] = s
            BY <1>1, <2>1, <2>2, <2>3 DEF OneLinkSet
        <2>4. CASE k[1] # s
            BY <1>1, <2>1, <2>2, <2>4 DEF OneLinkSet
        <2> QED BY <2>3, <2>4
    <1>3. LinksAsIn(d, g)
        BY <1>2 DEF LinksAsIn
    <1> QED BY <1>1, <1>3 DEF d

\* slice_writer::flush stores two nodes and ends their links.
LEMMA FlushLinks ==
    ASSUME NodeTypes, LinksAsIn(nodes, file), NEW s \in Slices, Flush(s)
    PROVE  /\ ListFields \subseteq DOMAIN nodes' /\ LinksAsIn(nodes', file')
           /\ file' \in [Slices -> Seq(Nat)]
           /\ \A t \in Slices : t # s => file'[t] = file[t]
    <1> DEFINE n == Len(file[s])
               leaf == n + 1
               root == leaf + 1
               links == Append(Linked(file[s], leaf), Invalid)
               f == [file EXCEPT ![s] = Append(Linked(file[s], Len(file[s]) + 1), Unset)]
               g == [f EXCEPT ![s] = Append(Linked(f[s], Len(f[s]) + 1), Unset)]
               h == [g EXCEPT ![s][leaf] = Invalid]
               i == [h EXCEPT ![s][root] = Invalid]
    <1>1. PICK c \in store(nodes, file[s], s) : \E d \in store(c, links, s) :
                nodes' = EndLinks(d, s, leaf)
        BY DEF Flush
    <1>2. PICK d \in store(c, links, s) : nodes' = EndLinks(d, s, leaf)
        BY <1>1
    <1>3. file' = [file EXCEPT ![s] = Append(links, Invalid)]
        BY DEF Flush
    <1>4. /\ file \in [Slices -> Seq(Nat)] /\ ListFields \subseteq DOMAIN nodes
          /\ n \in Nat /\ leaf \in Nat /\ root \in Nat
          /\ leaf = n + 1 /\ root = leaf + 1
          /\ Unset \in Nat /\ Invalid \in Nat
        BY LenProperties, NodesAssumption DEF NodeTypes, Unset, Invalid
    <1>5. /\ links \in Seq(Nat) /\ Len(links) = leaf
          /\ \A j \in 1 .. n : links[j] = IF j = n THEN leaf ELSE file[s][j]
          /\ links[leaf] = Invalid
        BY <1>4, LinkedShape
    <1>6. nodes' = set_next(set_next(d, <<s, leaf>>, Invalid), <<s, root>>, Invalid)
        BY <1>2 DEF EndLinks
    <1>7. OneMoreNode(file, f, s)
        BY <1>4, OneMoreNodeShape
    <1> HIDE DEF f, root
    <1>8. f \in [Slices -> Seq(Nat)] /\ Len(f[s]) = leaf
        BY <1>7 DEF OneMoreNode
    <1>9. OneMoreNode(f, g, s)
        BY <1>8, OneMoreNodeShape
    <1> HIDE DEF g, leaf, n, links
    <1>10. g \in [Slices -> Seq(Nat)] /\ Len(g[s]) = root
        BY <1>4, <1>8, <1>9 DEF OneMoreNode
    <1>11. leaf \in 1 .. root /\ root \in 1 .. root
        BY <1>4
    <1>12. OneLinkSet(g, h, s, leaf, Invalid)
        BY <1>4, <1>10, <1>11, OneLinkSetShape
    <1> HIDE DEF h
    <1>13. h \in [Slices -> Seq(Nat)] /\ Len(h[s]) = root
        BY <1>10, <1>12 DEF OneLinkSet
    <1>14. OneLinkSet(h, i, s, root, Invalid)
        BY <1>4, <1>11, <1>13, OneLinkSetShape
    <1> HIDE DEF i
    <1>15. i \in [Slices -> Seq(Nat)] /\ Len(i[s]) = root
        BY <1>13, <1>14 DEF OneLinkSet
    <1>16. ListFields \subseteq DOMAIN c /\ LinksAsIn(c, f)
        BY <1>4, <1>7, StoreLinks
    <1>17. ListFields \subseteq DOMAIN d /\ LinksAsIn(d, g)
        BY <1>5, <1>8, <1>9, <1>16, StoreLinks
    <1> DEFINE kl == <<s, leaf>>
               kr == <<s, root>>
               e == set_next(d, kl, Invalid)
    <1>18. kl = <<s, leaf>> /\ kr = <<s, root>> /\ nodes' = set_next(e, kr, Invalid)
        BY <1>6
    <1> HIDE DEF kl, kr
    <1>19. ListFields \subseteq DOMAIN e /\ LinksAsIn(e, h)
        BY <1>10, <1>11, <1>12, <1>17, <1>18, set_nextLinks
    <1> HIDE DEF e
    <1>20. ListFields \subseteq DOMAIN nodes' /\ LinksAsIn(nodes', i)
        BY <1>11, <1>13, <1>14, <1>18, <1>19, set_nextLinks
    <1>21. /\ Append(links, Invalid) \in Seq(Nat) /\ Len(Append(links, Invalid)) = root
           /\ \A j \in 1 .. leaf : Append(links, Invalid)[j] = links[j]
           /\ Append(links, Invalid)[root] = Invalid
        BY <1>4, <1>5, AppendProperties
    <1>22. ASSUME NEW j \in 1 .. root PROVE i[s][j] = Append(links, Invalid)[j]
        <2>1. CASE j = root
            BY <1>13, <1>14, <1>21, <2>1 DEF OneLinkSet
        <2>2. CASE j = leaf
            <3>1. leaf \in 1 .. leaf /\ leaf # root
                BY <1>4, <2>2
            <3>2. i[s][leaf] = h[s][leaf]
                BY <1>11, <1>13, <1>14, <3>1 DEF OneLinkSet
            <3>3. h[s][leaf] = Invalid
                BY <1>10, <1>11, <1>12 DEF OneLinkSet
            <3> QED BY <1>5, <1>21, <2>2, <3>1, <3>2, <3>3
        <2>3. CASE j \in 1 .. n
            <3>1. j \in 1 .. leaf /\ j # root /\ j # leaf
                BY <1>4, <2>3
            <3>2. i[s][j] = h[s][j] /\ h[s][j] = g[s][j]
                BY <1>10, <1>12, <1>13, <1>14, <3>1 DEF OneLinkSet
            <3>3. g[s][j] = f[s][j]
                BY <1>8, <1>9, <3>1 DEF OneMoreNode
            <3>4. f[s][j] = links[j]
                BY <1>4, <1>5, <1>7, <2>3 DEF OneMoreNode, n
            <3> QED BY <1>21, <3>1, <3>2, <3>3, <3>4
        <2>4. j = root \/ j = leaf \/ j \in 1 .. n
            BY <1>4
        <2> QED BY <2>1, <2>2, <2>3, <2>4
    <1>23. i[s] = Append(links, Invalid)
        BY <1>15, <1>21, <1>22, SeqEqual
    <1>24. \A t \in Slices : t # s => i[t] = file[t]
        BY <1>7, <1>9, <1>12, <1>14 DEF OneMoreNode, OneLinkSet
    <1>25. file' = i
        BY <1>3, <1>4, <1>15, <1>23, <1>24
    <1> QED BY <1>15, <1>20, <1>24, <1>25

\* A step that changes neither the links nor how far the slices are.
LEMMA ReadingKeeps ==
    ASSUME NodeInv, UNCHANGED <<file, slices>>,
           loading' \in [NodeReaders -> NodeKeys \cup {NoKey}],
           got' \in [NodeReaders -> [key : NodeKeys \cup {NoKey}, next : Nat]],
           ListFields \subseteq DOMAIN nodes', LinksAsIn(nodes', file),
           \A r \in NodeReaders :
              /\ loading'[r] # NoKey => loading'[r] = loading[r] \/ Readable(loading'[r])
              /\ \/ got'[r] = got[r]
                 \/ /\ Readable(got'[r].key)
                    /\ got'[r].next = file[got'[r].key[1]][got'[r].key[2]]
    PROVE  NodeInv'
    <1>1. \A key : Readable(key)' <=> Readable(key)
        BY DEF Readable
    <1>2. NodeTypes' /\ LinksAsIn(nodes, file)'
        BY DEF NodeInv, NodeTypes, LinksAsIn
    <1>3. ReadCommitted'
        BY <1>1 DEF NodeInv, ReadCommitted
    <1> QED BY <1>2, <1>3 DEF NodeInv

\* A step that adds nodes to a slice that is not committed.
LEMMA WritingKeeps ==
    ASSUME NodeInv, UNCHANGED <<loading, got>>, NEW s \in Slices, slices[s] = "written",
           ListFields \subseteq DOMAIN nodes', LinksAsIn(nodes', file'),
           file' \in [Slices -> Seq(Nat)], slices' \in [Slices -> {"written", "committed"}],
           \A t \in Slices : t # s => file'[t] = file[t] /\ slices'[t] = slices[t]
    PROVE  NodeInv'
    <1>1. ASSUME NEW key \in NodeKeys, Readable(key)
          PROVE  Readable(key)' /\ file'[key[1]] = file[key[1]]
        <2>1. key[1] \in Slices /\ key[1] # s
            BY <1>1 DEF Readable, NodeKeys
        <2> QED BY <1>1, <2>1 DEF Readable
    <1>2. NodeTypes' /\ LinksAsIn(nodes, file)'
        BY DEF NodeInv, NodeTypes, LinksAsIn
    <1>3. ReadCommitted'
        <2>1. ASSUME NEW r \in NodeReaders, loading[r] # NoKey PROVE Readable(loading[r])'
            <3>1. loading[r] \in NodeKeys /\ Readable(loading[r])
                BY <2>1 DEF NodeInv, NodeTypes, ReadCommitted
            <3> QED BY <1>1, <3>1
        <2>2. ASSUME NEW r \in NodeReaders, got[r].key # NoKey
              PROVE  /\ Readable(got[r].key)'
                     /\ got[r].next = file'[got[r].key[1]][got[r].key[2]]
            <3>1. /\ got[r].key \in NodeKeys /\ Readable(got[r].key)
                  /\ got[r].next = file[got[r].key[1]][got[r].key[2]]
                BY <2>2 DEF NodeInv, NodeTypes, ReadCommitted
            <3> QED BY <1>1, <3>1
        <2> QED BY <2>1, <2>2 DEF ReadCommitted
    <1> QED BY <1>2, <1>3 DEF NodeInv

\* What a readable node has in the file.
LEMMA ReadableLink ==
    ASSUME NodeInv, NEW key \in NodeKeys, Readable(key)
    PROVE  /\ key \in Slices \X Nat /\ key[2] \in 1 .. Len(file[key[1]])
           /\ file[key[1]][key[2]] \in Nat
    <1>1. key[1] \in Slices /\ key[2] \in 1 .. MaxNodes /\ key = <<key[1], key[2]>>
        BY DEF NodeKeys
    <1>2. file[key[1]] \in Seq(Nat) /\ Len(file[key[1]]) \in Nat
        BY <1>1, LenProperties DEF NodeInv, NodeTypes
    <1>3. key[2] \in Nat /\ key[2] \in 1 .. Len(file[key[1]])
        BY <1>1, <1>2, NodesAssumption DEF Readable
    <1> QED BY <1>1, <1>2, <1>3, ElementOfSeq

LEMMA NodeStep == NodeInv /\ [NodeCacheNext]_nodeVars => NodeInv'
    <1> SUFFICES ASSUME NodeInv, [NodeCacheNext]_nodeVars PROVE NodeInv'
        OBVIOUS
    <1>0. NodeTypes /\ LinksAsIn(nodes, file) /\ ReadCommitted
        BY DEF NodeInv
    <1>1. ASSUME NEW s \in Slices, Store(s) PROVE NodeInv'
        <2>1. file \in [Slices -> Seq(Nat)] /\ ListFields \subseteq DOMAIN nodes
            BY <1>0 DEF NodeTypes
        <2>2. OneMoreNode(file, file', s)
            BY <1>1, <2>1, OneMoreNodeShape DEF Store
        <2>3. nodes' \in store(nodes, file[s], s)
            BY <1>1 DEF Store
        <2>4. ListFields \subseteq DOMAIN nodes' /\ LinksAsIn(nodes', file')
            BY <1>0, <2>1, <2>2, <2>3, StoreLinks
        <2>5. slices[s] = "written" /\ UNCHANGED <<slices, loading, got>>
            BY <1>1 DEF Store
        <2>6. file' \in [Slices -> Seq(Nat)] /\ \A t \in Slices : t # s => file'[t] = file[t]
            BY <2>2 DEF OneMoreNode
        <2>7. slices' \in [Slices -> {"written", "committed"}]
            BY <1>0, <2>5 DEF NodeTypes
        <2> QED BY <2>4, <2>5, <2>6, <2>7, WritingKeeps
    <1>2. ASSUME NEW s \in Slices, Flush(s) PROVE NodeInv'
        <2>1. /\ ListFields \subseteq DOMAIN nodes' /\ LinksAsIn(nodes', file')
              /\ file' \in [Slices -> Seq(Nat)] /\ \A t \in Slices : t # s => file'[t] = file[t]
            BY <1>0, <1>2, FlushLinks
        <2>2. /\ slices[s] = "written" /\ UNCHANGED <<loading, got>>
              /\ slices' = [slices EXCEPT ![s] = "committed"]
            BY <1>2 DEF Flush
        <2>3. /\ slices' \in [Slices -> {"written", "committed"}]
              /\ \A t \in Slices : t # s => slices'[t] = slices[t]
            BY <1>0, <2>2 DEF NodeTypes
        <2> QED BY <2>1, <2>2, <2>3, WritingKeeps
    <1>3. ASSUME NEW r \in NodeReaders, NEW key \in NodeKeys, HitNode(r, key) PROVE NodeInv'
        <2>1. /\ Readable(key) /\ key \in Cached(nodes) /\ nodes' = touch(nodes, key)
              /\ got' = [got EXCEPT ![r] = [key |-> key, next |-> nodes.item[key]]]
              /\ UNCHANGED <<file, slices, loading>>
            BY <1>3 DEF HitNode
        <2>2. nodes.item[key] = file[key[1]][key[2]] /\ file[key[1]][key[2]] \in Nat
            BY <1>0, <2>1, ReadableLink DEF LinksAsIn
        <2>3. DOMAIN nodes' = DOMAIN nodes /\ nodes'.item = nodes.item
            BY <1>0, <2>1, touchItems DEF NodeTypes
        <2>4. ListFields \subseteq DOMAIN nodes' /\ LinksAsIn(nodes', file)
            BY <1>0, <2>3 DEF NodeTypes, LinksAsIn, Cached
        <2>5. got' \in [NodeReaders -> [key : NodeKeys \cup {NoKey}, next : Nat]]
            BY <1>0, <2>1, <2>2 DEF NodeTypes
        <2>6. loading' \in [NodeReaders -> NodeKeys \cup {NoKey}]
            BY <1>0, <2>1 DEF NodeTypes
        <2>7. ASSUME NEW q \in NodeReaders
              PROVE  \/ got'[q] = got[q]
                     \/ /\ Readable(got'[q].key)
                        /\ got'[q].next = file[got'[q].key[1]][got'[q].key[2]]
            BY <1>0, <2>1, <2>2 DEF NodeTypes
        <2> QED BY <2>1, <2>4, <2>5, <2>6, <2>7, ReadingKeeps
    <1>4. ASSUME NEW r \in NodeReaders, NEW key \in NodeKeys, MissNode(r, key) PROVE NodeInv'
        <2>1. /\ Readable(key) /\ loading' = [loading EXCEPT ![r] = key]
              /\ UNCHANGED <<nodes, file, slices, got>>
            BY <1>4 DEF MissNode
        <2>2. loading' \in [NodeReaders -> NodeKeys \cup {NoKey}]
            BY <1>0, <2>1 DEF NodeTypes
        <2>3. /\ got' \in [NodeReaders -> [key : NodeKeys \cup {NoKey}, next : Nat]]
              /\ ListFields \subseteq DOMAIN nodes' /\ LinksAsIn(nodes', file)
            BY <1>0, <2>1 DEF NodeTypes
        <2>4. \A q \in NodeReaders : loading'[q] = loading[q] \/ Readable(loading'[q])
            BY <1>0, <2>1 DEF NodeTypes
        <2> QED BY <2>1, <2>2, <2>3, <2>4, ReadingKeeps
    <1>5. ASSUME NEW r \in NodeReaders, LoadDone(r) PROVE NodeInv'
        <2> DEFINE key == loading[r]
                   next == file[key[1]][key[2]]
        <2>1. /\ key # NoKey /\ got' = [got EXCEPT ![r] = [key |-> key, next |-> next]]
              /\ loading' = [loading EXCEPT ![r] = NoKey]
              /\ UNCHANGED <<file, slices>>
              /\ nodes' = nodes \/ \E e \in Set(nodes, key, next) : nodes' = e.cache
            BY <1>5 DEF LoadDone
        <2>2. key \in NodeKeys /\ Readable(key)
            BY <1>0, <2>1 DEF NodeTypes, ReadCommitted
        <2>3. key \in Slices \X Nat /\ key[2] \in 1 .. Len(file[key[1]]) /\ next \in Nat
            BY <2>2, ReadableLink
        <2>4. ListFields \subseteq DOMAIN nodes' /\ LinksAsIn(nodes', file)
            <3>1. CASE nodes' = nodes
                BY <1>0, <3>1 DEF NodeTypes
            <3>2. CASE \E e \in Set(nodes, key, next) : nodes' = e.cache
                <4>1. PICK e \in Set(nodes, key, next) : nodes' = e.cache
                    BY <3>2
                <4>2. next = file[key[1]][key[2]]
                    OBVIOUS
                <4>0. ListFields \subseteq DOMAIN nodes
                    BY <1>0 DEF NodeTypes
                <4> HIDE DEF key, next
                <4>3. /\ ListFields \subseteq DOMAIN e.cache
                      /\ Cached(e.cache) \subseteq Cached(nodes) \cup {key}
                      /\ \A k \in Cached(e.cache) :
                            e.cache.item[k] = IF k = key THEN next ELSE nodes.item[k]
                    BY <4>0, SetItems
                <4> QED BY <1>0, <2>3, <4>1, <4>2, <4>3 DEF LinksAsIn
            <3> QED BY <2>1, <3>1, <3>2
        <2>5. got' \in [NodeReaders -> [key : NodeKeys \cup {NoKey}, next : Nat]]
            BY <1>0, <2>1, <2>2, <2>3 DEF NodeTypes
        <2>6. loading' \in [NodeReaders -> NodeKeys \cup {NoKey}]
            BY <1>0, <2>1 DEF NodeTypes
        <2>7. ASSUME NEW q \in NodeReaders
              PROVE  /\ loading'[q] # NoKey => loading'[q] = loading[q]
                     /\ \/ got'[q] = got[q]
                        \/ /\ Readable(got'[q].key)
                           /\ got'[q].next = file[got'[q].key[1]][got'[q].key[2]]
            BY <1>0, <2>1, <2>2 DEF NodeTypes
        <2> HIDE DEF key, next
        <2> QED BY <2>1, <2>4, <2>5, <2>6, <2>7, ReadingKeeps
    <1>6. ASSUME NEW r \in NodeReaders, LoadFails(r) PROVE NodeInv'
        <2>1. loading' = [loading EXCEPT ![r] = NoKey] /\ UNCHANGED <<nodes, file, slices, got>>
            BY <1>6 DEF LoadFails
        <2>2. /\ loading' \in [NodeReaders -> NodeKeys \cup {NoKey}]
              /\ \A q \in NodeReaders : loading'[q] # NoKey => loading'[q] = loading[q]
            BY <1>0, <2>1 DEF NodeTypes
        <2>3. /\ got' \in [NodeReaders -> [key : NodeKeys \cup {NoKey}, next : Nat]]
              /\ ListFields \subseteq DOMAIN nodes' /\ LinksAsIn(nodes', file)
            BY <1>0, <2>1 DEF NodeTypes
        <2> QED BY <2>1, <2>2, <2>3, ReadingKeeps
    <1>7. CASE UNCHANGED nodeVars
        BY <1>7 DEF nodeVars, NodeInv, NodeTypes, LinksAsIn, ReadCommitted, Readable, Cached
    <1> QED BY <1>1, <1>2, <1>3, <1>4, <1>5, <1>6, <1>7 DEF NodeCacheNext

\* A node that a reader gets has the link that its file has, for every number of
\* slices, nodes and readers (NodesLinkedAsInFile): slice_writer::flush corrects
\* the objects it leaves in the cache before the slice is committed, and none of
\* them is wrong when it is evicted and loaded again.
THEOREM NodesReadAsWritten == NodeCacheSpec => []NodesLinkedAsInFile
    <1>1. NodeCacheInit => NodeInv
        <2> SUFFICES ASSUME NodeCacheInit PROVE NodeInv
            OBVIOUS
        <2>1. NodeTypes
            BY EmptySeq DEF NodeCacheInit, NodeTypes, EmptyLists, ListFields, Invalid
        <2>2. LinksAsIn(nodes, file)
            BY DEF NodeCacheInit, LinksAsIn, EmptyLists, Cached
        <2>3. ReadCommitted
            BY DEF NodeCacheInit, ReadCommitted
        <2> QED BY <2>1, <2>2, <2>3 DEF NodeInv
    <1>2. NodeInv => NodesLinkedAsInFile
        BY DEF NodeInv, ReadCommitted, NodesLinkedAsInFile
    <1> QED BY <1>1, <1>2, NodeStep, PTL DEF NodeCacheSpec

-----------------------------------------------------------------------------
(* storage::latch *)

LEMMA LatchShape ==
    ASSUME NEW key, NEW e, latch' = Latch(key, e)
    PROVE  /\ Latched' = Latched \cup {key} /\ latch'[key] = e
           /\ \A k \in Latched : k # key => latch'[k] = latch[k]
    BY DEF Latch, Latched

LEMMA UnlatchShape ==
    ASSUME NEW key, latch' = Unlatch(key)
    PROVE  Latched' = Latched \ {key} /\ \A k \in Latched' : latch'[k] = latch[k]
    BY DEF Unlatch, Latched

LEMMA UsingFinite ==
    ASSUME NEW A, A \subseteq Readers
    PROVE  /\ IsFiniteSet(A) /\ Cardinality(A) \in Nat
           /\ \A r : Cardinality(A \cup {r}) <= Cardinality(A) + 1
           /\ \A r \in A : Cardinality(A \ {r}) = Cardinality(A) - 1
           /\ \A r : {r} \subseteq A /\ Cardinality(A) <= 1 => A = {r}
           /\ \A B : B \subseteq A => Cardinality(B) <= Cardinality(A)
    <1>1. IsFiniteSet(A) /\ Cardinality(A) \in Nat
        BY ReadersAssumption, FS_Subset, FS_CardinalityType
    <1>2. \A r : Cardinality(A \cup {r}) <= Cardinality(A) + 1
        <2> TAKE r
        <2>1. Cardinality(A \cup {r}) = IF r \in A THEN Cardinality(A) ELSE Cardinality(A) + 1
            BY <1>1, FS_AddElement
        <2>2. CASE r \in A
            <3>1. Cardinality(A \cup {r}) = Cardinality(A)
                BY <2>1, <2>2
            <3> QED BY <1>1, <3>1
        <2>3. CASE r \notin A
            <3>1. Cardinality(A \cup {r}) = Cardinality(A) + 1
                BY <2>1, <2>3
            <3> QED BY <1>1, <3>1
        <2> QED BY <2>2, <2>3
    <1>3. \A r \in A : Cardinality(A \ {r}) = Cardinality(A) - 1
        BY <1>1, FS_RemoveElement
    <1>4. ASSUME NEW r, {r} \subseteq A, Cardinality(A) <= 1 PROVE A = {r}
        <2>1. IsFiniteSet({r}) /\ Cardinality({r}) = 1
            BY FS_Singleton
        <2>2. Cardinality({r}) <= Cardinality(A) /\ (Cardinality(A) = Cardinality({r}) => A = {r})
            BY <1>1, <1>4, FS_Subset
        <2>3. Cardinality(A) = 1
            BY <1>1, <1>4, <2>1, <2>2
        <2> QED BY <2>1, <2>2, <2>3
    <1>5. \A B : B \subseteq A => Cardinality(B) <= Cardinality(A)
        BY <1>1, FS_Subset
    <1> QED BY <1>1, <1>2, <1>3, <1>4, <1>5

-----------------------------------------------------------------------------
(* disk_reader::read *)

\* What a reader that reads or waits knows of its latch.
LEMMA HoldsLatch ==
    ASSUME ReaderInv, NEW r \in Readers, readers[r].at # "idle"
    PROVE  /\ readers[r].key \in Latched /\ readers[r].key \in Keys
           /\ readers[r].page = latch[readers[r].key].page /\ readers[r].page \in Pages
           /\ latch[readers[r].key] \in LatchRecords
           /\ readers[r].key \notin Cached(cache)
           /\ readers[r].page \in LatchedPages
           /\ r \in Using(readers[r].key)
    BY DEF ReaderInv, ReaderTypes, ReadersHoldLatches, DataInPlace, LatchedPages, Using, LatchRecords

\* Nobody else uses the page of a latched key.
LEMMA LatchedAlone ==
    ASSUME PagePlaces, NEW key \in Latched
    PROVE  /\ latch[key].page \notin Owned(cache) /\ latch[key].page \notin HeldPages
           /\ \A k \in Latched : k # key => latch[k].page # latch[key].page
           /\ \A k \in Cached(cache) : cache.item[k] # latch[key].page
    BY DEF PagePlaces, LatchedPages, Owned, Mapped

\* The places of pages depend on these alone.
LEMMA SamePlaces ==
    ASSUME PagePlaces, CacheOK(Keys, cache'), Owned(cache') = Owned(cache), UNCHANGED dirty,
           Latched' = Latched, \A k \in Latched : latch'[k].page = latch[k].page
    PROVE  PagePlaces'
    <1>1. LatchedPages' = LatchedPages
        BY DEF LatchedPages
    <1>2. HeldPages' = HeldPages
        BY DEF HeldPages
    <1> QED BY <1>1, <1>2 DEF PagePlaces

\* The end of read(), for the reader itself and for those that waited for it.
Leaves(r, key, page, e) ==
    /\ r \in Readers /\ readers[r].at # "idle"
    /\ key = readers[r].key /\ page = readers[r].page
    /\ \A q \in Readers : q # r /\ readers[q].at = "reading" => readers[q].key # key
    /\ e.ref_count = latch[key].ref_count /\ e.released = TRUE /\ e.page = page
    /\ e \in LatchRecords
    /\ memory' = [memory EXCEPT ![page] = key]
    /\ readers' = [q \in Readers |->
                     IF q = r THEN Idle
                     ELSE IF q \in Waiting(key) THEN [readers[q] EXCEPT !.at = "woken"]
                     ELSE readers[q]]
    /\ Leave(r, key, page, e)
    /\ UNCHANGED dirty

LEMMA LeavesReaders ==
    ASSUME ReaderInv, NEW r, NEW key, NEW page, NEW e, Leaves(r, key, page, e)
    PROVE  /\ readers' \in [Readers -> [at : Places, key : Keys \cup {Nothing}, page : Pages \cup {NoPage}]]
           /\ readers'[r].at = "idle"
           /\ \A q \in Readers : q # r =>
                 /\ readers'[q].key = readers[q].key /\ readers'[q].page = readers[q].page
                 /\ readers'[q].at = IF readers[q].at = "waiting" /\ readers[q].key = key
                                     THEN "woken" ELSE readers[q].at
           /\ \A k : Using(k)' = Using(k) \ {r}
    <1>1. /\ r \in Readers
          /\ readers \in [Readers -> [at : Places, key : Keys \cup {Nothing}, page : Pages \cup {NoPage}]]
          /\ readers' = [q \in Readers |->
                           IF q = r THEN Idle
                           ELSE IF q \in Waiting(key) THEN [readers[q] EXCEPT !.at = "woken"]
                           ELSE readers[q]]
        BY DEF Leaves, ReaderInv, ReaderTypes
    <1>2. readers'[r] = Idle
        BY <1>1
    <1>3. ASSUME NEW q \in Readers, q # r
          PROVE  /\ readers'[q].key = readers[q].key /\ readers'[q].page = readers[q].page
                 /\ readers'[q].at = IF readers[q].at = "waiting" /\ readers[q].key = key
                                     THEN "woken" ELSE readers[q].at
                 /\ readers'[q] \in [at : Places, key : Keys \cup {Nothing}, page : Pages \cup {NoPage}]
        <2>1. CASE q \in Waiting(key)
            <3>1. readers'[q] = [readers[q] EXCEPT !.at = "woken"]
                BY <1>1, <1>3, <2>1
            <3>2. readers[q].at = "waiting" /\ readers[q].key = key
                BY <2>1 DEF Waiting
            <3> QED BY <1>1, <3>1, <3>2 DEF Places
        <2>2. CASE q \notin Waiting(key)
            <3>1. readers'[q] = readers[q]
                BY <1>1, <1>3, <2>2
            <3>2. ~(readers[q].at = "waiting" /\ readers[q].key = key)
                BY <2>2 DEF Waiting
            <3> QED BY <1>1, <3>1, <3>2
        <2> QED BY <2>1, <2>2
    <1>4. Idle \in [at : Places, key : Keys \cup {Nothing}, page : Pages \cup {NoPage}] /\ Idle.at = "idle"
        BY DEF Idle, Places
    <1>5. readers' \in [Readers -> [at : Places, key : Keys \cup {Nothing}, page : Pages \cup {NoPage}]]
        <2>1. \A q \in Readers :
                readers'[q] \in [at : Places, key : Keys \cup {Nothing}, page : Pages \cup {NoPage}]
            BY <1>2, <1>3, <1>4
        <2>2. readers' = [q \in Readers |-> readers'[q]]
            BY <1>1
        <2> QED BY <2>1, <2>2
    <1>6. \A k : Using(k)' = Using(k) \ {r}
        BY <1>2, <1>3, <1>4 DEF Using
    <1> QED BY <1>2, <1>3, <1>4, <1>5, <1>6

\* Others are still there: the page stays latched.
LEMMA LeavesShared ==
    ASSUME ReaderInv, NEW r, NEW key, NEW page, NEW e, Leaves(r, key, page, e), e.ref_count > 1
    PROVE  ReaderInv'
    <1>0. ReaderTypes /\ PagePlaces /\ DataInPlace /\ ReadersHoldLatches /\ ReadsOwnPage
        BY DEF ReaderInv
    <1>1. /\ r \in Readers /\ readers[r].at # "idle" /\ key = readers[r].key /\ page = readers[r].page
          /\ \A q \in Readers : q # r /\ readers[q].at = "reading" => readers[q].key # key
          /\ e.ref_count = latch[key].ref_count /\ e.released = TRUE /\ e.page = page
          /\ e \in LatchRecords
          /\ memory' = [memory EXCEPT ![page] = key]
          /\ UNCHANGED dirty
        BY DEF Leaves
    <1>2. /\ key \in Latched /\ key \in Keys /\ latch[key].page = page /\ page \in Pages
          /\ latch[key] \in LatchRecords /\ key \notin Cached(cache) /\ r \in Using(key)
        BY <1>1, HoldsLatch
    <1> DEFINE f == [e EXCEPT !.ref_count = @ - 1]
    <1>3. /\ latch' = Latch(key, f) /\ cache' = cache /\ aborted' = FALSE
          /\ result' = [result EXCEPT ![r] = <<key, memory'[page]>>]
        <2>1. e.ref_count # 1
            BY <1>1 DEF LatchRecords
        <2> QED BY <2>1 DEF Leaves, Leave
    <1>4. /\ f.ref_count = e.ref_count - 1 /\ f.released = TRUE /\ f.page = page
          /\ f \in LatchRecords
        BY <1>1 DEF LatchRecords
    <1> HIDE DEF f
    <1>5. /\ Latched' = Latched /\ latch'[key] = f
          /\ \A k \in Latched : k # key => latch'[k] = latch[k]
        BY <1>2, <1>3, LatchShape
    <1>6. \A p \in Pages : memory'[p] = IF p = page THEN key ELSE memory[p]
        BY <1>0, <1>1 DEF ReaderTypes
    <1>7. /\ readers' \in [Readers -> [at : Places, key : Keys \cup {Nothing}, page : Pages \cup {NoPage}]]
          /\ readers'[r].at = "idle"
          /\ \A q \in Readers : q # r =>
                /\ readers'[q].key = readers[q].key /\ readers'[q].page = readers[q].page
                /\ readers'[q].at = IF readers[q].at = "waiting" /\ readers[q].key = key
                                    THEN "woken" ELSE readers[q].at
          /\ \A k : Using(k)' = Using(k) \ {r}
        BY LeavesReaders
    <1>8. ReaderTypes'
        <2>1. memory' \in [Pages -> Keys \cup {Nothing}] /\ DOMAIN result' = Readers
            BY <1>0, <1>1, <1>2, <1>3 DEF ReaderTypes
        <2>2. Latched' \subseteq Keys /\ \A k \in Latched' : latch'[k] \in LatchRecords
            BY <1>0, <1>4, <1>5 DEF ReaderTypes
        <2> QED BY <1>0, <1>1, <1>3, <1>7, <2>1, <2>2 DEF ReaderTypes
    <1>9. PagePlaces'
        <2>1. \A k \in Latched : latch'[k].page = latch[k].page
            BY <1>2, <1>4, <1>5
        <2>2. CacheOK(Keys, cache') /\ Owned(cache') = Owned(cache)
            BY <1>0, <1>3 DEF PagePlaces
        <2> QED BY <1>0, <1>1, <1>5, <2>1, <2>2, SamePlaces
    <1>10. DataInPlace'
        <2>1. \A k \in Cached(cache) : cache.item[k] # page /\ cache.item[k] \in Pages
            BY <1>0, <1>2, LatchedAlone DEF PagePlaces, CacheOK, PagesMatchMap
        <2>2. \A k \in Latched : k # key => latch[k].page # page /\ latch[k].page \in Pages
            BY <1>0, <1>2, LatchedAlone DEF ReaderTypes, LatchRecords
        <2>3. \A k \in Cached(cache)' : memory'[cache'.item[k]] = k
            BY <1>0, <1>3, <1>6, <2>1 DEF DataInPlace, Cached
        <2>4. \A k \in Latched' : latch'[k].released => memory'[latch'[k].page] = k
            BY <1>0, <1>2, <1>4, <1>5, <1>6, <2>2 DEF DataInPlace
        <2>5. Cached(cache)' \cap Latched' = {}
            BY <1>0, <1>3, <1>5 DEF DataInPlace, Cached
        <2> QED BY <2>3, <2>4, <2>5 DEF DataInPlace
    <1>11. ReadersHoldLatches'
        <2>1. ASSUME NEW q \in Readers, readers'[q].at # "idle"
              PROVE  /\ readers'[q].key \in Latched'
                     /\ latch'[readers'[q].key].page = readers'[q].page
                     /\ latch'[readers'[q].key].released <=> readers'[q].at = "woken"
            <3>1. q # r /\ readers[q].at # "idle" /\ readers'[q].key = readers[q].key
                    /\ readers'[q].page = readers[q].page
                BY <1>7, <2>1
            <3>2. /\ readers[q].key \in Latched /\ latch[readers[q].key].page = readers[q].page
                  /\ latch[readers[q].key].released <=> readers[q].at = "woken"
                BY <1>0, <3>1 DEF ReadersHoldLatches
            <3>3. CASE readers[q].key = key
                <4>1. readers[q].at \in {"waiting", "woken"}
                    BY <1>0, <1>1, <3>1, <3>3 DEF ReaderTypes, Places
                <4>2. readers'[q].at = "woken"
                    BY <1>7, <3>1, <3>3, <4>1
                <4> QED BY <1>2, <1>4, <1>5, <3>1, <3>2, <3>3, <4>2
            <3>4. CASE readers[q].key # key
                <4>1. readers'[q].at = readers[q].at
                    BY <1>7, <3>1, <3>4
                <4> QED BY <1>5, <3>1, <3>2, <3>4, <4>1
            <3> QED BY <3>3, <3>4
        <2>2. ASSUME NEW q \in Readers, NEW p \in Readers, readers'[q].at = "reading",
                     readers'[p].at = "reading", readers'[q].key = readers'[p].key
              PROVE  q = p
            <3>1. /\ readers[q].at = "reading" /\ readers[p].at = "reading"
                  /\ readers[q].key = readers[p].key
                BY <1>7, <2>2
            <3> QED BY <1>0, <3>1 DEF ReadersHoldLatches
        <2>3. ASSUME NEW k \in Latched PROVE Cardinality(Using(k) \ {r}) <= latch'[k].ref_count
            <3>1. Using(k) \subseteq Readers /\ Cardinality(Using(k)) <= latch[k].ref_count
                BY <1>0 DEF ReadersHoldLatches, Using
            <3>2. Cardinality(Using(k)) \in Nat /\ latch[k].ref_count \in Nat
                BY <1>0, <3>1, UsingFinite DEF ReaderTypes, LatchRecords
            <3>3. CASE k = key
                <4>1. Cardinality(Using(k) \ {r}) = Cardinality(Using(k)) - 1
                    BY <1>2, <3>1, <3>3, UsingFinite
                <4>2. latch'[k].ref_count = latch[k].ref_count - 1
                    BY <1>1, <1>4, <1>5, <3>3
                <4> QED BY <3>1, <3>2, <4>1, <4>2
            <3>4. CASE k # key
                <4>1. Using(k) \ {r} = Using(k)
                    BY <1>1, <3>4 DEF Using
                <4> QED BY <1>5, <3>1, <3>4, <4>1
            <3> QED BY <3>3, <3>4
        <2> QED BY <1>5, <1>7, <2>1, <2>2, <2>3 DEF ReadersHoldLatches
    <1>12. ReadsOwnPage'
        BY <1>0, <1>2, <1>3, <1>6 DEF ReadsOwnPage, ReaderTypes
    <1> QED BY <1>8, <1>9, <1>10, <1>11, <1>12 DEF ReaderInv

\* The last one adds the page to the cache: nobody uses the latch any more.
LEMMA LeavesLast ==
    ASSUME ReaderInv, NEW r, NEW key, NEW page, NEW e, Leaves(r, key, page, e), ~(e.ref_count > 1)
    PROVE  ReaderInv'
    <1>0. ReaderTypes /\ PagePlaces /\ DataInPlace /\ ReadersHoldLatches /\ ReadsOwnPage
        BY DEF ReaderInv
    <1>1. /\ r \in Readers /\ readers[r].at # "idle" /\ key = readers[r].key /\ page = readers[r].page
          /\ e.ref_count = latch[key].ref_count
          /\ memory' = [memory EXCEPT ![page] = key]
          /\ UNCHANGED dirty
        BY DEF Leaves
    <1>2. /\ key \in Latched /\ key \in Keys /\ latch[key].page = page /\ page \in Pages
          /\ latch[key] \in LatchRecords /\ key \notin Cached(cache) /\ r \in Using(key)
        BY <1>1, HoldsLatch
    <1>3. e.ref_count = 1
        BY <1>1, <1>2 DEF LatchRecords
    <1>4. /\ latch' = Unlatch(key) /\ cache' \in CacheAdd(cache, key, page) /\ aborted' = FALSE
          /\ result' = [result EXCEPT ![r] = <<key, memory'[page]>>]
        BY <1>2, <1>3 DEF Leaves, Leave
    <1>5. Latched' = Latched \ {key} /\ \A k \in Latched' : latch'[k] = latch[k]
        BY <1>4, UnlatchShape
    <1>6. \A p \in Pages : memory'[p] = IF p = page THEN key ELSE memory[p]
        BY <1>0, <1>1 DEF ReaderTypes
    <1>7. /\ readers' \in [Readers -> [at : Places, key : Keys \cup {Nothing}, page : Pages \cup {NoPage}]]
          /\ readers'[r].at = "idle"
          /\ \A q \in Readers : q # r =>
                /\ readers'[q].key = readers[q].key /\ readers'[q].page = readers[q].page
                /\ readers'[q].at = IF readers[q].at = "waiting" /\ readers[q].key = key
                                    THEN "woken" ELSE readers[q].at
          /\ \A k : Using(k)' = Using(k) \ {r}
        BY LeavesReaders
    <1>8. Using(key) = {r}
        <2>1. Using(key) \subseteq Readers /\ Cardinality(Using(key)) <= 1 /\ {r} \subseteq Using(key)
            BY <1>0, <1>1, <1>2, <1>3 DEF ReadersHoldLatches, Using
        <2> QED BY <2>1, UsingFinite
    <1>9. /\ page \notin Owned(cache) /\ page \notin HeldPages
          /\ \A k \in Latched : k # key => latch[k].page # page
          /\ \A k \in Cached(cache) : cache.item[k] # page
        BY <1>0, <1>2, LatchedAlone
    <1>10. /\ CacheOK(Keys, cache') /\ Owned(cache') = Owned(cache) \cup {page}
           /\ Cached(cache') \subseteq Cached(cache) \cup {key}
           /\ \A k \in Cached(cache') : cache'.item[k] = IF k = key THEN page ELSE cache.item[k]
        BY <1>0, <1>2, <1>4, <1>9, AddOK DEF PagePlaces
    <1>11. ReaderTypes'
        <2>1. memory' \in [Pages -> Keys \cup {Nothing}] /\ DOMAIN result' = Readers
            BY <1>0, <1>1, <1>2, <1>4 DEF ReaderTypes
        <2>2. Latched' \subseteq Keys /\ \A k \in Latched' : latch'[k] \in LatchRecords
            BY <1>0, <1>5 DEF ReaderTypes
        <2> QED BY <1>0, <1>1, <1>4, <1>7, <2>1, <2>2 DEF ReaderTypes
    <1>12. PagePlaces'
        <2>1. LatchedPages' = LatchedPages \ {page}
            BY <1>2, <1>5, <1>9 DEF LatchedPages
        <2>2. HeldPages' = HeldPages
            BY <1>1 DEF HeldPages
        <2>3. page \in LatchedPages
            BY <1>2 DEF LatchedPages
        <2>4. /\ Pages = Owned(cache') \cup LatchedPages' \cup HeldPages'
              /\ LatchedPages' \cap Owned(cache') = {}
              /\ HeldPages' \cap (Owned(cache') \cup LatchedPages') = {}
            BY <1>0, <1>9, <1>10, <2>1, <2>2, <2>3 DEF PagePlaces
        <2>5. \A k, l \in Latched' : latch'[k].page = latch'[l].page => k = l
            BY <1>0, <1>5 DEF PagePlaces
        <2> QED BY <1>0, <1>1, <1>10, <2>4, <2>5 DEF PagePlaces
    <1>13. DataInPlace'
        <2>1. \A k \in Cached(cache') : memory'[cache'.item[k]] = k
            <3> SUFFICES ASSUME NEW k \in Cached(cache') PROVE memory'[cache'.item[k]] = k
                OBVIOUS
            <3>1. CASE k = key
                BY <1>2, <1>6, <1>10, <3>1
            <3>2. CASE k # key
                <4>1. k \in Cached(cache) /\ cache'.item[k] = cache.item[k]
                    BY <1>10, <3>2
                <4>2. cache.item[k] # page /\ cache.item[k] \in Pages
                    BY <1>0, <1>9, <4>1 DEF PagePlaces, CacheOK, PagesMatchMap
                <4> QED BY <1>0, <1>6, <4>1, <4>2 DEF DataInPlace
            <3> QED BY <3>1, <3>2
        <2>2. \A k \in Latched' : latch'[k].released => memory'[latch'[k].page] = k
            <3>1. \A k \in Latched : k # key => latch[k].page \in Pages /\ latch[k].page # page
                BY <1>0, <1>9 DEF ReaderTypes, LatchRecords
            <3> QED BY <1>0, <1>5, <1>6, <3>1 DEF DataInPlace
        <2>3. Cached(cache') \cap Latched' = {}
            BY <1>0, <1>5, <1>10 DEF DataInPlace
        <2> QED BY <2>1, <2>2, <2>3 DEF DataInPlace
    <1>14. ReadersHoldLatches'
        <2>0. ASSUME NEW q \in Readers, readers'[q].at # "idle"
              PROVE  /\ readers[q].at # "idle" /\ readers[q].key # key
                     /\ readers'[q].key = readers[q].key /\ readers'[q].page = readers[q].page
                     /\ readers'[q].at = readers[q].at
            <3>1. q # r
                BY <1>7, <2>0
            <3>2. readers[q].at # "idle"
                BY <1>7, <2>0, <3>1
            <3>3. readers[q].key # key
                BY <1>8, <3>1, <3>2 DEF Using
            <3> QED BY <1>7, <3>1, <3>2, <3>3
        <2>1. ASSUME NEW q \in Readers, readers'[q].at # "idle"
              PROVE  /\ readers'[q].key \in Latched'
                     /\ latch'[readers'[q].key].page = readers'[q].page
                     /\ latch'[readers'[q].key].released <=> readers'[q].at = "woken"
            <3>1. /\ readers[q].key \in Latched /\ latch[readers[q].key].page = readers[q].page
                  /\ latch[readers[q].key].released <=> readers[q].at = "woken"
                BY <1>0, <2>0, <2>1 DEF ReadersHoldLatches
            <3> QED BY <1>5, <2>0, <2>1, <3>1
        <2>2. ASSUME NEW q \in Readers, NEW p \in Readers, readers'[q].at = "reading",
                     readers'[p].at = "reading", readers'[q].key = readers'[p].key
              PROVE  q = p
            BY <1>0, <2>0, <2>2 DEF ReadersHoldLatches
        <2>3. ASSUME NEW k \in Latched' PROVE Cardinality(Using(k) \ {r}) <= latch'[k].ref_count
            <3>1. k \in Latched /\ k # key /\ latch'[k] = latch[k]
                BY <1>5, <2>3
            <3>2. Using(k) \ {r} = Using(k)
                BY <1>1, <3>1 DEF Using
            <3> QED BY <1>0, <3>1, <3>2 DEF ReadersHoldLatches
        <2> QED BY <1>7, <2>1, <2>2, <2>3 DEF ReadersHoldLatches
    <1>15. ReadsOwnPage'
        BY <1>0, <1>2, <1>4, <1>6 DEF ReadsOwnPage, ReaderTypes
    <1> QED BY <1>11, <1>12, <1>13, <1>14, <1>15 DEF ReaderInv

LEMMA ReadDoneKeeps ==
    ASSUME ReaderInv, NEW r \in Readers, ReadDone(r)
    PROVE  ReaderInv'
    <1> DEFINE key == readers[r].key
               page == readers[r].page
               e == [latch[key] EXCEPT !.released = TRUE]
    <1>1. /\ readers[r].at = "reading" /\ memory' = [memory EXCEPT ![page] = key]
          /\ readers' = [q \in Readers |->
                           IF q = r THEN Idle
                           ELSE IF q \in Waiting(key) THEN [readers[q] EXCEPT !.at = "woken"]
                           ELSE readers[q]]
          /\ Leave(r, key, page, e) /\ UNCHANGED dirty
        BY DEF ReadDone, Woken
    <1>2. /\ page = latch[key].page /\ latch[key] \in LatchRecords
        BY <1>1, HoldsLatch
    <1>3. /\ e.ref_count = latch[key].ref_count /\ e.released = TRUE /\ e.page = page
          /\ e \in LatchRecords
        BY <1>2 DEF LatchRecords
    <1>4. \A q \in Readers : q # r /\ readers[q].at = "reading" => readers[q].key # key
        BY <1>1 DEF ReaderInv, ReadersHoldLatches
    <1>5. Leaves(r, key, page, e)
        BY <1>1, <1>3, <1>4 DEF Leaves
    <1> QED BY <1>5, LeavesShared, LeavesLast

\* A waiter that was woken leaves like the reader did: the memory holds its page
\* already, and there is nobody left to wake.
LEMMA ResumeKeeps ==
    ASSUME ReaderInv, NEW r \in Readers, Resume(r)
    PROVE  ReaderInv'
    <1> DEFINE key == readers[r].key
               page == readers[r].page
               e == latch[key]
    <1>1. /\ readers[r].at = "woken" /\ memory' = memory
          /\ readers' = [readers EXCEPT ![r] = Idle]
          /\ Leave(r, key, page, e) /\ UNCHANGED dirty
        BY DEF Resume
    <1>2. /\ key \in Latched /\ page = latch[key].page /\ latch[key] \in LatchRecords
          /\ page \in Pages
        BY <1>1, HoldsLatch
    <1>3. latch[key].released
        BY <1>1 DEF ReaderInv, ReadersHoldLatches
    <1>4. e.released = TRUE
        BY <1>2, <1>3 DEF LatchRecords
    <1>5. memory[page] = key /\ memory \in [Pages -> Keys \cup {Nothing}]
        BY <1>2, <1>3 DEF ReaderInv, DataInPlace, ReaderTypes
    <1>6. memory' = [memory EXCEPT ![page] = key]
        BY <1>1, <1>2, <1>5
    <1>7. \A q \in Readers : readers[q].key = key => readers[q].at \in {"idle", "woken"}
        BY <1>2, <1>3 DEF ReaderInv, ReadersHoldLatches
    <1>8. Waiting(key) = {}
        BY <1>7 DEF Waiting
    <1>9. readers' = [q \in Readers |->
                        IF q = r THEN Idle
                        ELSE IF q \in Waiting(key) THEN [readers[q] EXCEPT !.at = "woken"]
                        ELSE readers[q]]
        BY <1>1, <1>8 DEF ReaderInv, ReaderTypes
    <1>10. Leaves(r, key, page, e)
        BY <1>1, <1>2, <1>4, <1>6, <1>7, <1>9 DEF Leaves
    <1> QED BY <1>10, LeavesShared, LeavesLast

\* The latches stay, and readers stay where they are or have nothing to do with
\* them: what the readers know holds on.
LEMMA SameLatches ==
    ASSUME ReadersHoldLatches, UNCHANGED <<latch, readers>>
    PROVE  ReadersHoldLatches'
    BY DEF ReadersHoldLatches, Using, Latched

LEMMA HitKeeps ==
    ASSUME ReaderInv, NEW r \in Readers, NEW key \in Keys, Hit(r, key)
    PROVE  ReaderInv'
    <1>0. ReaderTypes /\ PagePlaces /\ DataInPlace /\ ReadersHoldLatches /\ ReadsOwnPage
        BY DEF ReaderInv
    <1>1. /\ key \in Cached(cache) /\ cache' = touch(cache, key)
          /\ result' = [result EXCEPT ![r] = <<key, memory[cache.item[key]]>>]
          /\ UNCHANGED <<latch, memory, readers, dirty, aborted>>
        BY DEF Hit
    <1>2. CacheOK(Keys, cache') /\ Owned(cache') = Owned(cache) /\ cache'.item = cache.item
        BY <1>0, <1>1, touchOK DEF PagePlaces
    <1>3. ReaderTypes'
        BY <1>0, <1>1 DEF ReaderTypes, Latched
    <1>4. PagePlaces'
        BY <1>0, <1>1, <1>2, SamePlaces DEF Latched
    <1>5. DataInPlace'
        BY <1>0, <1>1, <1>2 DEF DataInPlace, Cached, Latched
    <1>6. ReadersHoldLatches'
        BY <1>0, <1>1, SameLatches
    <1>7. ReadsOwnPage'
        BY <1>0, <1>1 DEF ReadsOwnPage, DataInPlace, ReaderTypes
    <1> QED BY <1>3, <1>4, <1>5, <1>6, <1>7 DEF ReaderInv

\* Nothing but aborted changes.
LEMMA AbortKeeps ==
    ASSUME ReaderInv, aborted' \in BOOLEAN,
           UNCHANGED <<cache, latch, memory, readers, dirty, result>>
    PROVE  ReaderInv'
    <1>0. ReaderTypes /\ PagePlaces /\ DataInPlace /\ ReadersHoldLatches /\ ReadsOwnPage
        BY DEF ReaderInv
    <1>1. ReaderTypes'
        BY <1>0 DEF ReaderTypes, Latched
    <1>2. PagePlaces'
        BY <1>0, SamePlaces DEF Latched, PagePlaces
    <1>3. DataInPlace'
        BY <1>0 DEF DataInPlace, Latched
    <1>4. ReadersHoldLatches' /\ ReadsOwnPage'
        BY <1>0, SameLatches DEF ReadsOwnPage
    <1> QED BY <1>1, <1>2, <1>3, <1>4 DEF ReaderInv

\* A page leaves the cache, with what it held: the data of the keys that stay is
\* where it was.
LEMMA AllocatedData ==
    ASSUME ReaderTypes, PagePlaces, DataInPlace, NEW a \in CacheAllocate(cache),
           memory' = [memory EXCEPT ![a.page] = Nothing]
    PROVE  /\ a.page \in Pages /\ a.page \in Owned(cache)
           /\ a.page \notin LatchedPages /\ a.page \notin HeldPages
           /\ CacheOK(Keys, a.cache) /\ Owned(a.cache) = Owned(cache) \ {a.page}
           /\ Cached(a.cache) \subseteq Cached(cache)
           /\ \A k \in Cached(a.cache) : memory'[a.cache.item[k]] = k
           /\ \A k \in Latched : latch[k].released => memory'[latch[k].page] = k
           /\ memory' \in [Pages -> Keys \cup {Nothing}]
    <1>1. /\ a.page \in Owned(cache) /\ a.page \in Pages
          /\ CacheOK(Keys, a.cache) /\ Owned(a.cache) = Owned(cache) \ {a.page}
          /\ Cached(a.cache) \subseteq Cached(cache)
          /\ \A k \in Cached(a.cache) : a.cache.item[k] = cache.item[k]
        BY AllocateOK DEF PagePlaces, KeepsPages
    <1>2. a.page \notin LatchedPages /\ a.page \notin HeldPages
        BY <1>1 DEF PagePlaces
    <1>3. /\ memory' \in [Pages -> Keys \cup {Nothing}]
          /\ \A p \in Pages : p # a.page => memory'[p] = memory[p]
        BY <1>1 DEF ReaderTypes
    <1>4. ASSUME NEW k \in Cached(a.cache) PROVE memory'[a.cache.item[k]] = k
        <2>1. a.cache.item[k] \in Owned(a.cache) /\ a.cache.item[k] \in Pages
            BY <1>1, <1>4 DEF Owned, Mapped, CacheOK, PagesMatchMap
        <2>2. k \in Cached(cache) /\ a.cache.item[k] = cache.item[k] /\ a.cache.item[k] # a.page
            BY <1>1, <1>4, <2>1
        <2>3. memory[cache.item[k]] = k
            BY <2>2 DEF DataInPlace
        <2> QED BY <1>3, <2>1, <2>2, <2>3
    <1>5. ASSUME NEW k \in Latched, latch[k].released PROVE memory'[latch[k].page] = k
        <2>1. latch[k].page \in Pages /\ latch[k].page # a.page
            BY <1>2, <1>5 DEF LatchedPages, ReaderTypes, LatchRecords
        <2> QED BY <1>3, <1>5, <2>1 DEF DataInPlace
    <1> QED BY <1>1, <1>2, <1>3, <1>4, <1>5

LEMMA MissKeeps ==
    ASSUME ReaderInv, NEW r \in Readers, NEW key \in Keys, Miss(r, key)
    PROVE  ReaderInv'
    <1>0. ReaderTypes /\ PagePlaces /\ DataInPlace /\ ReadersHoldLatches /\ ReadsOwnPage
        BY DEF ReaderInv
    <1>1. /\ readers[r].at = "idle" /\ key \notin Cached(cache) /\ key \notin Latched
          /\ UNCHANGED <<dirty, result>>
        BY DEF Miss, StartRead
    <1>2. CASE CacheAllocate(cache) = {}
        <2>1. aborted' = TRUE /\ UNCHANGED <<cache, latch, memory, readers>>
            BY <1>2 DEF Miss, StartRead
        <2> QED BY <1>1, <2>1, AbortKeeps
    <1>3. CASE CacheAllocate(cache) # {}
        <2>1. PICK a \in CacheAllocate(cache) :
                /\ cache' = a.cache
                /\ latch' = Latch(key, [ref_count |-> 1, released |-> FALSE, page |-> a.page])
                /\ memory' = [memory EXCEPT ![a.page] = Nothing]
                /\ readers' = [readers EXCEPT ![r] =
                                 [at |-> "reading", key |-> key, page |-> a.page]]
                /\ UNCHANGED aborted
            BY <1>3 DEF Miss, StartRead
        <2> DEFINE e == [ref_count |-> 1, released |-> FALSE, page |-> a.page]
        <2>2. /\ a.page \in Pages /\ a.page \in Owned(cache)
              /\ a.page \notin LatchedPages /\ a.page \notin HeldPages
              /\ CacheOK(Keys, cache') /\ Owned(cache') = Owned(cache) \ {a.page}
              /\ Cached(cache') \subseteq Cached(cache)
              /\ \A k \in Cached(cache') : memory'[cache'.item[k]] = k
              /\ \A k \in Latched : latch[k].released => memory'[latch[k].page] = k
              /\ memory' \in [Pages -> Keys \cup {Nothing}]
            BY <1>0, <2>1, AllocatedData
        <2>3. /\ e \in LatchRecords /\ e.ref_count = 1 /\ e.released = FALSE /\ e.page = a.page
            BY <2>2 DEF LatchRecords
        <2>4. latch' = Latch(key, e)
            BY <2>1
        <2> HIDE DEF e
        <2>5. /\ Latched' = Latched \cup {key} /\ latch'[key] = e
              /\ \A k \in Latched : k # key => latch'[k] = latch[k]
            BY <2>4, LatchShape
        <2>6. \A k \in Latched : latch'[k] = latch[k]
            BY <1>1, <2>5
        <2>7. /\ readers' \in [Readers -> [at : Places, key : Keys \cup {Nothing}, page : Pages \cup {NoPage}]]
              /\ readers'[r].at = "reading" /\ readers'[r].key = key /\ readers'[r].page = a.page
              /\ \A q \in Readers : q # r => readers'[q] = readers[q]
            BY <1>0, <2>1, <2>2 DEF ReaderTypes, Places
        <2>8. ReaderTypes'
            <3>1. Latched' \subseteq Keys /\ \A k \in Latched' : latch'[k] \in LatchRecords
                BY <1>0, <2>3, <2>5, <2>6 DEF ReaderTypes
            <3> QED BY <1>0, <1>1, <2>1, <2>2, <2>7, <3>1 DEF ReaderTypes
        <2>9. PagePlaces'
            <3>1. LatchedPages' = LatchedPages \cup {a.page}
                BY <2>3, <2>5, <2>6 DEF LatchedPages
            <3>2. HeldPages' = HeldPages
                BY <1>1 DEF HeldPages
            <3>3. /\ Pages = Owned(cache') \cup LatchedPages' \cup HeldPages'
                  /\ LatchedPages' \cap Owned(cache') = {}
                  /\ HeldPages' \cap (Owned(cache') \cup LatchedPages') = {}
                BY <1>0, <2>2, <3>1, <3>2 DEF PagePlaces
            <3>4. \A k \in Latched : latch[k].page # a.page
                BY <2>2 DEF LatchedPages
            <3>5. \A k, l \in Latched' : latch'[k].page = latch'[l].page => k = l
                BY <1>0, <2>3, <2>5, <2>6, <3>4 DEF PagePlaces
            <3> QED BY <1>0, <1>1, <2>2, <3>3, <3>5 DEF PagePlaces
        <2>10. DataInPlace'
            <3>1. Cached(cache') \cap Latched' = {}
                BY <1>0, <1>1, <2>2, <2>5 DEF DataInPlace
            <3>2. \A k \in Latched' : latch'[k].released => memory'[latch'[k].page] = k
                BY <2>2, <2>3, <2>5, <2>6
            <3> QED BY <2>2, <3>1, <3>2 DEF DataInPlace
        <2>11. ReadersHoldLatches'
            <3>1. ASSUME NEW q \in Readers, readers'[q].at # "idle"
                  PROVE  /\ readers'[q].key \in Latched'
                         /\ latch'[readers'[q].key].page = readers'[q].page
                         /\ latch'[readers'[q].key].released <=> readers'[q].at = "woken"
                <4>1. CASE q = r
                    BY <2>3, <2>5, <2>7, <4>1
                <4>2. CASE q # r
                    <5>1. readers'[q] = readers[q]
                        BY <2>7, <4>2
                    <5>2. /\ readers[q].key \in Latched
                          /\ latch[readers[q].key].page = readers[q].page
                          /\ latch[readers[q].key].released <=> readers[q].at = "woken"
                        BY <1>0, <3>1, <5>1 DEF ReadersHoldLatches
                    <5> QED BY <2>5, <2>6, <5>1, <5>2
                <4> QED BY <4>1, <4>2
            <3>2. \A q \in Readers : q # r /\ readers'[q].at # "idle" => readers'[q].key # key
                BY <1>0, <1>1, <2>7 DEF ReadersHoldLatches
            <3>3. ASSUME NEW q \in Readers, NEW p \in Readers, readers'[q].at = "reading",
                         readers'[p].at = "reading", readers'[q].key = readers'[p].key
                  PROVE  q = p
                BY <1>0, <2>7, <3>2, <3>3 DEF ReadersHoldLatches
            <3>4. ASSUME NEW k \in Latched' PROVE Cardinality(Using(k)') <= latch'[k].ref_count
                <4>1. CASE k = key
                    <5>1. Using(k)' = {r}
                        BY <2>7, <3>2, <4>1 DEF Using
                    <5>2. Cardinality(Using(k)') = 1 /\ latch'[k].ref_count = 1
                        BY <2>3, <2>5, <4>1, <5>1, FS_Singleton
                    <5> QED BY <5>2
                <4>2. CASE k # key
                    <5>1. Using(k)' = Using(k)
                        BY <1>1, <2>7, <4>2 DEF Using
                    <5> QED BY <1>0, <2>5, <2>6, <3>4, <4>2, <5>1 DEF ReadersHoldLatches
                <4> QED BY <4>1, <4>2
            <3> QED BY <3>1, <3>3, <3>4 DEF ReadersHoldLatches
        <2>12. ReadsOwnPage'
            BY <1>0, <1>1 DEF ReadsOwnPage
        <2> QED BY <2>8, <2>9, <2>10, <2>11, <2>12 DEF ReaderInv
    <1> QED BY <1>2, <1>3

LEMMA JoinKeeps ==
    ASSUME ReaderInv, NEW r \in Readers, NEW key \in Keys, Join(r, key)
    PROVE  ReaderInv'
    <1>0. ReaderTypes /\ PagePlaces /\ DataInPlace /\ ReadersHoldLatches /\ ReadsOwnPage
        BY DEF ReaderInv
    <1> DEFINE e == [latch[key] EXCEPT !.ref_count = @ + 1]
    <1>1. /\ readers[r].at = "idle" /\ key \in Latched /\ ~latch[key].released
          /\ latch' = Latch(key, e)
          /\ readers' = [readers EXCEPT ![r] = [at |-> "waiting", key |-> key,
                                                page |-> latch[key].page]]
          /\ UNCHANGED <<cache, memory, dirty, result, aborted>>
        BY DEF Join
    <1>2. /\ latch[key] \in LatchRecords /\ e \in LatchRecords
          /\ e.ref_count = latch[key].ref_count + 1 /\ e.page = latch[key].page
          /\ e.released = latch[key].released /\ latch[key].page \in Pages
        BY <1>0, <1>1 DEF ReaderTypes, LatchRecords
    <1> HIDE DEF e
    <1>3. /\ Latched' = Latched /\ latch'[key] = e
          /\ \A k \in Latched : k # key => latch'[k] = latch[k]
        BY <1>1, LatchShape
    <1>4. \A k \in Latched : latch'[k].page = latch[k].page /\ latch'[k].released = latch[k].released
        BY <1>2, <1>3
    <1>5. /\ readers' \in [Readers -> [at : Places, key : Keys \cup {Nothing}, page : Pages \cup {NoPage}]]
          /\ readers'[r].at = "waiting" /\ readers'[r].key = key /\ readers'[r].page = latch[key].page
          /\ \A q \in Readers : q # r => readers'[q] = readers[q]
        BY <1>0, <1>1, <1>2 DEF ReaderTypes, Places
    <1>6. ReaderTypes'
        <2>1. Latched' \subseteq Keys /\ \A k \in Latched' : latch'[k] \in LatchRecords
            BY <1>0, <1>2, <1>3 DEF ReaderTypes
        <2> QED BY <1>0, <1>1, <1>5, <2>1 DEF ReaderTypes
    <1>7. PagePlaces'
        BY <1>0, <1>1, <1>3, <1>4, SamePlaces DEF PagePlaces
    <1>8. DataInPlace'
        BY <1>0, <1>1, <1>3, <1>4 DEF DataInPlace, Cached
    <1>9. ReadersHoldLatches'
        <2>1. ASSUME NEW q \in Readers, readers'[q].at # "idle"
              PROVE  /\ readers'[q].key \in Latched'
                     /\ latch'[readers'[q].key].page = readers'[q].page
                     /\ latch'[readers'[q].key].released <=> readers'[q].at = "woken"
            <3>1. CASE q = r
                BY <1>1, <1>3, <1>4, <1>5, <3>1
            <3>2. CASE q # r
                <4>1. readers'[q] = readers[q]
                    BY <1>5, <3>2
                <4>2. /\ readers[q].key \in Latched
                      /\ latch[readers[q].key].page = readers[q].page
                      /\ latch[readers[q].key].released <=> readers[q].at = "woken"
                    BY <1>0, <2>1, <4>1 DEF ReadersHoldLatches
                <4> QED BY <1>3, <1>4, <4>1, <4>2
            <3> QED BY <3>1, <3>2
        <2>2. ASSUME NEW q \in Readers, NEW p \in Readers, readers'[q].at = "reading",
                     readers'[p].at = "reading", readers'[q].key = readers'[p].key
              PROVE  q = p
            <3>1. q # r /\ p # r
                BY <1>5, <2>2
            <3> QED BY <1>0, <1>5, <2>2, <3>1 DEF ReadersHoldLatches
        <2>3. ASSUME NEW k \in Latched PROVE Cardinality(Using(k)') <= latch'[k].ref_count
            <3>0. Using(k) \subseteq Readers /\ Cardinality(Using(k)) <= latch[k].ref_count
                BY <1>0 DEF ReadersHoldLatches, Using
            <3>1. CASE k = key
                <4>1. Using(k)' = Using(k) \cup {r}
                    BY <1>1, <1>5, <3>1 DEF Using
                <4>2. Cardinality(Using(k)') <= Cardinality(Using(k)) + 1
                    BY <3>0, <4>1, UsingFinite
                <4>3. /\ Cardinality(Using(k)) \in Nat /\ latch[k].ref_count \in Nat
                      /\ Cardinality(Using(k)') \in Nat
                      /\ latch'[k].ref_count = latch[k].ref_count + 1
                    <5>1. Using(k)' \subseteq Readers
                        BY DEF Using
                    <5> QED BY <1>2, <1>3, <3>0, <3>1, <5>1, UsingFinite DEF LatchRecords
                <4> HIDE DEF e
                <4> QED BY <3>0, <4>2, <4>3
            <3>2. CASE k # key
                <4>1. Using(k)' = Using(k)
                    BY <1>1, <1>5, <3>2 DEF Using
                <4> QED BY <1>3, <3>0, <3>2, <4>1
            <3> QED BY <3>1, <3>2
        <2> QED BY <1>3, <2>1, <2>2, <2>3 DEF ReadersHoldLatches
    <1>10. ReadsOwnPage'
        BY <1>0, <1>1 DEF ReadsOwnPage
    <1> QED BY <1>6, <1>7, <1>8, <1>9, <1>10 DEF ReaderInv

\* A late reader takes a reference and gives it back.
LEMMA JoinLateKeeps ==
    ASSUME ReaderInv, NEW r \in Readers, NEW key \in Keys, JoinLate(r, key)
    PROVE  ReaderInv'
    <1>0. ReaderTypes /\ PagePlaces /\ DataInPlace /\ ReadersHoldLatches /\ ReadsOwnPage
        BY DEF ReaderInv
    <1> DEFINE e == [latch[key] EXCEPT !.ref_count = @ + 1]
               f == [e EXCEPT !.ref_count = @ - 1]
    <1>1. /\ key \in Latched /\ latch[key].released
          /\ memory' = memory /\ UNCHANGED <<readers, dirty>>
          /\ Leave(r, key, latch[key].page, e)
        BY DEF JoinLate
    <1>2. /\ latch[key].page \in Pages /\ latch[key].ref_count \in Nat \ {0}
          /\ e.ref_count = latch[key].ref_count + 1 /\ e.page = latch[key].page
          /\ e.released = latch[key].released /\ e \in LatchRecords
        <2>1. latch[key] \in LatchRecords
            BY <1>0, <1>1 DEF ReaderTypes
        <2>2. /\ latch[key].page \in Pages /\ latch[key].ref_count \in Nat \ {0}
              /\ latch[key].released \in BOOLEAN
            BY <2>1 DEF LatchRecords
        <2>3. /\ e.ref_count = latch[key].ref_count + 1 /\ e.page = latch[key].page
              /\ e.released = latch[key].released
            BY <2>1 DEF LatchRecords
        <2>4. latch[key].ref_count + 1 \in Nat \ {0}
            BY <2>2
        <2>5. e \in LatchRecords
            BY <2>1, <2>4 DEF LatchRecords
        <2> QED BY <2>2, <2>3, <2>5
    <1>3. e.ref_count > 1 /\ e.ref_count # 1
        BY <1>2
    <1>4. /\ latch' = Latch(key, f) /\ cache' = cache /\ aborted' = FALSE
          /\ result' = [result EXCEPT ![r] = <<key, memory'[latch[key].page]>>]
        BY <1>1, <1>3 DEF Leave
    <1>5. /\ f.ref_count = e.ref_count - 1 /\ f.page = e.page /\ f.released = e.released
          /\ f.ref_count = latch[key].ref_count
        BY <1>2 DEF LatchRecords
    <1>6. f \in LatchRecords
        BY <1>2, <1>5 DEF LatchRecords
    <1> HIDE DEF e, f
    <1>7. /\ Latched' = Latched /\ latch'[key] = f
          /\ \A k \in Latched : k # key => latch'[k] = latch[k]
        BY <1>1, <1>4, LatchShape
    <1>8. \A k \in Latched : /\ latch'[k].page = latch[k].page
                             /\ latch'[k].released = latch[k].released
                             /\ latch'[k].ref_count = latch[k].ref_count
        BY <1>2, <1>5, <1>7
    <1>9. ReaderTypes'
        <2>1. Latched' \subseteq Keys /\ \A k \in Latched' : latch'[k] \in LatchRecords
            BY <1>0, <1>6, <1>7 DEF ReaderTypes
        <2> QED BY <1>0, <1>1, <1>4, <2>1 DEF ReaderTypes
    <1>10. PagePlaces'
        BY <1>0, <1>1, <1>4, <1>7, <1>8, SamePlaces DEF PagePlaces
    <1>11. DataInPlace'
        BY <1>0, <1>1, <1>4, <1>7, <1>8 DEF DataInPlace, Cached
    <1>12. ReadersHoldLatches'
        <2>1. \A k : Using(k)' = Using(k)
            BY <1>1 DEF Using
        <2>2. \A q \in Readers : readers'[q].at # "idle" =>
                 /\ readers'[q].key \in Latched'
                 /\ latch'[readers'[q].key].page = readers'[q].page
                 /\ latch'[readers'[q].key].released <=> readers'[q].at = "woken"
            BY <1>0, <1>1, <1>7, <1>8 DEF ReadersHoldLatches
        <2> QED BY <1>0, <1>1, <1>7, <1>8, <2>1, <2>2 DEF ReadersHoldLatches
    <1>13. ReadsOwnPage'
        BY <1>0, <1>1, <1>4 DEF ReadsOwnPage, ReaderTypes, DataInPlace
    <1> QED BY <1>9, <1>10, <1>11, <1>12, <1>13 DEF ReaderInv

\* A reader that fails leaves its latch behind, and its reference with it.
LEMMA ReadFailsKeeps ==
    ASSUME ReaderInv, NEW r \in Readers, ReadFails(r)
    PROVE  ReaderInv'
    <1>0. ReaderTypes /\ PagePlaces /\ DataInPlace /\ ReadersHoldLatches /\ ReadsOwnPage
        BY DEF ReaderInv
    <1>1. /\ readers' = [readers EXCEPT ![r] = Idle]
          /\ UNCHANGED <<cache, latch, memory, dirty, result, aborted>>
        BY DEF ReadFails
    <1>2. /\ readers' \in [Readers -> [at : Places, key : Keys \cup {Nothing}, page : Pages \cup {NoPage}]]
          /\ readers'[r].at = "idle"
          /\ \A q \in Readers : q # r => readers'[q] = readers[q]
        BY <1>0, <1>1 DEF ReaderTypes, Places, Idle
    <1>3. ReaderTypes'
        BY <1>0, <1>1, <1>2 DEF ReaderTypes, Latched
    <1>4. PagePlaces'
        BY <1>0, <1>1, SamePlaces DEF PagePlaces, Latched
    <1>5. DataInPlace' /\ ReadsOwnPage'
        BY <1>0, <1>1 DEF DataInPlace, Latched, ReadsOwnPage
    <1>6. ReadersHoldLatches'
        <2>1. ASSUME NEW k \in Latched PROVE Cardinality(Using(k)') <= latch[k].ref_count
            <3>1. Using(k)' \subseteq Using(k)
                BY <1>2 DEF Using
            <3>2. Using(k) \subseteq Readers /\ Using(k)' \subseteq Readers
                BY DEF Using
            <3>3. Cardinality(Using(k)') <= Cardinality(Using(k))
                BY <3>1, <3>2, UsingFinite
            <3>4. Cardinality(Using(k)) \in Nat /\ Cardinality(Using(k)') \in Nat
                BY <3>2, UsingFinite
            <3>5. Cardinality(Using(k)) <= latch[k].ref_count /\ latch[k].ref_count \in Nat
                BY <1>0 DEF ReadersHoldLatches, ReaderTypes, LatchRecords
            <3> QED BY <3>3, <3>4, <3>5
        <2>2. Latched' = Latched /\ latch' = latch
            BY <1>1 DEF Latched
        <2>3. \A q \in Readers : readers'[q].at # "idle" =>
                 /\ readers'[q].key \in Latched'
                 /\ latch'[readers'[q].key].page = readers'[q].page
                 /\ latch'[readers'[q].key].released <=> readers'[q].at = "woken"
            BY <1>0, <1>2, <2>2 DEF ReadersHoldLatches
        <2>4. ASSUME NEW q \in Readers, NEW p \in Readers, readers'[q].at = "reading",
                     readers'[p].at = "reading", readers'[q].key = readers'[p].key
              PROVE  q = p
            <3>1. q # r /\ p # r
                BY <1>2, <2>4
            <3> QED BY <1>0, <1>2, <2>4, <3>1 DEF ReadersHoldLatches
        <2> QED BY <2>1, <2>2, <2>3, <2>4 DEF ReadersHoldLatches
    <1> QED BY <1>3, <1>4, <1>5, <1>6 DEF ReaderInv

-----------------------------------------------------------------------------
(* disk_writer *)

LEMMA TakePageKeeps ==
    ASSUME ReaderInv, NEW wr \in Writers, TakePage(wr)
    PROVE  ReaderInv'
    <1>0. ReaderTypes /\ PagePlaces /\ DataInPlace /\ ReadersHoldLatches /\ ReadsOwnPage
        BY DEF ReaderInv
    <1>1. dirty[wr] = NoPage /\ UNCHANGED <<latch, readers, result>>
        BY DEF TakePage
    <1>2. CASE CacheAllocate(cache) = {}
        <2>1. aborted' = TRUE /\ UNCHANGED <<cache, dirty, memory>>
            BY <1>2 DEF TakePage
        <2> QED BY <1>1, <2>1, AbortKeeps
    <1>3. CASE CacheAllocate(cache) # {}
        <2>1. PICK a \in CacheAllocate(cache) :
                /\ cache' = a.cache
                /\ dirty' = [dirty EXCEPT ![wr] = a.page]
                /\ memory' = [memory EXCEPT ![a.page] = Nothing]
                /\ UNCHANGED aborted
            BY <1>3 DEF TakePage
        <2>2. /\ a.page \in Pages /\ a.page \in Owned(cache)
              /\ a.page \notin LatchedPages /\ a.page \notin HeldPages
              /\ CacheOK(Keys, cache') /\ Owned(cache') = Owned(cache) \ {a.page}
              /\ Cached(cache') \subseteq Cached(cache)
              /\ \A k \in Cached(cache') : memory'[cache'.item[k]] = k
              /\ \A k \in Latched : latch[k].released => memory'[latch[k].page] = k
              /\ memory' \in [Pages -> Keys \cup {Nothing}]
            BY <1>0, <2>1, AllocatedData
        <2>3. a.page # NoPage
            BY <2>2, PagesAssumption DEF NoPage
        <2>4. /\ dirty' \in [Writers -> Pages \cup {NoPage}] /\ dirty'[wr] = a.page
              /\ \A v \in Writers : v # wr => dirty'[v] = dirty[v]
            BY <1>0, <2>1, <2>2 DEF ReaderTypes
        <2>5. ReaderTypes'
            BY <1>0, <1>1, <2>1, <2>2, <2>4 DEF ReaderTypes, Latched
        <2>6. PagePlaces'
            <3>1. LatchedPages' = LatchedPages
                BY <1>1 DEF LatchedPages, Latched
            <3>2. HeldPages' = HeldPages \cup {a.page}
                <4>1. ASSUME NEW x \in HeldPages' PROVE x \in HeldPages \cup {a.page}
                    <5>1. PICK v \in Writers : x = dirty'[v] /\ x # NoPage
                        BY <4>1 DEF HeldPages
                    <5> QED BY <2>4, <5>1 DEF HeldPages
                <4>2. ASSUME NEW x \in HeldPages PROVE x \in HeldPages'
                    <5>1. PICK v \in Writers : x = dirty[v] /\ x # NoPage
                        BY <4>2 DEF HeldPages
                    <5>2. v # wr /\ dirty'[v] = x
                        BY <1>1, <2>4, <5>1
                    <5> QED BY <5>1, <5>2 DEF HeldPages
                <4>3. a.page \in HeldPages'
                    BY <2>3, <2>4 DEF HeldPages
                <4> QED BY <4>1, <4>2, <4>3
            <3>3. /\ Pages = Owned(cache') \cup LatchedPages' \cup HeldPages'
                  /\ LatchedPages' \cap Owned(cache') = {}
                  /\ HeldPages' \cap (Owned(cache') \cup LatchedPages') = {}
                BY <1>0, <2>2, <3>1, <3>2 DEF PagePlaces
            <3>4. \A v \in Writers : dirty[v] # a.page
                BY <2>2, <2>3 DEF HeldPages
            <3>5. \A v, w \in Writers : dirty'[v] # NoPage /\ dirty'[v] = dirty'[w] => v = w
                BY <1>0, <2>4, <3>4 DEF PagePlaces
            <3> QED BY <1>0, <1>1, <2>2, <3>3, <3>5 DEF PagePlaces, Latched
        <2>7. DataInPlace'
            BY <1>0, <1>1, <2>2 DEF DataInPlace, Latched
        <2>8. ReadersHoldLatches' /\ ReadsOwnPage'
            BY <1>0, <1>1, SameLatches DEF ReadsOwnPage
        <2> QED BY <2>5, <2>6, <2>7, <2>8 DEF ReaderInv
    <1> QED BY <1>2, <1>3

LEMMA ReturnPageKeeps ==
    ASSUME ReaderInv, NEW wr \in Writers, ReturnPage(wr)
    PROVE  ReaderInv'
    <1>0. ReaderTypes /\ PagePlaces /\ DataInPlace /\ ReadersHoldLatches /\ ReadsOwnPage
        BY DEF ReaderInv
    <1> DEFINE page == dirty[wr]
    <1>1. /\ page # NoPage /\ cache' = FreePage(cache, page)
          /\ dirty' = [dirty EXCEPT ![wr] = NoPage]
          /\ UNCHANGED <<latch, memory, readers, result, aborted>>
        BY DEF ReturnPage
    <1>2. page \in HeldPages /\ page \in Pages
        BY <1>0, <1>1 DEF HeldPages, ReaderTypes
    <1>3. page \notin Mapped(cache) /\ CacheOK(Keys, cache)
        BY <1>0, <1>2 DEF PagePlaces, Owned
    <1>4. /\ dirty' \in [Writers -> Pages \cup {NoPage}] /\ dirty'[wr] = NoPage
          /\ \A v \in Writers : v # wr => dirty'[v] = dirty[v]
        BY <1>0, <1>1 DEF ReaderTypes
    <1>5. \A v \in Writers : v # wr => dirty[v] # page
        BY <1>0, <1>1 DEF PagePlaces
    <1>6. HeldPages' = HeldPages \ {page}
        <2>1. ASSUME NEW x \in HeldPages' PROVE x \in HeldPages /\ x # page
            <3>1. PICK v \in Writers : x = dirty'[v] /\ x # NoPage
                BY <2>1 DEF HeldPages
            <3>2. v # wr /\ x = dirty[v]
                BY <1>4, <3>1
            <3> QED BY <1>5, <3>1, <3>2 DEF HeldPages
        <2>2. ASSUME NEW x \in HeldPages, x # page PROVE x \in HeldPages'
            <3>1. PICK v \in Writers : x = dirty[v] /\ x # NoPage
                BY <2>2 DEF HeldPages
            <3>2. v # wr /\ x = dirty'[v]
                BY <1>4, <2>2, <3>1
            <3> QED BY <3>1, <3>2 DEF HeldPages
        <2> QED BY <2>1, <2>2
    <1> HIDE DEF page
    <1>7. CacheOK(Keys, cache') /\ Owned(cache') = Owned(cache) \cup {page} /\ cache'.item = cache.item
        BY <1>1, <1>2, <1>3, FreePageOK
    <1>8. ReaderTypes'
        BY <1>0, <1>1, <1>4 DEF ReaderTypes, Latched
    <1>9. PagePlaces'
        <2>1. LatchedPages' = LatchedPages
            BY <1>1 DEF LatchedPages, Latched
        <2>2. /\ Pages = Owned(cache') \cup LatchedPages' \cup HeldPages'
              /\ LatchedPages' \cap Owned(cache') = {}
              /\ HeldPages' \cap (Owned(cache') \cup LatchedPages') = {}
            BY <1>0, <1>2, <1>6, <1>7, <2>1 DEF PagePlaces
        <2>3. \A v, w \in Writers : dirty'[v] # NoPage /\ dirty'[v] = dirty'[w] => v = w
            BY <1>0, <1>4 DEF PagePlaces
        <2> QED BY <1>0, <1>1, <1>7, <2>2, <2>3 DEF PagePlaces, Latched
    <1>10. DataInPlace'
        BY <1>0, <1>1, <1>7 DEF DataInPlace, Latched, Cached
    <1>11. ReadersHoldLatches' /\ ReadsOwnPage'
        BY <1>0, <1>1, SameLatches DEF ReadsOwnPage
    <1> QED BY <1>8, <1>9, <1>10, <1>11 DEF ReaderInv

-----------------------------------------------------------------------------
(* The theorems about DiskReader. *)

LEMMA ReaderStep == ReaderInv /\ [DiskReaderNext]_readerVars => ReaderInv'
    <1> SUFFICES ASSUME ReaderInv, [DiskReaderNext]_readerVars PROVE ReaderInv'
        OBVIOUS
    <1>1. ASSUME NEW r \in Readers, NEW key \in Keys,
                 Hit(r, key) \/ Miss(r, key) \/ Join(r, key) \/ JoinLate(r, key)
          PROVE  ReaderInv'
        BY <1>1, HitKeeps, MissKeeps, JoinKeeps, JoinLateKeeps
    <1>2. ASSUME NEW r \in Readers, ReadDone(r) \/ ReadFails(r) \/ Resume(r) PROVE ReaderInv'
        BY <1>2, ReadDoneKeeps, ReadFailsKeeps, ResumeKeeps
    <1>3. ASSUME NEW wr \in Writers, TakePage(wr) \/ ReturnPage(wr) PROVE ReaderInv'
        BY <1>3, TakePageKeeps, ReturnPageKeeps
    <1>4. CASE UNCHANGED readerVars
        <2>1. aborted \in BOOLEAN
            BY DEF ReaderInv, ReaderTypes
        <2> QED BY <1>4, <2>1, AbortKeeps DEF readerVars
    <1> QED BY <1>1, <1>2, <1>3, <1>4 DEF DiskReaderNext

LEMMA ReaderInitially == DiskReaderInit => ReaderInv
    <1> SUFFICES ASSUME DiskReaderInit PROVE ReaderInv
        OBVIOUS
    <1>1. /\ cache = EmptyCache /\ latch = <<>> /\ memory = [p \in Pages |-> Nothing]
          /\ readers = [r \in Readers |-> Idle] /\ dirty = [wr \in Writers |-> NoPage]
          /\ result = [r \in Readers |-> <<Nothing, Nothing>>] /\ aborted = FALSE
        BY DEF DiskReaderInit
    <1>2. Latched = {}
        BY <1>1 DEF Latched
    <1>3. \A r \in Readers : readers[r].at = "idle"
        BY <1>1 DEF Idle
    <1>4. ReaderTypes
        <2>1. Idle \in [at : Places, key : Keys \cup {Nothing}, page : Pages \cup {NoPage}]
            BY DEF Idle, Places
        <2> QED BY <1>1, <1>2, <2>1 DEF ReaderTypes
    <1>5. /\ DOMAIN cache = ListFields \cup {"free"}
          /\ cache.window = <<>> /\ cache.a1 = <<>> /\ cache.a2 = <<>> /\ cache.free = Pages
          /\ cache.item = <<>> /\ Cached(cache) = {}
        BY <1>1 DEF EmptyCache, ListFields, Cached
    <1>6. ListsOK(Keys, cache)
        <2>1. /\ <<>> \in Seq(Keys) /\ IsInjective(<<>>) /\ ToSet(<<>>) = {} /\ Len(<<>>) = 0
            BY ShortSeqs
        <2>2. 0 <= WindowMax /\ 0 <= A1Max /\ 0 <= A2Max
            BY Limits
        <2>3. Lists(Keys, <<>>, <<>>, <<>>, {})
            BY <2>1, <2>2 DEF Lists
        <2> QED BY <1>5, <2>3 DEF ListsOK
    <1>7. CacheOK(Keys, cache) /\ Owned(cache) = Pages
        BY <1>5, <1>6 DEF CacheOK, PagesMatchMap, Owned, Mapped
    <1>8. LatchedPages = {} /\ HeldPages = {}
        BY <1>1, <1>2 DEF LatchedPages, HeldPages
    <1>9. PagePlaces
        BY <1>1, <1>2, <1>7, <1>8 DEF PagePlaces
    <1>10. DataInPlace
        BY <1>2, <1>5 DEF DataInPlace
    <1>11. ReadersHoldLatches
        BY <1>2, <1>3 DEF ReadersHoldLatches
    <1>12. ReadsOwnPage
        BY <1>1 DEF ReadsOwnPage
    <1> QED BY <1>4, <1>9, <1>10, <1>11, <1>12 DEF ReaderInv

LEMMA PagesCounted ==
    ASSUME ReaderInv
    PROVE  Cardinality(cache.free) + Cardinality(Cached(cache)) + Cardinality(Latched)
             + Cardinality({wr \in Writers : dirty[wr] # NoPage}) = Cardinality(Pages)
    <1> DEFINE holders == {wr \in Writers : dirty[wr] # NoPage}
               F == cache.free
               M == Mapped(cache)
    <1>0. ReaderTypes /\ PagePlaces /\ CacheOK(Keys, cache) /\ PagesMatchMap(cache)
        BY DEF ReaderInv, PagePlaces, CacheOK
    <1>1. /\ Pages = F \cup M \cup LatchedPages \cup HeldPages
          /\ F \cap M = {} /\ (F \cup M) \cap LatchedPages = {}
          /\ (F \cup M \cup LatchedPages) \cap HeldPages = {}
        BY <1>0 DEF PagePlaces, Owned, PagesMatchMap, Mapped
    <1>2. /\ IsFiniteSet(F) /\ IsFiniteSet(M) /\ IsFiniteSet(LatchedPages) /\ IsFiniteSet(HeldPages)
        BY <1>1, PagesAssumption, FS_Subset
    <1>3. Cardinality(Cached(cache)) = Cardinality(M)
        <2> DEFINE f == [k \in Cached(cache) |-> cache.item[k]]
        <2>1. /\ f \in [Cached(cache) -> M]
              /\ \A x, y \in Cached(cache) : f[x] = f[y] => x = y
              /\ \A t \in M : \E x \in Cached(cache) : f[x] = t
            BY <1>0 DEF PagesMatchMap, Mapped
        <2> HIDE DEF f, M
        <2> QED BY <1>2, <2>1, SameSize
    <1>4. Cardinality(Latched) = Cardinality(LatchedPages)
        <2> DEFINE f == [k \in Latched |-> latch[k].page]
        <2>1. /\ f \in [Latched -> LatchedPages]
              /\ \A x, y \in Latched : f[x] = f[y] => x = y
              /\ \A t \in LatchedPages : \E x \in Latched : f[x] = t
            BY <1>0 DEF PagePlaces, LatchedPages
        <2> HIDE DEF f
        <2> QED BY <1>2, <2>1, SameSize
    <1>5. Cardinality(holders) = Cardinality(HeldPages)
        <2> DEFINE f == [wr \in holders |-> dirty[wr]]
        <2>1. /\ f \in [holders -> HeldPages]
              /\ \A x, y \in holders : f[x] = f[y] => x = y
              /\ \A t \in HeldPages : \E x \in holders : f[x] = t
            BY <1>0 DEF PagePlaces, HeldPages
        <2> HIDE DEF f, holders
        <2> QED BY <1>2, <2>1, SameSize
    <1> HIDE DEF F, M, holders
    <1>6. /\ IsFiniteSet(F \cup M) /\ Cardinality(F \cup M) = Cardinality(F) + Cardinality(M)
          /\ Cardinality(F) \in Nat /\ Cardinality(M) \in Nat
        BY <1>1, <1>2, CardDisjoint
    <1>7. /\ IsFiniteSet(F \cup M \cup LatchedPages)
          /\ Cardinality(F \cup M \cup LatchedPages) = Cardinality(F \cup M) + Cardinality(LatchedPages)
          /\ Cardinality(LatchedPages) \in Nat
        BY <1>1, <1>2, <1>6, CardDisjoint
    <1>8. /\ Cardinality(Pages) = Cardinality(F \cup M \cup LatchedPages) + Cardinality(HeldPages)
          /\ Cardinality(HeldPages) \in Nat
        BY <1>1, <1>2, <1>7, CardDisjoint
    <1>9. Cardinality(F) + Cardinality(Cached(cache)) + Cardinality(Latched)
             + Cardinality(holders) = Cardinality(Pages)
        BY <1>3, <1>4, <1>5, <1>6, <1>7, <1>8
    <1> QED BY <1>9 DEF F, holders

LEMMA ReaderAlways == DiskReaderSpec => []ReaderInv
    BY ReaderInitially, ReaderStep, PTL DEF DiskReaderSpec

\* For every number of pages, keys, readers and writers: the lists of wtinylfu
\* and its map agree, and every page of storage::cache is free, mapped, latched
\* or held by a writer, in one of them only (PagesInOnePlace).
THEOREM ReaderPagesInOnePlace == DiskReaderSpec => []PagesInOnePlace
    <1>1. ReaderInv => PagesInOnePlace
        <2> SUFFICES ASSUME ReaderInv PROVE PagesInOnePlace
            OBVIOUS
        <2>1. /\ CacheOK(Keys, cache) /\ Pages = Owned(cache) \cup LatchedPages \cup HeldPages
            BY DEF ReaderInv, PagePlaces
        <2>2. ListsMatchMap(cache) /\ PagesMatchMap(cache)
            BY <2>1, ListsMatch DEF CacheOK
        <2>3. Pages = cache.free \cup {cache.item[k] : k \in Cached(cache)}
                        \cup {latch[k].page : k \in Latched} \cup ({dirty[wr] : wr \in Writers} \ {NoPage})
            BY <2>1 DEF Owned, Mapped, LatchedPages, HeldPages
        <2> QED BY <2>2, <2>3, PagesCounted DEF PagesInOnePlace
    <1> QED BY <1>1, ReaderAlways, PTL

\* disk_reader::read returns the data of the page it was asked for, whoever
\* shares its latch and whatever is evicted meanwhile (ReadsOwnPage).
THEOREM ReaderReadsOwnPage == DiskReaderSpec => []ReadsOwnPage
    <1>1. ReaderInv => ReadsOwnPage
        BY DEF ReaderInv
    <1> QED BY <1>1, ReaderAlways, PTL

\* latch::release reaches everybody who waits, and the entry of the latch is
\* there for all of them (NobodyMissesTheRelease).
THEOREM ReaderReleasesAll == DiskReaderSpec => []NobodyMissesTheRelease
    <1>1. ReaderInv => NobodyMissesTheRelease
        BY DEF ReaderInv, ReadersHoldLatches, NobodyMissesTheRelease
    <1> QED BY <1>1, ReaderAlways, PTL
=============================================================================
