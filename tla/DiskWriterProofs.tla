--------------------------- MODULE DiskWriterProofs ---------------------------
(***************************************************************************)
(* Proofs about DiskWriter for every number of writers, files and pages,   *)
(* whenever files are dropped, also while they are flushed: the flush      *)
(* thread goes on from a file that is open unless that file was dropped    *)
(* meanwhile; every memory page is in one place and the dirty ones are     *)
(* counted; and every page of a committed file is on the disk where a      *)
(* reader looks for it, unless a write for a dropped file came after it.   *)
(***************************************************************************)
EXTENDS DiskWriter, CacheTheorems

OwnerLabels == {"closed", "idle", "signalled", "awaits page", "yields", "flushes",
                "awaits flusher", "latch free", "flushing", "flushed"}

Fields == {"cache_id", "size", "mem_page", "cached_pages", "extents"}

FlushTypes ==
    /\ m_states \in Seq(Writers) /\ IsInjective(m_states)
    /\ owner \in [Writers -> OwnerLabels]
    /\ m_latch \in [Writers -> {"free", "owner", "flusher"}]
    /\ flusher \in {"off", "created", "busy"}
    /\ DOMAIN state = Writers /\ \A wr \in Writers : DOMAIN state[wr] = Fields
    /\ DOMAIN flushing = Writers

\* The list has the files that are open.
ListedIffOpen == \A wr \in Writers : wr \in ToSet(m_states) <=> owner[wr] # "closed"

\* The owner has the latch while it flushes; the flush thread has it only while
\* the owner has not come to the end of its own flush.
LatchHolders ==
    \A wr \in Writers :
        /\ m_latch[wr] = "owner" <=> owner[wr] = "flushing"
        /\ m_latch[wr] = "flusher" =>
              owner[wr] \notin {"closed", "latch free", "flushing", "flushed"}

\* A file that its owner has flushed has no pages to flush.
NothingLeft ==
    \A wr \in Writers :
        owner[wr] \in {"closed", "flushing", "flushed"} => state[wr].cached_pages = <<>>

\* There is one flush thread, and it holds one latch at a time.
OneFlusher ==
    /\ \A wr \in Writers : m_latch[wr] = "flusher" => flusher = "busy"
    /\ \A wr, x \in Writers : m_latch[wr] = "flusher" /\ m_latch[x] = "flusher" => wr = x

Before(s, a, b) == \E i, j \in 1 .. Len(s) : i < j /\ s[i] = a /\ s[j] = b

\* The flush thread has passed the owners that it has signalled and that have
\* not run yet.
SweptPast ==
    \A wr, x \in Writers :
        owner[wr] = "latch free" /\ m_latch[x] = "flusher" => Before(m_states, wr, x)

FlushInv ==
    /\ FlushTypes
    /\ ListedIffOpen
    /\ LatchHolders
    /\ NothingLeft
    /\ OneFlusher
    /\ SweptPast

-----------------------------------------------------------------------------
(* The order in the list. *)

LEMMA BeforeAppend ==
    ASSUME NEW S, NEW s \in Seq(S), NEW x \in S, NEW a, NEW b, Before(s, a, b)
    PROVE  Before(Append(s, x), a, b)
    <1>1. PICK i \in 1 .. Len(s), j \in 1 .. Len(s) : i < j /\ s[i] = a /\ s[j] = b
        BY DEF Before
    <1>2. /\ Len(s) \in Nat /\ Len(Append(s, x)) = Len(s) + 1
          /\ \A k \in 1 .. Len(s) : Append(s, x)[k] = s[k]
        BY AppendProperties, LenProperties
    <1>3. i \in 1 .. Len(Append(s, x)) /\ j \in 1 .. Len(Append(s, x))
        BY <1>2
    <1> QED BY <1>1, <1>2, <1>3 DEF Before

\* The elements of a list without one of them.
LEMMA RemoveAtElements ==
    ASSUME NEW S, NEW s \in Seq(S), NEW n \in 1 .. Len(s)
    PROVE  /\ Len(RemoveAt(s, n)) = Len(s) - 1
           /\ \A i \in 1 .. Len(s) : /\ i < n => RemoveAt(s, n)[i] = s[i]
                                     /\ i > n => RemoveAt(s, n)[i - 1] = s[i]
    <1> DEFINE f == SubSeq(s, 1, n - 1)
               b == SubSeq(s, n + 1, Len(s))
    <1>1. Len(s) \in Nat /\ \A i \in 1 .. Len(s) : s[i] \in S
        BY LenProperties, ElementOfSeq
    <1>2. /\ f \in Seq(S) /\ Len(f) = n - 1
          /\ \A i \in 1 .. n - 1 : f[i] = s[i]
        BY <1>1, SubSeqProperties
    <1>3. /\ b \in Seq(S) /\ Len(b) = Len(s) - n
          /\ \A i \in 1 .. Len(s) - n : b[i] = s[n + i]
        BY <1>1, SubSeqProperties
    <1>4. RemoveAt(s, n) = f \o b
        BY DEF RemoveAt
    <1> HIDE DEF f, b
    <1>5. /\ Len(f \o b) = Len(f) + Len(b)
          /\ \A i \in 1 .. Len(f) + Len(b) : (f \o b)[i] = IF i <= Len(f) THEN f[i] ELSE b[i - Len(f)]
        BY <1>2, <1>3, ConcatProperties
    <1>6. Len(f) + Len(b) = Len(s) - 1
        BY <1>1, <1>2, <1>3
    <1>7. ASSUME NEW i \in 1 .. Len(s), i < n PROVE (f \o b)[i] = s[i]
        <2>1. i \in 1 .. Len(f) + Len(b) /\ i <= Len(f) /\ i \in 1 .. n - 1
            BY <1>1, <1>2, <1>6, <1>7
        <2> QED BY <1>2, <1>5, <2>1
    <1>8. ASSUME NEW i \in 1 .. Len(s), i > n PROVE (f \o b)[i - 1] = s[i]
        <2>1. i - 1 \in 1 .. Len(f) + Len(b) /\ ~(i - 1 <= Len(f)) /\ (i - 1) - Len(f) = i - n
            BY <1>1, <1>2, <1>6, <1>8
        <2>2. i - n \in 1 .. Len(s) - n /\ n + (i - n) = i
            BY <1>1, <1>8
        <2> QED BY <1>3, <1>5, <2>1, <2>2
    <1> QED BY <1>4, <1>5, <1>6, <1>7, <1>8

LEMMA BeforeRemove ==
    ASSUME NEW S, NEW s \in Seq(S), IsInjective(s), NEW x \in ToSet(s),
           NEW a, NEW b, a # x, b # x, Before(s, a, b)
    PROVE  Before(RemoveFirst(s, x), a, b)
    <1>1. PICK i \in 1 .. Len(s), j \in 1 .. Len(s) : i < j /\ s[i] = a /\ s[j] = b
        BY DEF Before
    <1>2. PICK n \in 1 .. Len(s) : s[n] = x
        BY InToSet
    <1>3. {k \in 1 .. Len(s) : s[k] = x} = {n}
        BY <1>2, LenProperties DEF IsInjective
    <1>4. Min({n}) = n
        BY DEF Min
    <1>5. RemoveFirst(s, x) = RemoveAt(s, n)
        BY <1>2, <1>3, <1>4 DEF RemoveFirst, SelectInSeq
    <1> DEFINE r == RemoveAt(s, n)
    <1>6. /\ Len(s) \in Nat /\ Len(r) = Len(s) - 1
          /\ \A k \in 1 .. Len(s) : (k < n => r[k] = s[k]) /\ (k > n => r[k - 1] = s[k])
        BY RemoveAtElements, LenProperties
    <1>7. i # n /\ j # n
        BY <1>1, <1>2
    <1> DEFINE p(k) == IF k < n THEN k ELSE k - 1
    <1> HIDE DEF r
    <1>8. \A k \in 1 .. Len(s) : k # n => p(k) \in 1 .. Len(r) /\ r[p(k)] = s[k]
        BY <1>6
    <1>9. p(i) < p(j)
        BY <1>1, <1>6, <1>7
    <1>10. p(i) \in 1 .. Len(r) /\ p(j) \in 1 .. Len(r) /\ r[p(i)] = a /\ r[p(j)] = b
        BY <1>1, <1>7, <1>8
    <1>11. Before(r, a, b)
        BY <1>9, <1>10 DEF Before
    <1> QED BY <1>5, <1>11 DEF r

\* What comes before an element comes before all that follow it.
LEMMA BeforeLater ==
    ASSUME NEW S, NEW s \in Seq(S), IsInjective(s), NEW k \in 1 .. Len(s), NEW n \in 1 .. Len(s),
           k < n, NEW a, a = s[k] \/ Before(s, a, s[k])
    PROVE  Before(s, a, s[n]) /\ a # s[n]
    <1>1. DOMAIN s = 1 .. Len(s) /\ Len(s) \in Nat
        BY LenProperties
    <1>2. PICK i \in 1 .. Len(s) : s[i] = a /\ i <= k
        <2>1. CASE a = s[k]
            BY <1>1, <2>1
        <2>2. CASE Before(s, a, s[k])
            <3>1. PICK i \in 1 .. Len(s), j \in 1 .. Len(s) : i < j /\ s[i] = a /\ s[j] = s[k]
                BY <2>2 DEF Before
            <3>2. j = k
                BY <1>1, <3>1 DEF IsInjective
            <3> QED BY <1>1, <3>1, <3>2
        <2> QED BY <2>1, <2>2
    <1>3. i < n
        BY <1>1, <1>2
    <1>4. s[i] # s[n]
        BY <1>1, <1>3 DEF IsInjective
    <1> QED BY <1>2, <1>3, <1>4 DEF Before

-----------------------------------------------------------------------------
(* What owners do. *)

StateTypes(s) == DOMAIN s = Writers /\ \A wr \in Writers : DOMAIN s[wr] = Fields

\* A step of an owner that has a file open and does not flush it.
LEMMA OwnerMoves ==
    ASSUME FlushInv, NEW wr \in Writers, NEW to \in OwnerLabels,
           to \notin {"closed", "latch free", "flushing"},
           owner[wr] \notin {"closed", "flushing"},
           owner' = [owner EXCEPT ![wr] = to],
           UNCHANGED <<m_states, m_latch, flushing>>,
           flusher' = flusher \/ (flusher = "off" /\ flusher' = "created"),
           StateTypes(state'), \A x \in Writers \ {wr} : state'[x] = state[x],
           to = "flushed" => m_latch[wr] # "flusher" /\ state'[wr].cached_pages = <<>>
    PROVE  FlushInv'
    <1>1. /\ owner \in [Writers -> OwnerLabels] /\ owner' \in [Writers -> OwnerLabels]
          /\ owner'[wr] = to /\ \A x \in Writers \ {wr} : owner'[x] = owner[x]
        BY DEF FlushInv, FlushTypes
    <1>2. FlushTypes'
        BY <1>1 DEF FlushInv, FlushTypes, StateTypes
    <1>3. ListedIffOpen'
        BY <1>1 DEF FlushInv, ListedIffOpen
    <1>4. LatchHolders'
        BY <1>1 DEF FlushInv, LatchHolders
    <1>5. NothingLeft'
        BY <1>1 DEF FlushInv, NothingLeft
    <1>6. OneFlusher'
        BY DEF FlushInv, OneFlusher
    <1>7. SweptPast'
        BY <1>1 DEF FlushInv, SweptPast
    <1> QED BY <1>2, <1>3, <1>4, <1>5, <1>6, <1>7 DEF FlushInv

\* The fields of a state after an assignment to some of them.
LEMMA StateFields ==
    ASSUME FlushInv, NEW wr \in Writers, NEW r, DOMAIN r = Fields,
           state' = [state EXCEPT ![wr] = r]
    PROVE  StateTypes(state') /\ state'[wr] = r /\ \A x \in Writers \ {wr} : state'[x] = state[x]
    BY DEF FlushInv, FlushTypes, StateTypes

LEMMA PushKeeps ==
    ASSUME FlushInv, NEW wr \in Writers, PushPage(wr)
    PROVE  StateTypes(state') /\ \A x \in Writers \ {wr} : state'[x] = state[x]
    <1> DEFINE r == [[state[wr] EXCEPT !.cached_pages = Append(state[wr].cached_pages, state[wr].mem_page)]
                        EXCEPT !.mem_page = NoPage]
    <1>1. state' = [state EXCEPT ![wr] = r]
        BY DEF PushPage
    <1>2. DOMAIN state[wr] = Fields
        BY DEF FlushInv, FlushTypes
    <1>3. DOMAIN r = Fields
        BY <1>2
    <1> HIDE DEF r
    <1> QED BY <1>1, <1>3, StateFields

LEMMA OwnerStepKeeps ==
    ASSUME FlushInv, NEW wr \in Writers,
           AwaitPage(wr) \/ AllocatePage(wr) \/ WritePage(wr) \/ FlushLast(wr)
              \/ RunAgain(wr) \/ AwaitFlusher(wr) \/ NothingToFlush(wr)
    PROVE  FlushInv'
    <1> USE DEF OwnerLabels
    <1>0. StateTypes(state)
        BY DEF FlushInv, FlushTypes, StateTypes
    <1>1. CASE AwaitPage(wr)
        <2>1. /\ owner[wr] \in {"idle", "signalled"} /\ owner' = [owner EXCEPT ![wr] = "awaits page"]
              /\ UNCHANGED <<m_states, m_latch, flushing, state>>
              /\ flusher' = flusher \/ (flusher = "off" /\ flusher' = "created")
            BY <1>1 DEF AwaitPage, start_global_flush
        <2> QED BY <1>0, <2>1, OwnerMoves
    <1>2. CASE AllocatePage(wr)
        <2>1. /\ owner[wr] \in {"idle", "signalled"} /\ owner' = [owner EXCEPT ![wr] = "idle"]
              /\ UNCHANGED <<m_states, m_latch, flushing, flusher>>
            BY <1>2 DEF AllocatePage
        <2>2. PICK page : state' = [state EXCEPT ![wr].mem_page = page, ![wr].size = @ + 1]
            BY <1>2 DEF AllocatePage
        <2> DEFINE r == [[state[wr] EXCEPT !.mem_page = page] EXCEPT !.size = state[wr].size + 1]
        <2>3. state' = [state EXCEPT ![wr] = r]
            BY <2>2
        <2>4. DOMAIN state[wr] = Fields
            BY <1>0 DEF StateTypes
        <2>5. DOMAIN r = Fields
            BY <2>4
        <2> HIDE DEF r
        <2>6. StateTypes(state') /\ \A x \in Writers \ {wr} : state'[x] = state[x]
            BY <2>3, <2>5, StateFields
        <2> QED BY <2>1, <2>6, OwnerMoves
    <1>3. CASE WritePage(wr)
        <2>1. /\ owner[wr] = "idle" /\ owner' = [owner EXCEPT ![wr] = "yields"]
              /\ UNCHANGED <<m_states, m_latch, flushing, flusher>> /\ PushPage(wr)
            BY <1>3 DEF WritePage
        <2> QED BY <2>1, PushKeeps, OwnerMoves
    <1>4. CASE FlushLast(wr)
        <2>1. /\ owner[wr] = "idle" /\ owner' = [owner EXCEPT ![wr] = "flushes"]
              /\ UNCHANGED <<m_states, m_latch, flushing, flusher>> /\ PushPage(wr)
            BY <1>4 DEF FlushLast
        <2> QED BY <2>1, PushKeeps, OwnerMoves
    <1>5. CASE RunAgain(wr)
        <2>1. /\ owner[wr] = "yields" /\ owner' = [owner EXCEPT ![wr] = "idle"]
              /\ UNCHANGED <<m_states, m_latch, flushing, flusher, state>>
            BY <1>5 DEF RunAgain
        <2> QED BY <1>0, <2>1, OwnerMoves
    <1>6. CASE AwaitFlusher(wr)
        <2>1. /\ owner[wr] \in {"idle", "flushes"} /\ owner' = [owner EXCEPT ![wr] = "awaits flusher"]
              /\ UNCHANGED <<m_states, m_latch, flushing, flusher, state>>
            BY <1>6 DEF AwaitFlusher, InFlush
        <2> QED BY <1>0, <2>1, OwnerMoves
    <1>7. CASE NothingToFlush(wr)
        <2>1. /\ owner[wr] \in {"idle", "flushes", "latch free"}
              /\ owner' = [owner EXCEPT ![wr] = "flushed"]
              /\ UNCHANGED <<m_states, m_latch, flushing, flusher, state>>
              /\ state[wr].cached_pages = <<>>
              /\ owner[wr] = "latch free" \/ m_latch[wr] = "free"
            BY <1>7 DEF NothingToFlush, MayFlush, InFlush
        <2>2. m_latch[wr] # "flusher"
            BY <2>1 DEF FlushInv, LatchHolders
        <2> QED BY <1>0, <2>1, <2>2, OwnerMoves
    <1> QED BY <1>1, <1>2, <1>3, <1>4, <1>5, <1>6, <1>7

LEMMA StartFlushKeeps ==
    ASSUME FlushInv, NEW wr \in Writers, StartFlush(wr)
    PROVE  FlushInv'
    <1> DEFINE r == [state[wr] EXCEPT !.cached_pages = <<>>]
    <1>1. /\ owner[wr] \in {"idle", "flushes", "latch free"}
          /\ owner' = [owner EXCEPT ![wr] = "flushing"]
          /\ m_latch' = [m_latch EXCEPT ![wr] = "owner"]
          /\ flushing' = TakePages(wr, flushing)
          /\ state' = [state EXCEPT ![wr] = r]
          /\ UNCHANGED <<m_states, flusher>>
          /\ owner[wr] = "latch free" \/ m_latch[wr] = "free"
        BY DEF StartFlush, MayFlush, InFlush, Latched
    <1>2. m_latch[wr] # "flusher"
        BY <1>1 DEF FlushInv, LatchHolders
    <1>3. DOMAIN r = Fields /\ r.cached_pages = <<>>
        <2>1. DOMAIN state[wr] = Fields
            BY DEF FlushInv, FlushTypes
        <2> QED BY <2>1 DEF Fields
    <1> HIDE DEF r
    <1>4. StateTypes(state') /\ state'[wr] = r /\ \A x \in Writers \ {wr} : state'[x] = state[x]
        BY <1>1, <1>3, StateFields
    <1>5. /\ owner \in [Writers -> OwnerLabels] /\ owner' \in [Writers -> OwnerLabels]
          /\ owner'[wr] = "flushing" /\ \A x \in Writers \ {wr} : owner'[x] = owner[x]
          /\ m_latch' \in [Writers -> {"free", "owner", "flusher"}]
          /\ m_latch'[wr] = "owner" /\ \A x \in Writers \ {wr} : m_latch'[x] = m_latch[x]
        BY <1>1 DEF FlushInv, FlushTypes, OwnerLabels
    <1>6. FlushTypes'
        <2>1. DOMAIN flushing' = Writers
            BY <1>1 DEF FlushInv, FlushTypes, TakePages
        <2> QED BY <1>1, <1>4, <1>5, <2>1 DEF FlushInv, FlushTypes, StateTypes
    <1>7. ListedIffOpen'
        BY <1>1, <1>5 DEF FlushInv, ListedIffOpen
    <1>8. LatchHolders'
        BY <1>5 DEF FlushInv, LatchHolders
    <1>9. NothingLeft'
        BY <1>3, <1>4, <1>5 DEF FlushInv, NothingLeft
    <1>10. OneFlusher'
        BY <1>1, <1>5, ZenonT(40) DEF FlushInv, OneFlusher
    <1>11. SweptPast'
        BY <1>1, <1>5 DEF FlushInv, SweptPast
    <1> QED BY <1>6, <1>7, <1>8, <1>9, <1>10, <1>11 DEF FlushInv

LEMMA AllocateSpaceKeeps ==
    ASSUME FlushInv, NEW wr \in Writers, AllocateSpace(wr)
    PROVE  FlushInv'
    <1>1. UNCHANGED <<m_states, m_latch, owner, flusher>>
        BY DEF AllocateSpace
    <1>2. PICK ext : state' = [state EXCEPT ![wr].extents = ext]
        BY DEF AllocateSpace
    <1>3. /\ StateTypes(state') /\ \A x \in Writers : state'[x].cached_pages = state[x].cached_pages
        <2> DEFINE r == [state[wr] EXCEPT !.extents = ext]
        <2>1. state' = [state EXCEPT ![wr] = r]
            BY <1>2
        <2>2. DOMAIN state[wr] = Fields
            BY DEF FlushInv, FlushTypes
        <2>3. DOMAIN r = Fields /\ r.cached_pages = state[wr].cached_pages
            BY <2>2 DEF Fields
        <2> HIDE DEF r
        <2> QED BY <2>1, <2>3, StateFields
    <1>4. DOMAIN flushing' = Writers
        BY DEF AllocateSpace, FlushInv, FlushTypes
    <1> QED BY <1>1, <1>3, <1>4 DEF FlushInv, FlushTypes, StateTypes, ListedIffOpen, LatchHolders,
                NothingLeft, OneFlusher, SweptPast

-----------------------------------------------------------------------------
(* Files are opened and closed. *)

LEMMA NoStateFields == DOMAIN NoState = Fields /\ NoState.cached_pages = <<>>
    BY DEF NoState, Fields

LEMMA OpenKeeps ==
    ASSUME FlushInv, NEW wr \in Writers, Open(wr)
    PROVE  FlushInv'
    <1> DEFINE r == [NoState EXCEPT !.cache_id = next_cache_id]
    <1>1. /\ owner[wr] = "closed" /\ m_states' = Append(m_states, wr)
          /\ state' = [state EXCEPT ![wr] = r]
          /\ owner' = [owner EXCEPT ![wr] = "idle"]
          /\ UNCHANGED <<m_latch, flushing, flusher>>
        BY DEF Open
    <1>2. DOMAIN r = Fields
        BY NoStateFields
    <1> HIDE DEF r
    <1>3. StateTypes(state') /\ \A x \in Writers \ {wr} : state'[x] = state[x]
        BY <1>1, <1>2, StateFields
    <1>4. /\ owner \in [Writers -> OwnerLabels] /\ owner' \in [Writers -> OwnerLabels]
          /\ owner'[wr] = "idle" /\ \A x \in Writers \ {wr} : owner'[x] = owner[x]
        BY <1>1 DEF FlushInv, FlushTypes, OwnerLabels
    <1>5. m_states \in Seq(Writers) /\ IsInjective(m_states) /\ wr \notin ToSet(m_states)
        BY <1>1 DEF FlushInv, FlushTypes, ListedIffOpen
    <1>6. /\ m_states' \in Seq(Writers) /\ IsInjective(m_states')
          /\ ToSet(m_states') = ToSet(m_states) \cup {wr}
        BY <1>1, <1>5, AppendSet
    <1>7. FlushTypes'
        BY <1>1, <1>3, <1>4, <1>6 DEF FlushInv, FlushTypes, StateTypes
    <1>8. ListedIffOpen'
        BY <1>4, <1>6 DEF FlushInv, ListedIffOpen
    <1>9. LatchHolders'
        BY <1>1, <1>4 DEF FlushInv, LatchHolders
    <1>10. NothingLeft'
        BY <1>3, <1>4 DEF FlushInv, NothingLeft
    <1>11. OneFlusher'
        BY <1>1 DEF FlushInv, OneFlusher
    <1>12. SweptPast'
        <2> SUFFICES ASSUME NEW y \in Writers, NEW x \in Writers,
                            owner'[y] = "latch free", m_latch'[x] = "flusher"
                     PROVE  Before(m_states', y, x)
            BY DEF SweptPast
        <2>1. Before(m_states, y, x)
            BY <1>1, <1>4 DEF FlushInv, SweptPast
        <2> QED BY <1>1, <1>5, <2>1, BeforeAppend
    <1> QED BY <1>7, <1>8, <1>9, <1>10, <1>11, <1>12 DEF FlushInv

\* What an owner's end does to the others: those that wait for a page are
\* signalled.
Signalled(x) == owner'[x] = owner[x] \/ (owner[x] = "awaits page" /\ owner'[x] = "signalled")

\* A file is closed, and nobody has its latch any more.
LEMMA CloseKeeps ==
    ASSUME FlushInv, NEW wr \in Writers, Close(wr),
           owner[wr] # "closed", owner' \in [Writers -> OwnerLabels], owner'[wr] = "closed",
           \A x \in Writers \ {wr} : Signalled(x),
           m_latch' = [m_latch EXCEPT ![wr] = "free"], DOMAIN flushing' = Writers,
           UNCHANGED flusher
    PROVE  FlushInv'
    <1>1. m_states' = RemoveFirst(m_states, wr) /\ state' = [state EXCEPT ![wr] = NoState]
        BY DEF Close
    <1>2. /\ StateTypes(state') /\ state'[wr].cached_pages = <<>>
          /\ \A x \in Writers \ {wr} : state'[x] = state[x]
        BY <1>1, NoStateFields, StateFields
    <1>3. m_states \in Seq(Writers) /\ IsInjective(m_states) /\ wr \in ToSet(m_states)
        BY DEF FlushInv, FlushTypes, ListedIffOpen
    <1>4. /\ m_states' \in Seq(Writers) /\ IsInjective(m_states')
          /\ ToSet(m_states') = ToSet(m_states) \ {wr}
        BY <1>1, <1>3, RemoveFirstSet
    <1>5. /\ m_latch' \in [Writers -> {"free", "owner", "flusher"}]
          /\ m_latch'[wr] = "free" /\ \A x \in Writers \ {wr} : m_latch'[x] = m_latch[x]
        BY DEF FlushInv, FlushTypes
    <1>6. FlushTypes'
        BY <1>2, <1>4, <1>5 DEF FlushInv, FlushTypes, StateTypes
    <1>7. ListedIffOpen'
        BY <1>4 DEF FlushInv, ListedIffOpen, Signalled
    <1>8. LatchHolders'
        <2> SUFFICES ASSUME NEW x \in Writers
                     PROVE  /\ m_latch'[x] = "owner" <=> owner'[x] = "flushing"
                            /\ m_latch'[x] = "flusher" =>
                                  owner'[x] \notin {"closed", "latch free", "flushing", "flushed"}
            BY DEF LatchHolders
        <2>1. CASE x = wr
            BY <1>5, <2>1
        <2>2. CASE x # wr
            <3>1. Signalled(x) /\ m_latch'[x] = m_latch[x]
                BY <1>5, <2>2
            <3>2. /\ m_latch[x] = "owner" <=> owner[x] = "flushing"
                  /\ m_latch[x] = "flusher" =>
                        owner[x] \notin {"closed", "latch free", "flushing", "flushed"}
                BY DEF FlushInv, LatchHolders
            <3> QED BY <3>1, <3>2 DEF Signalled
        <2> QED BY <2>1, <2>2
    <1>9. NothingLeft'
        BY <1>2 DEF FlushInv, NothingLeft, Signalled
    <1>10. OneFlusher'
        BY <1>5 DEF FlushInv, OneFlusher
    <1>11. SweptPast'
        <2> SUFFICES ASSUME NEW y \in Writers, NEW x \in Writers,
                            owner'[y] = "latch free", m_latch'[x] = "flusher"
                     PROVE  Before(m_states', y, x)
            BY DEF SweptPast
        <2>1. y # wr /\ x # wr /\ owner[y] = "latch free" /\ m_latch[x] = "flusher"
            BY <1>5 DEF Signalled
        <2>2. Before(m_states, y, x)
            BY <2>1 DEF FlushInv, SweptPast
        <2> QED BY <1>1, <1>3, <2>1, <2>2, BeforeRemove
    <1> QED BY <1>6, <1>7, <1>8, <1>9, <1>10, <1>11 DEF FlushInv

LEMMA EndKeeps ==
    ASSUME FlushInv, NEW wr \in Writers,
           Commit(wr) \/ Abort(wr) \/ FlushFails(wr)
    PROVE  FlushInv'
    <1>0. /\ owner \in [Writers -> OwnerLabels] /\ DOMAIN flushing = Writers
          /\ m_latch \in [Writers -> {"free", "owner", "flusher"}]
        BY DEF FlushInv, FlushTypes
    <1>1. CASE Commit(wr)
        <2>1. /\ owner[wr] = "flushed" /\ owner' = [owner EXCEPT ![wr] = "closed"] /\ Close(wr)
              /\ UNCHANGED <<m_latch, flushing, flusher>>
            BY <1>1 DEF Commit
        <2>2. m_latch[wr] = "free"
            BY <1>0, <2>1 DEF FlushInv, LatchHolders
        <2>3. m_latch' = [m_latch EXCEPT ![wr] = "free"]
            BY <1>0, <2>1, <2>2
        <2>4. /\ owner' \in [Writers -> OwnerLabels] /\ owner'[wr] = "closed"
              /\ \A x \in Writers \ {wr} : Signalled(x)
            BY <1>0, <2>1 DEF OwnerLabels, Signalled
        <2> QED BY <1>0, <2>1, <2>2, <2>3, <2>4, CloseKeeps
    <1>2. CASE Abort(wr)
        <2>1. /\ owner[wr] \in {"idle", "flushed"} /\ Close(wr)
              /\ owner' = [o \in Writers |-> IF o = wr THEN "closed"
                                ELSE IF owner[o] = "awaits page" THEN "signalled" ELSE owner[o]]
              /\ m_latch' = [m_latch EXCEPT ![wr] = "free"]
              /\ flushing' = [flushing EXCEPT ![wr] = NotFlushing]
              /\ UNCHANGED flusher
            BY <1>2 DEF Abort
        <2>2. DOMAIN flushing' = Writers
            BY <1>0, <2>1
        <2>3. /\ owner' \in [Writers -> OwnerLabels] /\ owner'[wr] = "closed"
              /\ \A x \in Writers \ {wr} : Signalled(x)
            BY <1>0, <2>1 DEF OwnerLabels, Signalled
        <2> QED BY <1>0, <2>1, <2>2, <2>3, CloseKeeps
    <1>3. CASE FlushFails(wr)
        <2>1. /\ m_latch[wr] = "owner" /\ Close(wr)
              /\ owner' = [o \in Writers |-> IF o = wr THEN "closed"
                                ELSE IF owner[o] = "awaits page" THEN "signalled" ELSE owner[o]]
              /\ m_latch' = [m_latch EXCEPT ![wr] = "free"]
              /\ flushing' = [flushing EXCEPT ![wr] = NotFlushing]
              /\ UNCHANGED flusher
            BY <1>3 DEF FlushFails
        <2>2. owner[wr] = "flushing"
            BY <2>1 DEF FlushInv, LatchHolders
        <2>3. /\ owner' \in [Writers -> OwnerLabels] /\ owner'[wr] = "closed"
              /\ \A x \in Writers \ {wr} : Signalled(x)
            BY <1>0, <2>1 DEF OwnerLabels, Signalled
        <2>4. DOMAIN flushing' = Writers
            BY <1>0, <2>1
        <2> QED BY <2>1, <2>2, <2>3, <2>4, CloseKeeps
    <1> QED BY <1>1, <1>2, <1>3

LEMMA OwnerFlushedKeeps ==
    ASSUME FlushInv, NEW wr \in Writers, OwnerFlushed(wr)
    PROVE  FlushInv'
    <1>0. /\ owner \in [Writers -> OwnerLabels] /\ DOMAIN flushing = Writers
          /\ m_latch \in [Writers -> {"free", "owner", "flusher"}]
        BY DEF FlushInv, FlushTypes
    <1>1. /\ m_latch[wr] = "owner" /\ owner' = [WokenBy(wr) EXCEPT ![wr] = "flushed"]
          /\ m_latch' = [m_latch EXCEPT ![wr] = "free"]
          /\ flushing' = [flushing EXCEPT ![wr] = NotFlushing]
          /\ UNCHANGED <<state, flusher>>
        BY DEF OwnerFlushed
    <1>2. m_states' = m_states
        BY DEF OwnerFlushed, Written
    <1>3. owner[wr] = "flushing"
        BY <1>1 DEF FlushInv, LatchHolders
    <1>4. /\ owner' \in [Writers -> OwnerLabels] /\ owner'[wr] = "flushed"
          /\ \A x \in Writers \ {wr} : Signalled(x)
        BY <1>0, <1>1 DEF WokenBy, OwnerLabels, Signalled
    <1>5. /\ m_latch' \in [Writers -> {"free", "owner", "flusher"}]
          /\ m_latch'[wr] = "free" /\ \A x \in Writers \ {wr} : m_latch'[x] = m_latch[x]
          /\ DOMAIN flushing' = Writers
        BY <1>0, <1>1
    <1>6. FlushTypes'
        BY <1>1, <1>2, <1>4, <1>5 DEF FlushInv, FlushTypes
    <1>7. ListedIffOpen'
        BY <1>2, <1>3, <1>4 DEF FlushInv, ListedIffOpen, Signalled
    <1>8. LatchHolders'
        BY <1>4, <1>5, ZenonT(40) DEF FlushInv, LatchHolders, Signalled
    <1>9. NothingLeft'
        BY <1>1, <1>3, <1>4 DEF FlushInv, NothingLeft, Signalled
    <1>10. OneFlusher'
        BY <1>1, <1>5 DEF FlushInv, OneFlusher
    <1>11. SweptPast'
        BY <1>2, <1>4, <1>5 DEF FlushInv, SweptPast, Signalled
    <1> QED BY <1>6, <1>7, <1>8, <1>9, <1>10, <1>11 DEF FlushInv

-----------------------------------------------------------------------------
(* The flush thread. *)

\* Where the sweep goes.
LEMMA SweepGoes ==
    ASSUME NEW todo, NEW latch, NEW fl, Len(todo) \in Nat, Sweep(todo, latch, fl)
    PROVE  \/ /\ flusher' = "off" /\ m_latch' = latch /\ flushing' = fl /\ state' = state
           \/ \E k \in 1 .. Len(todo) :
                 /\ latch[todo[k]] = "free" /\ state[todo[k]].cached_pages # <<>>
                 /\ flusher' = "busy" /\ m_latch' = [latch EXCEPT ![todo[k]] = "flusher"]
                 /\ flushing' = TakePages(todo[k], fl)
                 /\ state' = [state EXCEPT ![todo[k]].cached_pages = <<>>]
    <1> DEFINE I == {i \in 1 .. Len(todo) :
                        latch[todo[i]] = "free" /\ state[todo[i]].cached_pages # <<>>}
               next == IF I # {} THEN Min(I) ELSE 0
    <1>1. next = SelectInSeq(todo, LAMBDA s : latch[s] = "free" /\ state[s].cached_pages # <<>>)
        BY DEF SelectInSeq
    <1>2. next = 0 \/ next \in I
        <2>1. CASE I # {}
            <3>1. I \subseteq Nat
                BY DEF I
            <3>2. \E x \in I : \A y \in I : x <= y
                BY <2>1, <3>1, LeastNatural
            <3> HIDE DEF I
            <3>3. Min(I) \in I
                BY <3>2 DEF Min
            <3> QED BY <2>1, <3>3
        <2> QED BY <2>1
    <1>3. CASE next = 0
        BY <1>1, <1>3 DEF Sweep
    <1>4. CASE next # 0 /\ next \in I
        <2>1. /\ flusher' = "busy" /\ m_latch' = Latched("flusher", todo[next], latch)
              /\ flushing' = TakePages(todo[next], fl)
              /\ state' = [state EXCEPT ![todo[next]].cached_pages = <<>>]
            BY <1>1, <1>4 DEF Sweep
        <2> HIDE DEF next
        <2>2. next \in 1 .. Len(todo) /\ latch[todo[next]] = "free" /\ state[todo[next]].cached_pages # <<>>
            BY <1>4
        <2> QED BY <2>1, <2>2 DEF Latched
    <1> QED BY <1>2, <1>3, <1>4

\* What the end of a flush does to the owners: those that wait for a page are
\* signalled, and so is the one that waits for this flush.
Woken(x) ==
    \/ Signalled(x)
    \/ owner[x] = "awaits flusher" /\ owner'[x] = "latch free"

\* The flush thread, which has no latch any more, ends or takes the latch of a
\* file that comes after all the files whose owners it has signalled.
LEMMA SweepKeeps ==
    ASSUME FlushInv, m_states' = m_states, owner' \in [Writers -> OwnerLabels],
           \A x \in Writers : Woken(x),
           NEW latch \in [Writers -> {"free", "owner"}],
           \A x \in Writers : latch[x] = "owner" <=> m_latch[x] = "owner",
           NEW fl, DOMAIN fl = Writers,
           \/ flusher' = "off" /\ m_latch' = latch /\ flushing' = fl /\ state' = state
           \/ \E y \in Writers :
                 /\ latch[y] = "free" /\ state[y].cached_pages # <<>>
                 /\ flusher' = "busy" /\ m_latch' = [latch EXCEPT ![y] = "flusher"]
                 /\ flushing' = TakePages(y, fl)
                 /\ state' = [state EXCEPT ![y].cached_pages = <<>>]
                 /\ \A x \in Writers : owner'[x] = "latch free" => Before(m_states, x, y) /\ x # y
    PROVE  FlushInv'
    <1>0. /\ owner \in [Writers -> OwnerLabels] /\ m_states \in Seq(Writers) /\ IsInjective(m_states)
          /\ StateTypes(state)
        BY DEF FlushInv, FlushTypes, StateTypes
    <1>1. \A x \in Writers : /\ owner'[x] = "closed" <=> owner[x] = "closed"
                             /\ owner'[x] = "flushing" <=> owner[x] = "flushing"
                             /\ owner'[x] = "flushed" <=> owner[x] = "flushed"
        BY DEF Woken, Signalled
    <1>2. ListedIffOpen'
        BY <1>1 DEF FlushInv, ListedIffOpen
    <1>3. \A x \in Writers : latch[x] = "owner" <=> owner'[x] = "flushing"
        BY <1>1 DEF FlushInv, LatchHolders
    <1>4. CASE flusher' = "off" /\ m_latch' = latch /\ flushing' = fl /\ state' = state
        <2>1. FlushTypes'
            BY <1>0, <1>4 DEF FlushTypes, StateTypes
        <2>2. \A x \in Writers : m_latch'[x] # "flusher"
            BY <1>4
        <2>3. LatchHolders' /\ OneFlusher' /\ SweptPast'
            BY <1>3, <1>4, <2>2 DEF LatchHolders, OneFlusher, SweptPast
        <2>4. NothingLeft'
            BY <1>4, <1>1 DEF FlushInv, NothingLeft
        <2> QED BY <1>2, <2>1, <2>3, <2>4 DEF FlushInv
    <1>5. ASSUME NEW y \in Writers, latch[y] = "free", state[y].cached_pages # <<>>,
                 flusher' = "busy", m_latch' = [latch EXCEPT ![y] = "flusher"],
                 flushing' = TakePages(y, fl), state' = [state EXCEPT ![y].cached_pages = <<>>],
                 \A x \in Writers : owner'[x] = "latch free" => Before(m_states, x, y) /\ x # y
          PROVE  FlushInv'
        <2> DEFINE r == [state[y] EXCEPT !.cached_pages = <<>>]
        <2>1. state' = [state EXCEPT ![y] = r]
            BY <1>5
        <2>2. DOMAIN r = Fields /\ r.cached_pages = <<>>
            <3>1. DOMAIN state[y] = Fields
                BY <1>0 DEF StateTypes
            <3> QED BY <3>1 DEF Fields
        <2> HIDE DEF r
        <2>3. StateTypes(state') /\ state'[y] = r /\ \A x \in Writers \ {y} : state'[x] = state[x]
            BY <2>1, <2>2, StateFields
        <2>4. /\ m_latch' \in [Writers -> {"free", "owner", "flusher"}]
              /\ m_latch'[y] = "flusher" /\ \A x \in Writers \ {y} : m_latch'[x] = latch[x]
            BY <1>5
        <2>5. DOMAIN flushing' = Writers
            BY <1>5 DEF TakePages
        <2>6. FlushTypes'
            BY <1>0, <1>5, <2>3, <2>4, <2>5 DEF FlushTypes, StateTypes
        <2>7. owner'[y] \notin {"closed", "latch free", "flushing", "flushed"}
            <3>1. owner[y] \notin {"closed", "flushing", "flushed"}
                BY <1>5 DEF FlushInv, NothingLeft
            <3>2. owner'[y] # "latch free"
                BY <1>5
            <3>3. Woken(y)
                OBVIOUS
            <3> QED BY <3>1, <3>2, <3>3 DEF Woken, Signalled
        <2>8. LatchHolders'
            BY <1>3, <1>5, <2>4, <2>7 DEF LatchHolders
        <2>9. NothingLeft'
            <3> SUFFICES ASSUME NEW x \in Writers, owner'[x] \in {"closed", "flushing", "flushed"}
                         PROVE  state'[x].cached_pages = <<>>
                BY DEF NothingLeft
            <3>1. owner[x] \in {"closed", "flushing", "flushed"}
                BY <1>1
            <3>2. state[x].cached_pages = <<>>
                BY <3>1 DEF FlushInv, NothingLeft
            <3>3. CASE x = y
                BY <2>2, <2>3, <3>3
            <3>4. CASE x # y
                BY <2>3, <3>2, <3>4
            <3> QED BY <3>3, <3>4
        <2>10. \A x \in Writers : m_latch'[x] = "flusher" => x = y
            BY <2>4, ZenonT(40)
        <2>11. OneFlusher'
            <3>1. flusher' = "busy"
                BY <1>5
            <3> QED BY <2>10, <3>1, Zenon DEF OneFlusher
        <2>12. SweptPast'
            <3> SUFFICES ASSUME NEW a \in Writers, NEW x \in Writers,
                                owner'[a] = "latch free", m_latch'[x] = "flusher"
                         PROVE  Before(m_states', a, x)
                BY DEF SweptPast
            <3>1. x = y
                BY <2>10
            <3>2. Before(m_states, a, y)
                BY <1>5
            <3> QED BY <3>1, <3>2
        <2> QED BY <1>2, <2>6, <2>8, <2>9, <2>11, <2>12 DEF FlushInv
    <1> QED BY <1>4, <1>5

LEMMA FlusherStartsKeeps ==
    ASSUME FlushInv, FlusherStarts
    PROVE  FlushInv'
    <1>1. /\ flusher = "created" /\ \A x \in Writers : owner[x] # "latch free"
          /\ m_states' = m_states /\ owner' = owner
        BY DEF FlusherStarts, FlusherTurn
    <1>2. Sweep(m_states, m_latch, flushing)
        BY DEF FlusherStarts
    <1>3. /\ m_states \in Seq(Writers) /\ owner \in [Writers -> OwnerLabels]
          /\ m_latch \in [Writers -> {"free", "owner", "flusher"}] /\ DOMAIN flushing = Writers
        BY DEF FlushInv, FlushTypes
    <1>4. m_latch \in [Writers -> {"free", "owner"}]
        <2>1. \A x \in Writers : m_latch[x] # "flusher"
            BY <1>1 DEF FlushInv, OneFlusher
        <2> QED BY <1>3, <2>1
    <1>5. Len(m_states) \in Nat /\ \A k \in 1 .. Len(m_states) : m_states[k] \in Writers
        BY <1>3, LenProperties, ElementOfSeq
    <1>6. \/ flusher' = "off" /\ m_latch' = m_latch /\ flushing' = flushing /\ state' = state
          \/ \E k \in 1 .. Len(m_states) :
                 /\ m_latch[m_states[k]] = "free" /\ state[m_states[k]].cached_pages # <<>>
                 /\ flusher' = "busy" /\ m_latch' = [m_latch EXCEPT ![m_states[k]] = "flusher"]
                 /\ flushing' = TakePages(m_states[k], flushing)
                 /\ state' = [state EXCEPT ![m_states[k]].cached_pages = <<>>]
        BY <1>2, <1>5, SweepGoes
    <1>7. \/ flusher' = "off" /\ m_latch' = m_latch /\ flushing' = flushing /\ state' = state
          \/ \E y \in Writers :
                 /\ m_latch[y] = "free" /\ state[y].cached_pages # <<>>
                 /\ flusher' = "busy" /\ m_latch' = [m_latch EXCEPT ![y] = "flusher"]
                 /\ flushing' = TakePages(y, flushing)
                 /\ state' = [state EXCEPT ![y].cached_pages = <<>>]
                 /\ \A x \in Writers : owner'[x] = "latch free" => Before(m_states, x, y) /\ x # y
        BY <1>1, <1>5, <1>6, Zenon
    <1>8. \A x \in Writers : Woken(x)
        BY <1>1 DEF Woken, Signalled
    <1> QED BY <1>1, <1>3, <1>4, <1>7, <1>8, SweepKeeps

\* Where a file is in the list, and what the sweep has left when it comes from it.
PlaceOf(wr) == SelectInSeq(m_states, LAMBDA s : s = wr)
TodoOf(wr) == SubSeq(m_states, PlaceOf(wr) + 1, Len(m_states))

LEMMA FlushedSweeps ==
    ASSUME NEW wr \in Writers, FlusherFlushed(wr)
    PROVE  /\ m_latch[wr] = "flusher" /\ owner' = WokenBy(wr) /\ m_states' = m_states
           /\ Sweep(TodoOf(wr), [m_latch EXCEPT ![wr] = "free"], [flushing EXCEPT ![wr] = NotFlushing])
    BY DEF FlusherFlushed, Written, TodoOf, PlaceOf

LEMMA TodoAfter ==
    ASSUME FlushInv, NEW wr \in Writers, m_latch[wr] = "flusher"
    PROVE  /\ PlaceOf(wr) \in 1 .. Len(m_states) /\ m_states[PlaceOf(wr)] = wr
           /\ Len(TodoOf(wr)) = Len(m_states) - PlaceOf(wr)
           /\ \A k \in 1 .. Len(TodoOf(wr)) : /\ PlaceOf(wr) + k \in 1 .. Len(m_states)
                                             /\ TodoOf(wr)[k] = m_states[PlaceOf(wr) + k]
    <1>1. m_states \in Seq(Writers) /\ IsInjective(m_states)
        BY DEF FlushInv, FlushTypes
    <1>2. Len(m_states) \in Nat /\ \A k \in 1 .. Len(m_states) : m_states[k] \in Writers
        BY <1>1, LenProperties, ElementOfSeq
    <1>3. PlaceOf(wr) \in 1 .. Len(m_states) /\ m_states[PlaceOf(wr)] = wr
        <2>1. owner[wr] # "closed"
            BY DEF FlushInv, LatchHolders
        <2>2. wr \in ToSet(m_states)
            BY <2>1 DEF FlushInv, ListedIffOpen
        <2>3. PICK n \in 1 .. Len(m_states) : m_states[n] = wr
            BY <1>1, <2>2, InToSet
        <2>4. {k \in 1 .. Len(m_states) : m_states[k] = wr} = {n}
            BY <1>1, <2>3, LenProperties DEF IsInjective
        <2>5. Min({n}) = n
            BY DEF Min
        <2>6. PlaceOf(wr) = n
            BY <2>4, <2>5 DEF PlaceOf, SelectInSeq
        <2> QED BY <2>3, <2>6
    <1>4. ASSUME NEW at \in 1 .. Len(m_states), NEW m \in Int, m = at + 1,
                 NEW n \in Int, n = Len(m_states)
          PROVE  /\ Len(SubSeq(m_states, m, n)) = n - at
                 /\ \A k \in 1 .. n - at : SubSeq(m_states, m, n)[k] = m_states[at + k]
        <2>1. \A k \in m .. n : m_states[k] \in Writers
            BY <1>2, <1>4
        <2>2. /\ Len(SubSeq(m_states, m, n)) = IF m <= n THEN n - m + 1 ELSE 0
              /\ \A k \in 1 .. n - m + 1 : SubSeq(m_states, m, n)[k] = m_states[m + k - 1]
            BY <2>1, SubSeqProperties
        <2>3. /\ n - m + 1 = n - at /\ (~(m <= n) => n - at = 0)
              /\ \A k \in Int : m + k - 1 = at + k
            BY <1>2, <1>4
        <2> QED BY <2>2, <2>3
    <1>5. ASSUME NEW at \in 1 .. Len(m_states)
          PROVE  /\ Len(SubSeq(m_states, at + 1, Len(m_states))) = Len(m_states) - at
                 /\ \A k \in 1 .. Len(m_states) - at :
                        /\ at + k \in 1 .. Len(m_states)
                        /\ SubSeq(m_states, at + 1, Len(m_states))[k] = m_states[at + k]
        <2>1. at + 1 \in Int /\ Len(m_states) \in Int
            BY <1>2
        <2>2. \A k \in 1 .. Len(m_states) - at : at + k \in 1 .. Len(m_states)
            BY <1>2
        <2> QED BY <1>4, <2>1, <2>2
    <1> QED BY <1>3, <1>5 DEF TodoOf

LEMMA FlusherFlushedKeeps ==
    ASSUME FlushInv, NEW wr \in Writers, FlusherFlushed(wr)
    PROVE  FlushInv'
    <1>0. SUFFICES ASSUME NEW latch, latch = [m_latch EXCEPT ![wr] = "free"],
                        NEW fl, fl = [flushing EXCEPT ![wr] = NotFlushing],
                        NEW at, at = PlaceOf(wr), NEW todo, todo = TodoOf(wr)
                 PROVE  FlushInv'
        OBVIOUS
    <1>1. /\ m_latch[wr] = "flusher" /\ owner' = WokenBy(wr) /\ Sweep(todo, latch, fl)
        BY <1>0, FlushedSweeps
    <1>2. m_states' = m_states
        BY FlushedSweeps
    <1>3. /\ m_states \in Seq(Writers) /\ IsInjective(m_states) /\ owner \in [Writers -> OwnerLabels]
          /\ m_latch \in [Writers -> {"free", "owner", "flusher"}] /\ DOMAIN flushing = Writers
        BY DEF FlushInv, FlushTypes
    <1>4. /\ latch \in [Writers -> {"free", "owner"}]
          /\ \A x \in Writers : latch[x] = "owner" <=> m_latch[x] = "owner"
        <2>1. \A x \in Writers : m_latch[x] = "flusher" => x = wr
            BY <1>1 DEF FlushInv, OneFlusher
        <2>2. DOMAIN latch = Writers /\ latch[wr] = "free" /\ \A x \in Writers \ {wr} : latch[x] = m_latch[x]
            BY <1>0, <1>3
        <2>3. \A x \in Writers : latch[x] \in {"free", "owner"} /\ (latch[x] = "owner" <=> m_latch[x] = "owner")
            <3> SUFFICES ASSUME NEW x \in Writers
                         PROVE  latch[x] \in {"free", "owner"} /\ (latch[x] = "owner" <=> m_latch[x] = "owner")
                OBVIOUS
            <3>1. CASE x = wr
                BY <1>1, <2>2, <3>1
            <3>2. CASE x # wr
                BY <1>3, <2>1, <2>2, <3>2
            <3> QED BY <3>1, <3>2
        <2>4. latch = [x \in Writers |-> latch[x]]
            BY <1>0, <1>3
        <2> QED BY <2>2, <2>3, <2>4
    <1>5. /\ owner' \in [Writers -> OwnerLabels] /\ \A x \in Writers : Woken(x)
          /\ \A x \in Writers : owner'[x] = "latch free" => x = wr \/ owner[x] = "latch free"
        BY <1>1, <1>3 DEF WokenBy, Woken, Signalled, OwnerLabels
    <1>6. Len(m_states) \in Nat /\ \A k \in 1 .. Len(m_states) : m_states[k] \in Writers
        BY <1>3, LenProperties, ElementOfSeq
    <1>7. /\ at \in 1 .. Len(m_states) /\ m_states[at] = wr
          /\ Len(todo) = Len(m_states) - at
          /\ \A k \in 1 .. Len(todo) : at + k \in 1 .. Len(m_states) /\ todo[k] = m_states[at + k]
        BY <1>0, <1>1, TodoAfter
    <1>9. Len(todo) \in Nat
        BY <1>6, <1>7
    <1>10. \/ flusher' = "off" /\ m_latch' = latch /\ flushing' = fl /\ state' = state
           \/ \E k \in 1 .. Len(todo) :
                 /\ latch[todo[k]] = "free" /\ state[todo[k]].cached_pages # <<>>
                 /\ flusher' = "busy" /\ m_latch' = [latch EXCEPT ![todo[k]] = "flusher"]
                 /\ flushing' = TakePages(todo[k], fl)
                 /\ state' = [state EXCEPT ![todo[k]].cached_pages = <<>>]
        <2>1. Sweep(todo, latch, fl)
            BY <1>1
        <2> QED BY <1>9, <2>1, SweepGoes
    <1>11. \A x \in Writers : owner'[x] = "latch free" => x = wr \/ Before(m_states, x, wr)
        BY <1>1, <1>5 DEF FlushInv, SweptPast
    <1>12. ASSUME NEW k \in 1 .. Len(todo), NEW x \in Writers, owner'[x] = "latch free"
           PROVE  Before(m_states, x, todo[k]) /\ x # todo[k]
        <2> SUFFICES ASSUME NEW n, n = at + k PROVE Before(m_states, x, m_states[n]) /\ x # m_states[n]
            BY <1>7
        <2>1. n \in 1 .. Len(m_states) /\ at < n
            BY <1>6, <1>7, <1>9
        <2>2. x = m_states[at] \/ Before(m_states, x, m_states[at])
            BY <1>7, <1>11, <1>12
        <2>3. at \in 1 .. Len(m_states)
            BY <1>7
        <2> QED BY <1>3, <2>1, <2>2, <2>3, BeforeLater
    <1>13. \A k \in 1 .. Len(todo) : todo[k] \in Writers
        BY <1>6, <1>7
    <1>14. \/ flusher' = "off" /\ m_latch' = latch /\ flushing' = fl /\ state' = state
           \/ \E y \in Writers :
                 /\ latch[y] = "free" /\ state[y].cached_pages # <<>>
                 /\ flusher' = "busy" /\ m_latch' = [latch EXCEPT ![y] = "flusher"]
                 /\ flushing' = TakePages(y, fl)
                 /\ state' = [state EXCEPT ![y].cached_pages = <<>>]
                 /\ \A x \in Writers : owner'[x] = "latch free" => Before(m_states, x, y) /\ x # y
        BY <1>10, <1>12, <1>13, Zenon
    <1>15. DOMAIN fl = Writers
        BY <1>0, <1>3
    <1> QED BY <1>2, <1>4, <1>5, <1>14, <1>15, SweepKeeps

-----------------------------------------------------------------------------
(* The theorem. *)

LEMMA FlushInvInit ==
    ASSUME DiskWriterInit
    PROVE  FlushInv
    <1>1. FlushTypes
        <2>1. m_states \in Seq(Writers) /\ IsInjective(m_states)
            BY DEF DiskWriterInit, IsInjective
        <2>2. /\ owner \in [Writers -> OwnerLabels]
              /\ m_latch \in [Writers -> {"free", "owner", "flusher"}]
              /\ flusher \in {"off", "created", "busy"} /\ DOMAIN flushing = Writers
            BY DEF DiskWriterInit, OwnerLabels
        <2>3. DOMAIN state = Writers /\ \A wr \in Writers : DOMAIN state[wr] = Fields
            BY NoStateFields DEF DiskWriterInit
        <2> QED BY <2>1, <2>2, <2>3 DEF FlushTypes
    <1>2. ToSet(m_states) = {}
        BY DEF DiskWriterInit, ToSet
    <1>3. ListedIffOpen
        BY <1>2 DEF DiskWriterInit, ListedIffOpen
    <1>4. LatchHolders /\ OneFlusher /\ SweptPast
        BY DEF DiskWriterInit, LatchHolders, OneFlusher, SweptPast
    <1>5. NothingLeft
        BY NoStateFields DEF DiskWriterInit, NothingLeft
    <1> QED BY <1>1, <1>3, <1>4, <1>5 DEF FlushInv

LEMMA FlushInvStep ==
    ASSUME FlushInv, [DiskWriterNext]_writerVars
    PROVE  FlushInv'
    <1>1. CASE UNCHANGED <<m_states, state, m_latch, flushing, owner, flusher>>
        BY <1>1 DEF FlushInv, FlushTypes, ListedIffOpen, LatchHolders, NothingLeft, OneFlusher,
                    SweptPast
    <1>2. CASE UNCHANGED writerVars
        BY <1>1, <1>2 DEF writerVars
    <1>3. ASSUME NEW f \in committed, Unlink(f)
          PROVE  FlushInv'
        BY <1>1, <1>3 DEF Unlink
    <1>6. CASE StrayLands
        BY <1>1, <1>6 DEF StrayLands
    <1>4. CASE FlusherStarts
        BY <1>4, FlusherStartsKeeps
    <1>5. ASSUME NEW wr \in Writers,
                 \/ Open(wr) \/ AwaitPage(wr) \/ AllocatePage(wr) \/ WritePage(wr) \/ FlushLast(wr)
                 \/ OwnerStep(wr) \/ Flushing(wr) \/ Commit(wr) \/ Abort(wr)
                 \/ FlushFails(wr)
          PROVE  FlushInv'
        <2>1. CASE Open(wr)
            BY <2>1, OpenKeeps
        <2>2. CASE AwaitPage(wr) \/ AllocatePage(wr) \/ WritePage(wr) \/ FlushLast(wr)
            BY <2>2, OwnerStepKeeps
        <2>3. CASE OwnerStep(wr)
            BY <2>3, OwnerStepKeeps, StartFlushKeeps DEF OwnerStep
        <2>4. CASE Flushing(wr)
            BY <2>4, AllocateSpaceKeeps, OwnerFlushedKeeps, FlusherFlushedKeeps DEF Flushing
        <2>5. CASE Commit(wr) \/ Abort(wr) \/ FlushFails(wr)
            BY <2>5, EndKeeps
        <2> QED BY <1>5, <2>1, <2>2, <2>3, <2>4, <2>5
    <1> QED BY <1>2, <1>3, <1>4, <1>5, <1>6 DEF DiskWriterNext

\* The flush thread has somebody's latch, whether the state is still there or not.
LatchTaken == flusher = "busy" => \E wr \in Writers : m_latch[wr] = "flusher"

LEMMA OpenIffLatchTaken ==
    ASSUME FlushInv
    PROVE  FlushedStateIsOpen <=> LatchTaken
    <1>1. \A wr \in Writers : m_latch[wr] = "flusher" => wr \in ToSet(m_states)
        BY DEF FlushInv, LatchHolders, ListedIffOpen
    <1>2. ToSet(m_states) \subseteq Writers
        BY ElementOfSeq, InToSet DEF FlushInv, FlushTypes
    <1> QED BY <1>1, <1>2 DEF FlushedStateIsOpen, LatchTaken

\* A sweep that does not end takes a latch.
LEMMA SweepTakes ==
    ASSUME NEW todo, Len(todo) \in Nat, \A k \in 1 .. Len(todo) : todo[k] \in Writers,
           NEW latch, DOMAIN latch = Writers, NEW fl, Sweep(todo, latch, fl)
    PROVE  LatchTaken'
    <1>1. CASE flusher' = "off"
        BY <1>1 DEF LatchTaken
    <1>2. ASSUME NEW k \in 1 .. Len(todo), m_latch' = [latch EXCEPT ![todo[k]] = "flusher"]
          PROVE  LatchTaken'
        BY <1>2 DEF LatchTaken
    <1> QED BY <1>1, <1>2, SweepGoes

\* A latch that the flush thread has stays, unless its file is dropped.
LEMMA LatchStays ==
    ASSUME FlushInv, LatchTaken, DiskWriterNext, \A wr \in Writers : ~Abort(wr)
    PROVE  LatchTaken'
    <1>1. /\ m_latch \in [Writers -> {"free", "owner", "flusher"}]
          /\ m_states \in Seq(Writers)
        BY DEF FlushInv, FlushTypes
    <1>2. Len(m_states) \in Nat /\ \A k \in 1 .. Len(m_states) : m_states[k] \in Writers
        BY <1>1, LenProperties, ElementOfSeq
    <1>3. ASSUME UNCHANGED m_latch, flusher' = "busy" => flusher = "busy"
          PROVE  LatchTaken'
        BY <1>3 DEF LatchTaken
    <1>4. ASSUME NEW wr \in Writers, m_latch[wr] # "flusher", UNCHANGED flusher,
                 NEW l, m_latch' = [m_latch EXCEPT ![wr] = l]
          PROVE  LatchTaken'
        BY <1>1, <1>4 DEF LatchTaken
    <1>5. CASE FlusherStarts
        BY <1>1, <1>2, <1>5, SweepTakes DEF FlusherStarts
    <1>6. CASE StrayLands \/ \E f \in committed : Unlink(f)
        BY <1>3, <1>6 DEF StrayLands, Unlink
    <1>7. ASSUME NEW wr \in Writers,
                 \/ Open(wr) \/ AwaitPage(wr) \/ AllocatePage(wr) \/ WritePage(wr) \/ FlushLast(wr)
                 \/ RunAgain(wr) \/ AwaitFlusher(wr) \/ NothingToFlush(wr)
                 \/ AllocateSpace(wr) \/ Commit(wr)
          PROVE  LatchTaken'
        <2>1. UNCHANGED m_latch
            BY <1>7 DEF Open, AwaitPage, AllocatePage, WritePage, FlushLast, RunAgain,
                        AwaitFlusher, NothingToFlush, AllocateSpace, Commit
        <2>2. flusher' = flusher \/ flusher' = "created"
            BY <1>7 DEF Open, AwaitPage, AllocatePage, WritePage, FlushLast, RunAgain,
                        AwaitFlusher, NothingToFlush, AllocateSpace, Commit, start_global_flush
        <2> QED BY <1>3, <2>1, <2>2
    <1>8. ASSUME NEW wr \in Writers, StartFlush(wr)
          PROVE  LatchTaken'
        <2>1. /\ m_latch' = [m_latch EXCEPT ![wr] = "owner"] /\ UNCHANGED flusher
              /\ owner[wr] = "latch free" \/ m_latch[wr] = "free"
            BY <1>8 DEF StartFlush, MayFlush, Latched
        <2>2. m_latch[wr] # "flusher"
            BY <2>1 DEF FlushInv, LatchHolders
        <2> QED BY <1>4, <2>1, <2>2
    <1>9. ASSUME NEW wr \in Writers, OwnerFlushed(wr) \/ FlushFails(wr)
          PROVE  LatchTaken'
        <2>1. /\ m_latch[wr] # "flusher" /\ UNCHANGED flusher
              /\ m_latch' = [m_latch EXCEPT ![wr] = "free"]
            BY <1>9 DEF OwnerFlushed, FlushFails
        <2> QED BY <1>4, <2>1
    <1>10. ASSUME NEW wr \in Writers, FlusherFlushed(wr)
           PROVE  LatchTaken'
        <2> SUFFICES ASSUME NEW at, at = PlaceOf(wr), NEW todo, todo = TodoOf(wr),
                            NEW latch, latch = [m_latch EXCEPT ![wr] = "free"]
                     PROVE  LatchTaken'
            OBVIOUS
        <2>1. m_latch[wr] = "flusher" /\ Sweep(todo, latch, [flushing EXCEPT ![wr] = NotFlushing])
            BY <1>10, FlushedSweeps
        <2>2. /\ at \in 1 .. Len(m_states) /\ Len(todo) = Len(m_states) - at
              /\ \A k \in 1 .. Len(todo) : at + k \in 1 .. Len(m_states) /\ todo[k] = m_states[at + k]
            BY <2>1, TodoAfter
        <2>3. Len(todo) \in Nat /\ \A k \in 1 .. Len(todo) : todo[k] \in Writers
            BY <1>2, <2>2
        <2>4. DOMAIN latch = Writers
            BY <1>1
        <2> QED BY <2>1, <2>3, <2>4, SweepTakes
    <1> QED BY <1>5, <1>6, <1>7, <1>8, <1>9, <1>10 DEF DiskWriterNext, OwnerStep, Flushing

\* For every number of writers, only dropping a file takes its state from under
\* the flush thread: slabs.h:73 cannot fail in flush_thread because of files that
\* are opened, flushed and committed meanwhile.
THEOREM WriterFlushedStateStaysOpen == DiskWriterSpec => FlushedStateStaysOpen
    <1> DEFINE Stays == FlushedStateIsOpen => FlushedStateIsOpen' \/ \E wr \in Writers : Abort(wr)
    <1>1. DiskWriterInit => FlushInv
        BY FlushInvInit
    <1>2. FlushInv /\ [DiskWriterNext]_writerVars => FlushInv'
        BY FlushInvStep
    <1>3. ASSUME FlushInv, FlushInv', [DiskWriterNext]_writerVars
          PROVE  [Stays]_writerVars
        <2> SUFFICES ASSUME DiskWriterNext, FlushedStateIsOpen, \A wr \in Writers : ~Abort(wr)
                     PROVE  FlushedStateIsOpen'
            BY <1>3
        <2>1. LatchTaken'
            BY <1>3, LatchStays, OpenIffLatchTaken
        <2>2. (FlushedStateIsOpen <=> LatchTaken)'
            BY <1>3, OpenIffLatchTaken, PTL
        <2> QED BY <2>1, <2>2
    <1> QED BY <1>1, <1>2, <1>3, PTL DEF DiskWriterSpec, FlushedStateStaysOpen

-----------------------------------------------------------------------------
(* The pages of a file: what is not on the disk yet, in the order of the   *)
(* file, and the file as far as it is on the disk.                         *)

Extent == [page : Nat, pages : Nat]
StateType == [cache_id : Nat, size : Nat, mem_page : Pages \cup {NoPage},
              cached_pages : Seq(Pages), extents : Seq(Extent)]
FlushingType == [pages : Seq(Pages), allocated : BOOLEAN]
FileType == [cache_id : Nat, size : Nat, extents : Seq(Extent)]

MemPage(s) == IF s.mem_page = NoPage THEN <<>> ELSE <<s.mem_page>>
PendingOf(s, f) == (f.pages \o s.cached_pages) \o MemPage(s)
FlushedOf(s, f) == IF f.allocated THEN PagesUpTo(s.extents, Len(s.extents) - 1) ELSE SizeOf(s.extents)
FileOf(s, f) == [cache_id |-> s.cache_id, size |-> FlushedOf(s, f), extents |-> s.extents]

Keys == Nat \X Nat

Pending == [wr \in Writers |-> PendingOf(state[wr], flushing[wr])]
File == [wr \in Writers |-> FileOf(state[wr], flushing[wr])]
Files == committed \cup {File[wr] : wr \in Writers}

\* The state of a writer, with the latch at l and the owner at o.
StateOK(s, f, o, l) ==
    /\ s \in StateType /\ f \in FlushingType
    /\ o = "closed" <=> s.cache_id = 0
    /\ o = "closed" => s = NoState
    /\ l = "free" <=> f.pages = <<>>
    /\ f.allocated => f.pages # <<>> /\ s.extents # <<>> /\ Last(s.extents).pages = Len(f.pages)
    /\ s.mem_page # NoPage => o = "idle"
    /\ s.size = FlushedOf(s, f) + Len(PendingOf(s, f))

StatesOK ==
    /\ DOMAIN state = Writers /\ DOMAIN flushing = Writers
    /\ \A wr \in Writers : StateOK(state[wr], flushing[wr], owner[wr], m_latch[wr])

\* Every file has a cache id of its own.
IdsOK ==
    /\ next_cache_id \in Nat \ {0}
    /\ File \in [Writers -> FileType] /\ committed \subseteq FileType
    /\ \A wr \in Writers : File[wr].cache_id < next_cache_id
    /\ \A wr, x \in Writers : wr # x /\ File[wr].cache_id = File[x].cache_id => File[wr].cache_id = 0
    /\ \A f \in committed : /\ f.cache_id # 0 /\ f.cache_id < next_cache_id
                            /\ \A wr \in Writers : f.cache_id # File[wr].cache_id
    /\ \A f, g \in committed : f.cache_id = g.cache_id => f = g

\* A pending page has the data of its page of the file; there is nothing of a
\* file that is not open.
PendingOK ==
    /\ memory \in [Pages -> Keys]
    /\ Pending \in [Writers -> Seq(Pages)]
    /\ \A wr \in Writers :
          File[wr].cache_id = 0 => Pending[wr] = <<>> /\ File[wr].extents = <<>> /\ File[wr].size = 0
    /\ \A wr \in Writers : \A i \in 1 .. Len(Pending[wr]) :
          memory[Pending[wr][i]] = <<File[wr].cache_id, File[wr].size + i - 1>>

Dirty == lost \cup UNION {ToSet(Pending[wr]) : wr \in Writers}

PagesOK ==
    /\ \A wr \in Writers : ToSet(Pending[wr]) \cap lost = {}
    /\ Dirty \cap Owned(cache) = {} /\ Dirty \cup Owned(cache) = Pages
    /\ m_dirty_pages = Cardinality(Dirty)

\* A page in the cache has the data of its key, and of open files only pages
\* that are on the disk are in the cache.
CachedOK ==
    /\ CacheOK(Keys, cache)
    /\ \A k \in Cached(cache) :
          /\ memory[cache.item[k]] = k
          /\ k[1] # 0 /\ k[1] < next_cache_id
          /\ \A wr \in Writers : k[1] = File[wr].cache_id => k[2] < File[wr].size

PagesOfExtent(e) == e.page .. e.page + e.pages - 1

\* The numbers that a disk page has among the pages of a file.
NumbersAt(extents, p) ==
    {PagesUpTo(extents, i - 1) + (p - extents[i].page) :
        i \in {j \in 1 .. Len(extents) : p \in PagesOfExtent(extents[j])}}

SameNumber(f, g, p) ==
    \A n \in NumbersAt(f.extents, p), m \in NumbersAt(g.extents, p) : f.cache_id = g.cache_id /\ n = m

\* A disk page has the data v, or what a write for a dropped file left in it.
Holds(dk, st, p, v) == dk[p] = v \/ <<p, dk[p]>> \in st

\* A disk page has one number in one of the files fs, and the data of that page,
\* if no write for a dropped file came after it.
DiskHas(fs, free, dk, st) ==
    /\ free \subseteq DiskPages
    /\ \A f \in fs : DiskPagesOf(f.extents) \subseteq DiskPages \ free
    /\ \A f \in fs : \A p \in DiskPages : \A n \in NumbersAt(f.extents, p) :
          n < f.size => Holds(dk, st, p, <<f.cache_id, n>>)
    /\ \A f, g \in fs : \A p \in DiskPages : SameNumber(f, g, p)

DiskOK ==
    /\ DiskHas(Files, disk_free, disk, stray)
    /\ DOMAIN disk = DiskPages /\ \A w \in stray : \E p, v : w = <<p, v>>
    /\ \A f \in committed : SizeOf(f.extents) = f.size

FilesOK == IdsOK /\ PendingOK /\ PagesOK /\ CachedOK /\ DiskOK

WriterInv == FlushInv /\ StatesOK /\ FilesOK

-----------------------------------------------------------------------------
(* The pages of the first extents of a file. *)

IsSum(g, extents, n) == g = [i \in 0 .. n |-> IF i = 0 THEN 0 ELSE g[i - 1] + extents[i].pages]

LEMMA SumExists ==
    ASSUME NEW extents, NEW n \in Nat
    PROVE  \E g : IsSum(g, extents, n)
    <1> DEFINE T == {m \in Nat : ~\E g : IsSum(g, extents, m)}
    <1> SUFFICES ASSUME T # {} PROVE FALSE
        OBVIOUS
    <1>1. PICK m \in T : \A y \in T : m <= y
        BY LeastNatural
    <1>2. m # 0
        <2> DEFINE g == [i \in 0 .. 0 |-> 0]
        <2>1. IsSum(g, extents, 0)
            BY DEF IsSum
        <2> QED BY <2>1
    <1>3. m - 1 \in Nat /\ m - 1 \notin T
        BY <1>1, <1>2
    <1>4. PICK h : IsSum(h, extents, m - 1)
        BY <1>3
    <1> DEFINE g == [i \in 0 .. m |-> IF i = m THEN h[m - 1] + extents[m].pages ELSE h[i]]
    <1>5. h = [i \in 0 .. m - 1 |-> IF i = 0 THEN 0 ELSE h[i - 1] + extents[i].pages]
        BY <1>4 DEF IsSum
    <1>6. ASSUME NEW i \in 0 .. m
          PROVE  g[i] = IF i = 0 THEN 0 ELSE g[i - 1] + extents[i].pages
        <2>1. CASE i = m
            BY <1>1, <1>2, <2>1
        <2>2. CASE i # m
            <3>1. i \in 0 .. m - 1 /\ g[i] = h[i]
                BY <1>1, <2>2
            <3>2. i # 0 => g[i - 1] = h[i - 1]
                BY <1>1, <2>2
            <3> QED BY <1>5, <3>1, <3>2
        <2> QED BY <2>1, <2>2
    <1> DEFINE r == [i \in 0 .. m |-> IF i = 0 THEN 0 ELSE g[i - 1] + extents[i].pages]
    <1>7. g = r
        BY <1>6
    <1>8. IsSum(g, extents, m)
        BY <1>7 DEF IsSum
    <1> QED BY <1>1, <1>8

SamePages(e, d, n) == \A i \in 1 .. n : e[i].pages = d[i].pages

LEMMA SumUnique ==
    ASSUME NEW e, NEW d, NEW n \in Nat, NEW m \in Nat, NEW g, NEW h,
           IsSum(g, e, n), IsSum(h, d, m), NEW k \in Nat, k <= n, k <= m,
           SamePages(e, d, k)
    PROVE  g[k] = h[k]
    <1> DEFINE T == {j \in 0 .. k : g[j] # h[j]}
    <1> SUFFICES ASSUME T # {} PROVE FALSE
        OBVIOUS
    <1>0. T \subseteq Nat
        OBVIOUS
    <1>1. PICK j \in T : \A y \in T : j <= y
        BY <1>0, LeastNatural
    <1>2. /\ \A i \in 0 .. n : g[i] = IF i = 0 THEN 0 ELSE g[i - 1] + e[i].pages
          /\ \A i \in 0 .. m : h[i] = IF i = 0 THEN 0 ELSE h[i - 1] + d[i].pages
        BY DEF IsSum
    <1>3. j \in 0 .. n /\ j \in 0 .. m
        OBVIOUS
    <1>4. j # 0
        BY <1>2, <1>3
    <1>5. j - 1 \in 0 .. k /\ j - 1 \notin T /\ j \in 1 .. k
        BY <1>1, <1>4
    <1>6. g[j - 1] = h[j - 1] /\ e[j].pages = d[j].pages
        BY <1>5 DEF SamePages
    <1> QED BY <1>2, <1>3, <1>4, <1>6

LEMMA SumIs ==
    ASSUME NEW extents, NEW n \in Nat
    PROVE  \E g : IsSum(g, extents, n) /\ PagesUpTo(extents, n) = g[n]
    <1> DEFINE g == CHOOSE g : IsSum(g, extents, n)
    <1>1. IsSum(g, extents, n)
        BY SumExists
    <1>2. PagesUpTo(extents, n) = g[n]
        BY DEF PagesUpTo, IsSum
    <1> QED BY <1>1, <1>2

\* The sum depends on the extents that it counts.
LEMMA PagesUpToSame ==
    ASSUME NEW e, NEW d, NEW n \in Nat, SamePages(e, d, n)
    PROVE  PagesUpTo(e, n) = PagesUpTo(d, n)
    <1>1. PICK g : IsSum(g, e, n) /\ PagesUpTo(e, n) = g[n]
        BY SumIs
    <1>2. PICK h : IsSum(h, d, n) /\ PagesUpTo(d, n) = h[n]
        BY SumIs
    <1>3. g[n] = h[n]
        <2>1. n <= n
            OBVIOUS
        <2> QED BY <1>1, <1>2, <2>1, SumUnique
    <1> QED BY <1>1, <1>2, <1>3

LEMMA PagesUpToStep ==
    ASSUME NEW e, NEW n \in Nat
    PROVE  PagesUpTo(e, 0) = 0 /\ PagesUpTo(e, n + 1) = PagesUpTo(e, n) + e[n + 1].pages
    <1>1. PagesUpTo(e, 0) = 0
        <2>1. PICK g : IsSum(g, e, 0) /\ PagesUpTo(e, 0) = g[0]
            BY SumIs
        <2> QED BY <2>1 DEF IsSum
    <1>2. PICK g : IsSum(g, e, n) /\ PagesUpTo(e, n) = g[n]
        BY SumIs
    <1>3. PICK h : IsSum(h, e, n + 1) /\ PagesUpTo(e, n + 1) = h[n + 1]
        BY SumIs
    <1>4. g[n] = h[n]
        <2>1. n <= n /\ n <= n + 1 /\ n + 1 \in Nat /\ SamePages(e, e, n)
            BY DEF SamePages
        <2> QED BY <1>2, <1>3, <2>1, SumUnique
    <1>5. h[n + 1] = h[n] + e[n + 1].pages
        BY <1>3 DEF IsSum
    <1> QED BY <1>1, <1>2, <1>3, <1>4, <1>5

LEMMA ExtentFields ==
    ASSUME NEW e \in Seq(Extent)
    PROVE  Len(e) \in Nat /\ \A i \in 1 .. Len(e) : e[i].page \in Nat /\ e[i].pages \in Nat
    <1>1. Len(e) \in Nat /\ \A i \in 1 .. Len(e) : e[i] \in Extent
        BY LenProperties, ElementOfSeq
    <1> QED BY <1>1 DEF Extent

\* The sum is a number and does not fall.
LEMMA PagesUpToNat ==
    ASSUME NEW e \in Seq(Extent), NEW n \in 0 .. Len(e)
    PROVE  PagesUpTo(e, n) \in Nat
    <1> DEFINE T == {m \in 0 .. Len(e) : PagesUpTo(e, m) \notin Nat}
    <1> SUFFICES ASSUME T # {} PROVE FALSE
        OBVIOUS
    <1>1. Len(e) \in Nat /\ T \subseteq Nat /\ \A i \in 1 .. Len(e) : e[i].pages \in Nat
        BY ExtentFields
    <1>2. PICK m \in T : \A y \in T : m <= y
        BY <1>1, LeastNatural
    <1>3. m # 0
        BY <1>2, PagesUpToStep
    <1>4. m - 1 \in 0 .. Len(e) /\ m - 1 \notin T /\ m - 1 \in Nat /\ m \in 1 .. Len(e) /\ (m - 1) + 1 = m
        BY <1>1, <1>2, <1>3
    <1>5. PagesUpTo(e, (m - 1) + 1) = PagesUpTo(e, m - 1) + e[(m - 1) + 1].pages
        BY <1>4, PagesUpToStep
    <1>6. PagesUpTo(e, m - 1) \in Nat /\ e[m].pages \in Nat
        BY <1>1, <1>4
    <1> QED BY <1>4, <1>5, <1>6

LEMMA PagesUpToGrows ==
    ASSUME NEW e \in Seq(Extent), NEW n \in 0 .. Len(e), NEW k \in 0 .. n
    PROVE  PagesUpTo(e, k) <= PagesUpTo(e, n)
    <1> DEFINE T == {m \in k .. Len(e) : ~(PagesUpTo(e, k) <= PagesUpTo(e, m))}
    <1> SUFFICES ASSUME T # {} PROVE FALSE
        OBVIOUS
    <1>1. Len(e) \in Nat /\ T \subseteq Nat /\ \A i \in 1 .. Len(e) : e[i].pages \in Nat
        BY ExtentFields
    <1>2. PICK m \in T : \A y \in T : m <= y
        BY <1>1, LeastNatural
    <1>3. PagesUpTo(e, k) \in Nat
        BY <1>1, PagesUpToNat
    <1>4. m # k
        BY <1>2, <1>3
    <1>5. m - 1 \in k .. Len(e) /\ m - 1 \notin T /\ m - 1 \in Nat /\ m \in 1 .. Len(e) /\ (m - 1) + 1 = m
        BY <1>1, <1>2, <1>4
    <1>6. PagesUpTo(e, m) = PagesUpTo(e, m - 1) + e[m].pages
        <2>1. PagesUpTo(e, (m - 1) + 1) = PagesUpTo(e, m - 1) + e[(m - 1) + 1].pages
            BY <1>5, PagesUpToStep
        <2> QED BY <1>5, <2>1
    <1>7. PagesUpTo(e, m - 1) \in Nat /\ PagesUpTo(e, m) \in Nat /\ e[m].pages \in Nat
        <2>1. m - 1 \in 0 .. Len(e) /\ m \in 0 .. Len(e)
            BY <1>1, <1>5
        <2> QED BY <1>1, <1>5, <2>1, PagesUpToNat
    <1>8. PagesUpTo(e, k) <= PagesUpTo(e, m - 1)
        BY <1>5
    <1> QED BY <1>2, <1>3, <1>6, <1>7, <1>8

-----------------------------------------------------------------------------
(* The numbers of a disk page. *)

LEMMA DiskPagesOfExtents ==
    ASSUME NEW e \in Seq(Extent)
    PROVE  \A p : /\ p \in DiskPagesOf(e) <=> \E i \in 1 .. Len(e) : p \in PagesOfExtent(e[i])
                  /\ p \in DiskPagesOf(e) <=> NumbersAt(e, p) # {}
                  /\ p \in DiskPagesOf(e) => p \in Nat
    <1>1. \A p : p \in DiskPagesOf(e) <=> \E i \in 1 .. Len(e) : p \in PagesOfExtent(e[i])
        <2>1. \A x : x \in ToSet(e) <=> \E i \in 1 .. Len(e) : e[i] = x
            BY InToSet
        <2> HIDE DEF ToSet
        <2> QED BY <2>1 DEF DiskPagesOf, PagesOfExtent
    <1>2. \A p : NumbersAt(e, p) # {} <=> \E i \in 1 .. Len(e) : p \in PagesOfExtent(e[i])
        BY DEF NumbersAt
    <1>3. \A i \in 1 .. Len(e) : \A p \in PagesOfExtent(e[i]) : p \in Nat
        <2>1. \A i \in 1 .. Len(e) : e[i].page \in Nat /\ e[i].pages \in Nat
            BY ExtentFields
        <2> QED BY <2>1 DEF PagesOfExtent
    <1> QED BY <1>1, <1>2, <1>3

\* A page z of the c pages from b on, with the number a of the first of them.
LEMMA InExtent ==
    \A a, b, c \in Nat : \A z \in b .. b + c - 1 :
        /\ z \in Nat /\ z - b \in Nat /\ z - b < c
        /\ z - b + 1 \in 1 .. c /\ a + (z - b + 1) - 1 = a + (z - b)
    OBVIOUS

\* A number, the extent that gives it, and what it is less than.
LEMMA NumberBound ==
    ASSUME NEW e \in Seq(Extent), NEW p, NEW n \in NumbersAt(e, p)
    PROVE  /\ n \in Nat /\ p \in Nat /\ n < SizeOf(e)
           /\ p \notin PagesOfExtent(e[Len(e)]) => n < PagesUpTo(e, Len(e) - 1)
    <1>1. PICK i \in 1 .. Len(e) : p \in PagesOfExtent(e[i]) /\ n = PagesUpTo(e, i - 1) + (p - e[i].page)
        BY DEF NumbersAt
    <1>2. /\ Len(e) \in Nat /\ e[i].page \in Nat /\ e[i].pages \in Nat
          /\ i - 1 \in 0 .. Len(e) /\ i \in 0 .. Len(e) /\ i - 1 \in Nat /\ (i - 1) + 1 = i
          /\ Len(e) \in 0 .. Len(e) /\ Len(e) - 1 \in 0 .. Len(e)
        BY ExtentFields
    <1>3. PagesUpTo(e, i - 1) \in Nat /\ PagesUpTo(e, i) = PagesUpTo(e, i - 1) + e[i].pages
        <2>1. PagesUpTo(e, (i - 1) + 1) = PagesUpTo(e, i - 1) + e[(i - 1) + 1].pages
            BY <1>2, PagesUpToStep
        <2> QED BY <1>2, <2>1, PagesUpToNat
    <1>4. p - e[i].page \in Nat /\ p - e[i].page < e[i].pages /\ p \in Nat
        <2>1. p \in e[i].page .. e[i].page + e[i].pages - 1
            BY <1>1 DEF PagesOfExtent
        <2> QED BY ONLY <1>2, <2>1, InExtent
    <1>5. n \in Nat /\ n < PagesUpTo(e, i)
        <2>1. n = PagesUpTo(e, i - 1) + (p - e[i].page)
            BY <1>1
        <2>2. e[i].pages \in Nat
            BY <1>2
        <2> QED BY ONLY <1>3, <1>4, <2>1, <2>2
    <1>6. PagesUpTo(e, i) <= PagesUpTo(e, Len(e)) /\ PagesUpTo(e, i) \in Nat /\ PagesUpTo(e, Len(e)) \in Nat
        BY <1>2, PagesUpToGrows, PagesUpToNat
    <1>7. n < SizeOf(e)
        BY <1>5, <1>6 DEF SizeOf
    <1>8. ASSUME p \notin PagesOfExtent(e[Len(e)]) PROVE n < PagesUpTo(e, Len(e) - 1)
        <2>1. i # Len(e)
            BY <1>1, <1>8
        <2>2. i \in 0 .. Len(e) - 1
            BY <1>2, <2>1
        <2>3. PagesUpTo(e, i) <= PagesUpTo(e, Len(e) - 1) /\ PagesUpTo(e, Len(e) - 1) \in Nat
            BY <1>2, <2>2, PagesUpToGrows, PagesUpToNat
        <2> QED BY <1>5, <1>6, <2>3
    <1> QED BY <1>4, <1>5, <1>7, <1>8

\* The last extent.
LEMMA LastNumbers ==
    ASSUME NEW e \in Seq(Extent), e # <<>>
    PROVE  /\ Last(e) = e[Len(e)] /\ Last(e) \in Extent /\ Len(e) \in Nat \ {0}
           /\ SizeOf(e) = PagesUpTo(e, Len(e) - 1) + Last(e).pages
           /\ PagesUpTo(e, Len(e) - 1) \in Nat
           /\ \A p \in PagesOfExtent(Last(e)) :
                 PagesUpTo(e, Len(e) - 1) + (p - Last(e).page) \in NumbersAt(e, p)
    <1>1. Len(e) \in Nat \ {0} /\ Last(e) = e[Len(e)] /\ Last(e) \in Extent
        BY LenProperties, EmptySeq, ElementOfSeq DEF Last
    <1>2. Len(e) - 1 \in Nat /\ (Len(e) - 1) + 1 = Len(e) /\ Len(e) - 1 \in 0 .. Len(e) /\ Len(e) \in 1 .. Len(e)
        BY <1>1
    <1>3. PagesUpTo(e, (Len(e) - 1) + 1) = PagesUpTo(e, Len(e) - 1) + e[(Len(e) - 1) + 1].pages
        BY <1>2, PagesUpToStep
    <1>4. SizeOf(e) = PagesUpTo(e, Len(e) - 1) + Last(e).pages
        BY <1>1, <1>2, <1>3 DEF SizeOf
    <1>5. PagesUpTo(e, Len(e) - 1) \in Nat
        BY <1>2, PagesUpToNat
    <1>6. \A p \in PagesOfExtent(Last(e)) :
                 PagesUpTo(e, Len(e) - 1) + (p - Last(e).page) \in NumbersAt(e, p)
        BY <1>1, <1>2 DEF NumbersAt
    <1> QED BY <1>1, <1>4, <1>5, <1>6

\* One more extent.
LEMMA AppendExtent ==
    ASSUME NEW e \in Seq(Extent), NEW x \in Extent, NEW d, d = Append(e, x)
    PROVE  /\ d \in Seq(Extent) /\ d # <<>> /\ Last(d) = x
           /\ PagesUpTo(d, Len(d) - 1) = SizeOf(e)
           /\ \A p : p \in DiskPagesOf(d) <=> p \in DiskPagesOf(e) \/ p \in PagesOfExtent(x)
           /\ \A p : \A n \in NumbersAt(d, p) :
                 n \in NumbersAt(e, p) \/ (p \in PagesOfExtent(x) /\ n = SizeOf(e) + (p - x.page))
    <1>1. /\ d \in Seq(Extent) /\ Len(d) = Len(e) + 1 /\ d[Len(e) + 1] = x
          /\ \A i \in 1 .. Len(e) : d[i] = e[i]
        BY AppendProperties
    <1>2. Len(e) \in Nat /\ Len(d) - 1 = Len(e) /\ Len(d) \in Nat \ {0}
        BY <1>1, LenProperties
    <1>3. d # <<>>
        BY <1>2
    <1>4. Last(d) = x
        BY <1>1 DEF Last
    <1>5. \A i \in 0 .. Len(e) : PagesUpTo(d, i) = PagesUpTo(e, i)
        <2> SUFFICES ASSUME NEW i \in 0 .. Len(e) PROVE PagesUpTo(d, i) = PagesUpTo(e, i)
            OBVIOUS
        <2>1. SamePages(d, e, i) /\ i \in Nat
            BY <1>1, <1>2 DEF SamePages
        <2> QED BY <2>1, PagesUpToSame
    <1>6. PagesUpTo(d, Len(d) - 1) = SizeOf(e)
        BY <1>2, <1>5 DEF SizeOf
    <1>7. \A p : p \in DiskPagesOf(d) <=> p \in DiskPagesOf(e) \/ p \in PagesOfExtent(x)
        <2> SUFFICES ASSUME NEW p
                     PROVE  (\E i \in 1 .. Len(d) : p \in PagesOfExtent(d[i]))
                             <=> (\E i \in 1 .. Len(e) : p \in PagesOfExtent(e[i])) \/ p \in PagesOfExtent(x)
            BY <1>1, DiskPagesOfExtents
        <2>1. \A i : i \in 1 .. Len(d) <=> i \in 1 .. Len(e) \/ i = Len(e) + 1
            BY <1>1, <1>2
        <2> QED BY <1>1, <2>1
    <1>8. ASSUME NEW p, NEW n \in NumbersAt(d, p)
          PROVE  n \in NumbersAt(e, p) \/ (p \in PagesOfExtent(x) /\ n = SizeOf(e) + (p - x.page))
        <2>1. PICK i \in 1 .. Len(d) : p \in PagesOfExtent(d[i]) /\ n = PagesUpTo(d, i - 1) + (p - d[i].page)
            BY DEF NumbersAt
        <2>2. i - 1 \in 0 .. Len(e) /\ PagesUpTo(d, i - 1) = PagesUpTo(e, i - 1)
            BY <1>1, <1>2, <1>5
        <2>3. CASE i = Len(e) + 1
            <3>1. i - 1 = Len(e)
                BY <1>2, <2>3
            <3> QED BY <1>1, <2>1, <2>2, <2>3, <3>1 DEF SizeOf
        <2>4. CASE i # Len(e) + 1
            <3>1. i \in 1 .. Len(e) /\ d[i] = e[i]
                BY <1>1, <1>2, <2>4
            <3> QED BY <2>1, <2>2, <3>1 DEF NumbersAt
        <2> QED BY <2>3, <2>4
    <1> QED BY <1>1, <1>3, <1>4, <1>6, <1>7, <1>8

\* disk_reader::get_disk_page finds the place of every page of a file.
LEMMA PageFound ==
    ASSUME NEW e \in Seq(Extent), NEW n \in Nat, n < SizeOf(e)
    PROVE  n \in NumbersAt(e, get_disk_page(n, e))
    <1> DEFINE ends(j) == PagesUpTo(e, j - 1) + e[j].pages
               J == {j \in 1 .. Len(e) : ends(j) > n}
    <1>1. /\ Len(e) \in Nat
          /\ \A j \in 1 .. Len(e) : /\ j - 1 \in Nat /\ j - 1 \in 0 .. Len(e) /\ (j - 1) + 1 = j
                                    /\ e[j].pages \in Nat /\ e[j].page \in Nat
        BY ExtentFields
    <1>2. \A j \in 1 .. Len(e) : PagesUpTo(e, j) = ends(j) /\ PagesUpTo(e, j - 1) \in Nat
        <2> SUFFICES ASSUME NEW j \in 1 .. Len(e)
                     PROVE  PagesUpTo(e, j) = ends(j) /\ PagesUpTo(e, j - 1) \in Nat
            OBVIOUS
        <2>1. PagesUpTo(e, (j - 1) + 1) = PagesUpTo(e, j - 1) + e[(j - 1) + 1].pages
            BY <1>1, PagesUpToStep
        <2> QED BY <1>1, <2>1, PagesUpToNat
    <1>3. J # {} /\ J \subseteq Nat
        <2>1. Len(e) # 0
            <3>1. PagesUpTo(e, 0) = 0
                BY PagesUpToStep
            <3> QED BY <3>1 DEF SizeOf
        <2>2. Len(e) \in 1 .. Len(e) /\ ends(Len(e)) > n
            <3>1. Len(e) \in 1 .. Len(e)
                BY <1>1, <2>1
            <3>2. SizeOf(e) = ends(Len(e)) /\ SizeOf(e) \in Nat
                BY <1>1, <1>2, <3>1 DEF SizeOf
            <3> QED BY <3>1, <3>2
        <2> QED BY <1>1, <2>2
    <1>4. PICK x \in J : \A y \in J : x <= y
        BY <1>3, LeastNatural
    <1> DEFINE i == Min(J)
    <1>5. i \in J /\ \A y \in J : i <= y
        BY <1>4 DEF Min
    <1>6. get_disk_page(n, e) = e[i].page + n - PagesUpTo(e, i - 1)
        BY DEF get_disk_page
    <1> HIDE DEF i
    <1>7. i \in 1 .. Len(e) /\ ends(i) > n
        BY <1>5
    <1>8. PagesUpTo(e, i - 1) <= n
        <2>1. CASE i = 1
            <3>1. PagesUpTo(e, 0) = 0
                BY PagesUpToStep
            <3> QED BY <2>1, <3>1
        <2>2. CASE i # 1
            <3>1. i - 1 \in 1 .. Len(e) /\ ~(i <= i - 1)
                BY <1>1, <1>7, <2>2
            <3>2. i - 1 \notin J
                BY <1>5, <3>1
            <3>3. ~(PagesUpTo(e, i - 1) > n)
                BY <1>2, <3>1, <3>2
            <3> QED BY <1>2, <1>7, <3>3
        <2> QED BY <2>1, <2>2
    <1> DEFINE p == get_disk_page(n, e)
    <1>9. p \in PagesOfExtent(e[i]) /\ n = PagesUpTo(e, i - 1) + (p - e[i].page)
        <2>1. PagesUpTo(e, i - 1) \in Nat /\ e[i].page \in Nat /\ e[i].pages \in Nat
            BY <1>1, <1>2, <1>7
        <2>2. \A a, b, c \in Nat : a <= n /\ a + c > n
                  => b + n - a \in b .. b + c - 1 /\ n = a + ((b + n - a) - b)
            OBVIOUS
        <2> HIDE DEF p
        <2>3. p = e[i].page + n - PagesUpTo(e, i - 1)
            BY <1>6 DEF p
        <2> QED BY <1>7, <1>8, <2>1, <2>2, <2>3 DEF PagesOfExtent
    <1> QED BY <1>7, <1>9 DEF NumbersAt

-----------------------------------------------------------------------------
(* The pages of a flush go into the cache. *)

IsAdded(g, c, id, first, pages, n) ==
    g = [i \in 0 .. n |->
            IF i = 0 THEN {c}
            ELSE UNION {CacheAdd(d, <<id, first + i - 1>>, pages[i]) : d \in g[i - 1]}]

LEMMA AddedExists ==
    ASSUME NEW c, NEW id, NEW first, NEW pages, NEW n \in Nat
    PROVE  \E g : IsAdded(g, c, id, first, pages, n)
    <1> DEFINE T == {m \in Nat : ~\E g : IsAdded(g, c, id, first, pages, m)}
               step(i, s) == UNION {CacheAdd(d, <<id, first + i - 1>>, pages[i]) : d \in s}
    <1> SUFFICES ASSUME T # {} PROVE FALSE
        OBVIOUS
    <1>0. \A g, m : IsAdded(g, c, id, first, pages, m)
                     <=> g = [i \in 0 .. m |-> IF i = 0 THEN {c} ELSE step(i, g[i - 1])]
        BY DEF IsAdded
    <1> HIDE DEF step
    <1>1. PICK m \in T : \A y \in T : m <= y
        BY LeastNatural
    <1>2. m # 0
        <2> DEFINE g == [i \in 0 .. 0 |-> {c}]
        <2>1. g = [i \in 0 .. 0 |-> IF i = 0 THEN {c} ELSE step(i, g[i - 1])]
            OBVIOUS
        <2> HIDE DEF g
        <2>2. IsAdded(g, c, id, first, pages, 0)
            BY <1>0, <2>1
        <2> QED BY <2>2
    <1>3. m - 1 \in Nat /\ m - 1 \notin T
        BY <1>1, <1>2
    <1>4. PICK h : IsAdded(h, c, id, first, pages, m - 1)
        BY <1>3
    <1> DEFINE g == [i \in 0 .. m |-> IF i = m THEN step(m, h[m - 1]) ELSE h[i]]
    <1>5. h = [i \in 0 .. m - 1 |-> IF i = 0 THEN {c} ELSE step(i, h[i - 1])]
        BY <1>0, <1>4
    <1>6. ASSUME NEW i \in 0 .. m
          PROVE  g[i] = IF i = 0 THEN {c} ELSE step(i, g[i - 1])
        <2>1. CASE i = m
            BY <1>1, <1>2, <2>1
        <2>2. CASE i # m
            <3>1. i \in 0 .. m - 1 /\ g[i] = h[i]
                BY <1>1, <2>2
            <3>2. i # 0 => g[i - 1] = h[i - 1]
                BY <1>1, <2>2
            <3> QED BY <1>5, <3>1, <3>2
        <2> QED BY <2>1, <2>2
    <1> DEFINE r == [i \in 0 .. m |-> IF i = 0 THEN {c} ELSE step(i, g[i - 1])]
    <1>7. g = r
        BY <1>6
    <1>8. IsAdded(g, c, id, first, pages, m)
        BY <1>0, <1>7
    <1> QED BY <1>1, <1>8

NoneCached(c, id, first, n) == \A i \in 1 .. n : <<id, first + i - 1>> \notin Cached(c)

\* d has taken in the first n of the pages.
TakenIn(d, c, id, first, pages, n) ==
    /\ CacheOK(Keys, d)
    /\ Owned(d) = Owned(c) \cup {pages[i] : i \in 1 .. n}
    /\ \A k \in Cached(d) : \/ k \in Cached(c) /\ d.item[k] = c.item[k]
                            \/ \E i \in 1 .. n : k = <<id, first + i - 1>> /\ d.item[k] = pages[i]

LEMMA TakesIn ==
    ASSUME NEW c, NEW id \in Nat, NEW first \in Nat, NEW pages \in Seq(Pages), IsInjective(pages),
           ToSet(pages) \cap Owned(c) = {},
           NoneCached(c, id, first, Len(pages)),
           NEW n \in 1 .. Len(pages), NEW b, TakenIn(b, c, id, first, pages, n - 1),
           NEW d \in CacheAdd(b, <<id, first + n - 1>>, pages[n])
    PROVE  TakenIn(d, c, id, first, pages, n)
    <1> DEFINE key == <<id, first + n - 1>>
               page == pages[n]
    <1>0. /\ Len(pages) \in Nat /\ DOMAIN pages = 1 .. Len(pages)
          /\ \A i \in 1 .. Len(pages) : pages[i] \in Pages /\ pages[i] \notin Owned(c)
        BY LenProperties, ElementOfSeq, InToSet
    <1>1. /\ CacheOK(Keys, b) /\ Owned(b) = Owned(c) \cup {pages[i] : i \in 1 .. n - 1}
          /\ \A k \in Cached(b) : \/ k \in Cached(c) /\ b.item[k] = c.item[k]
                                  \/ \E i \in 1 .. n - 1 : k = <<id, first + i - 1>> /\ b.item[k] = pages[i]
        BY DEF TakenIn
    <1>2. key \in Keys
        BY <1>0 DEF Keys
    <1>3. key \notin Cached(b)
        <2> SUFFICES ASSUME key \in Cached(b) PROVE FALSE
            OBVIOUS
        <2>1. key \notin Cached(c)
            BY DEF NoneCached
        <2>2. PICK i \in 1 .. n - 1 : key = <<id, first + i - 1>>
            BY <1>1, <2>1
        <2>3. first + n - 1 = first + i - 1
            BY <2>2
        <2> QED BY <1>0, <2>2, <2>3
    <1>4. page \in Pages \ Owned(b)
        <2>1. \A i \in 1 .. n - 1 : pages[i] # page
            BY <1>0 DEF IsInjective
        <2> QED BY <1>0, <1>1, <2>1
    <1> HIDE DEF key, page
    <1>5. /\ CacheOK(Keys, d) /\ Owned(d) = Owned(b) \cup {page}
          /\ Cached(d) \subseteq Cached(b) \cup {key}
          /\ \A k \in Cached(d) : d.item[k] = IF k = key THEN page ELSE b.item[k]
        <2>1. d \in CacheAdd(b, key, page)
            BY DEF key, page
        <2> QED BY <1>1, <1>2, <1>3, <1>4, <2>1, AddOK
    <1>6. \A i : i \in 1 .. n <=> i \in 1 .. n - 1 \/ i = n
        BY <1>0
    <1>7. Owned(d) = Owned(c) \cup {pages[i] : i \in 1 .. n}
        BY <1>1, <1>5, <1>6 DEF page
    <1>8. ASSUME NEW k \in Cached(d)
          PROVE  \/ k \in Cached(c) /\ d.item[k] = c.item[k]
                 \/ \E i \in 1 .. n : k = <<id, first + i - 1>> /\ d.item[k] = pages[i]
        <2>1. CASE k = key
            BY <1>5, <1>6, <2>1 DEF key, page
        <2>2. CASE k # key
            BY <1>1, <1>5, <1>6, <2>2
        <2> QED BY <2>1, <2>2
    <1> QED BY <1>5, <1>7, <1>8 DEF TakenIn

LEMMA AddedOK ==
    ASSUME NEW c, CacheOK(Keys, c), NEW id \in Nat, NEW first \in Nat,
           NEW pages \in Seq(Pages), IsInjective(pages), ToSet(pages) \cap Owned(c) = {},
           NoneCached(c, id, first, Len(pages)),
           NEW d \in Added(c, id, first, pages)
    PROVE  /\ CacheOK(Keys, d) /\ Owned(d) = Owned(c) \cup ToSet(pages)
           /\ \A k \in Cached(d) :
                 \/ k \in Cached(c) /\ d.item[k] = c.item[k]
                 \/ \E i \in 1 .. Len(pages) : k = <<id, first + i - 1>> /\ d.item[k] = pages[i]
    <1>0. Len(pages) \in Nat
        BY LenProperties
    <1> DEFINE g == CHOOSE g : IsAdded(g, c, id, first, pages, Len(pages))
    <1>1. IsAdded(g, c, id, first, pages, Len(pages))
        BY <1>0, AddedExists
    <1>2. Added(c, id, first, pages) = g[Len(pages)]
        BY DEF Added, IsAdded
    <1> HIDE DEF g
    <1>3. \A i \in 0 .. Len(pages) :
             g[i] = IF i = 0 THEN {c}
                    ELSE UNION {CacheAdd(b, <<id, first + i - 1>>, pages[i]) : b \in g[i - 1]}
        BY <1>1 DEF IsAdded
    <1> DEFINE T == {n \in 0 .. Len(pages) : \E b \in g[n] : ~TakenIn(b, c, id, first, pages, n)}
    <1>4. T = {}
        <2> SUFFICES ASSUME T # {} PROVE FALSE
            OBVIOUS
        <2>1. T \subseteq Nat
            BY <1>0
        <2>2. PICK n \in T : \A y \in T : n <= y
            BY <2>1, LeastNatural
        <2>3. PICK b \in g[n] : ~TakenIn(b, c, id, first, pages, n)
            BY <2>2
        <2>4. n # 0
            <3> SUFFICES ASSUME n = 0 PROVE FALSE
                OBVIOUS
            <3>1. b = c
                BY <1>0, <1>3, <2>3
            <3>2. {pages[i] : i \in 1 .. 0} = {}
                OBVIOUS
            <3>3. TakenIn(c, c, id, first, pages, 0)
                BY <3>2 DEF TakenIn
            <3> QED BY <2>3, <3>1, <3>3
        <2>5. n \in 1 .. Len(pages) /\ n \in 0 .. Len(pages) /\ n - 1 \in 0 .. Len(pages) /\ n - 1 \notin T
            BY <1>0, <2>2, <2>4
        <2>6. PICK a \in g[n - 1] : b \in CacheAdd(a, <<id, first + n - 1>>, pages[n])
            <3>1. g[n] = UNION {CacheAdd(a, <<id, first + n - 1>>, pages[n]) : a \in g[n - 1]}
                BY <1>3, <2>4, <2>5
            <3> QED BY <2>3, <3>1
        <2>7. TakenIn(a, c, id, first, pages, n - 1)
            BY <2>5, <2>6
        <2>8. TakenIn(b, c, id, first, pages, n)
            BY <2>5, <2>6, <2>7, TakesIn
        <2> QED BY <2>3, <2>8
    <1>5. TakenIn(d, c, id, first, pages, Len(pages))
        BY <1>0, <1>2, <1>4
    <1>6. ToSet(pages) = {pages[i] : i \in 1 .. Len(pages)}
        BY InToSet
    <1> QED BY <1>5, <1>6 DEF TakenIn

-----------------------------------------------------------------------------
(* What becomes of the pages of a file when its state changes. *)

LEMMA ConcatTwice ==
    ASSUME NEW a \in Seq(Pages), NEW b \in Seq(Pages), NEW c \in Seq(Pages)
    PROVE  (a \o b) \o c = a \o (b \o c)
    <1> DEFINE s == a \o b
               t == b \o c
    <1>1. /\ s \in Seq(Pages) /\ Len(s) = Len(a) + Len(b)
          /\ \A i \in 1 .. Len(a) + Len(b) : s[i] = IF i <= Len(a) THEN a[i] ELSE b[i - Len(a)]
        BY ConcatProperties
    <1>2. /\ t \in Seq(Pages) /\ Len(t) = Len(b) + Len(c)
          /\ \A i \in 1 .. Len(b) + Len(c) : t[i] = IF i <= Len(b) THEN b[i] ELSE c[i - Len(b)]
        BY ConcatProperties
    <1>0. s \in Seq(Pages) /\ t \in Seq(Pages)
        BY <1>1, <1>2
    <1> HIDE DEF s, t
    <1> DEFINE u == s \o c
               v == a \o t
    <1>3. /\ u \in Seq(Pages) /\ Len(u) = Len(s) + Len(c)
          /\ \A i \in 1 .. Len(s) + Len(c) : u[i] = IF i <= Len(s) THEN s[i] ELSE c[i - Len(s)]
        BY <1>0, ConcatProperties
    <1>4. /\ v \in Seq(Pages) /\ Len(v) = Len(a) + Len(t)
          /\ \A i \in 1 .. Len(a) + Len(t) : v[i] = IF i <= Len(a) THEN a[i] ELSE t[i - Len(a)]
        BY <1>0, ConcatProperties
    <1> HIDE DEF u, v
    <1>5. Len(a) \in Nat /\ Len(b) \in Nat /\ Len(c) \in Nat
        BY LenProperties
    <1>6. Len(u) = Len(v) /\ Len(u) = Len(a) + Len(b) + Len(c)
        BY <1>1, <1>2, <1>3, <1>4, <1>5
    <1>7. ASSUME NEW i \in 1 .. Len(u) PROVE u[i] = v[i]
        <2>1. CASE i <= Len(a)
            <3>1. u[i] = a[i]
                BY <1>1, <1>3, <1>5, <1>6, <2>1
            <3>2. v[i] = a[i]
                BY <1>4, <1>5, <1>6, <2>1
            <3> QED BY <3>1, <3>2
        <2>2. CASE i > Len(a) /\ i <= Len(a) + Len(b)
            <3>1. u[i] = b[i - Len(a)]
                BY <1>1, <1>3, <1>5, <1>6, <2>2
            <3>2. v[i] = t[i - Len(a)] /\ i - Len(a) \in 1 .. Len(b) + Len(c) /\ i - Len(a) <= Len(b)
                BY <1>2, <1>4, <1>5, <1>6, <2>2
            <3> QED BY <1>2, <3>1, <3>2
        <2>3. CASE i > Len(a) + Len(b)
            <3>1. u[i] = c[i - (Len(a) + Len(b))]
                BY <1>1, <1>3, <1>5, <1>6, <2>3
            <3>2. v[i] = t[i - Len(a)] /\ i - Len(a) \in 1 .. Len(b) + Len(c) /\ ~(i - Len(a) <= Len(b))
                BY <1>2, <1>4, <1>5, <1>6, <2>3
            <3>3. (i - Len(a)) - Len(b) = i - (Len(a) + Len(b))
                BY <1>5
            <3> QED BY <1>2, <3>1, <3>2, <3>3
        <2> QED BY <1>5, <1>6, <2>1, <2>2, <2>3
    <1>8. u = v
        BY <1>3, <1>4, <1>6, <1>7, SeqEqual
    <1> QED BY <1>8 DEF s, t, u, v

LEMMA PendingSeq ==
    ASSUME NEW s \in StateType, NEW f \in FlushingType
    PROVE  /\ f.pages \in Seq(Pages) /\ s.cached_pages \in Seq(Pages) /\ MemPage(s) \in Seq(Pages)
           /\ PendingOf(s, f) \in Seq(Pages)
           /\ PendingOf(s, f) = f.pages \o (s.cached_pages \o MemPage(s))
           /\ FlushedOf(s, f) \in Nat \/ (f.allocated /\ s.extents = <<>>)
           /\ s.extents \in Seq(Extent)
    <1>1. f.pages \in Seq(Pages) /\ s.cached_pages \in Seq(Pages) /\ s.extents \in Seq(Extent)
        BY DEF StateType, FlushingType
    <1>2. MemPage(s) \in Seq(Pages)
        <2>1. s.mem_page # NoPage => s.mem_page \in Pages
            BY DEF StateType
        <2> QED BY <2>1 DEF MemPage
    <1>3. PendingOf(s, f) = f.pages \o (s.cached_pages \o MemPage(s))
        <2>1. (f.pages \o s.cached_pages) \o MemPage(s) = f.pages \o (s.cached_pages \o MemPage(s))
            BY <1>1, <1>2, ConcatTwice
        <2> QED BY <2>1 DEF PendingOf
    <1>4. PendingOf(s, f) \in Seq(Pages)
        BY <1>1, <1>2, ConcatProperties DEF PendingOf
    <1>5. FlushedOf(s, f) \in Nat \/ (f.allocated /\ s.extents = <<>>)
        <2>1. CASE f.allocated /\ s.extents # <<>>
            BY <1>1, <2>1, LastNumbers DEF FlushedOf
        <2>2. CASE ~f.allocated
            <3>1. Len(s.extents) \in 0 .. Len(s.extents)
                BY <1>1, LenProperties
            <3>2. PagesUpTo(s.extents, Len(s.extents)) \in Nat
                BY <1>1, <3>1, PagesUpToNat
            <3> QED BY <2>2, <3>2 DEF FlushedOf, SizeOf
        <2> QED BY <2>1, <2>2
    <1> QED BY <1>1, <1>2, <1>3, <1>4, <1>5

\* disk_writer::write_page.
LEMMA PushedPending ==
    ASSUME NEW s \in StateType, NEW f \in FlushingType, s.mem_page # NoPage,
           NEW r, r.cached_pages = Append(s.cached_pages, s.mem_page), r.mem_page = NoPage,
           r.cache_id = s.cache_id, r.extents = s.extents
    PROVE  PendingOf(r, f) = PendingOf(s, f) /\ FileOf(r, f) = FileOf(s, f)
    <1>1. s.mem_page \in Pages /\ s.cached_pages \in Seq(Pages) /\ f.pages \in Seq(Pages)
        BY DEF StateType, FlushingType
    <1>2. Append(s.cached_pages, s.mem_page) = s.cached_pages \o <<s.mem_page>>
        BY <1>1, AppendIsConcat
    <1>3. s.cached_pages \o <<s.mem_page>> \in Seq(Pages)
        BY <1>1, ConcatProperties
    <1>4. MemPage(s) = <<s.mem_page>> /\ MemPage(r) = <<>>
        BY DEF MemPage
    <1>5. PendingOf(r, f) = f.pages \o (s.cached_pages \o <<s.mem_page>>)
        <2>1. PendingOf(r, f) = (f.pages \o (s.cached_pages \o <<s.mem_page>>)) \o <<>>
            BY <1>2, <1>4 DEF PendingOf
        <2>2. f.pages \o (s.cached_pages \o <<s.mem_page>>) \in Seq(Pages)
            BY <1>1, <1>3, ConcatProperties
        <2> QED BY <2>1, <2>2, ConcatEmptySeq
    <1>6. PendingOf(s, f) = f.pages \o (s.cached_pages \o <<s.mem_page>>)
        BY <1>4, PendingSeq
    <1>7. FileOf(r, f) = FileOf(s, f)
        BY DEF FileOf, FlushedOf
    <1> QED BY <1>5, <1>6, <1>7

\* The beginning of flush_pages.
LEMMA TakenPending ==
    ASSUME NEW s \in StateType, NEW f \in FlushingType, f.pages = <<>>, ~f.allocated,
           NEW r, r.cached_pages = <<>>, r.mem_page = s.mem_page,
           r.cache_id = s.cache_id, r.extents = s.extents,
           NEW h, h.pages = s.cached_pages, ~h.allocated
    PROVE  PendingOf(r, h) = PendingOf(s, f) /\ FileOf(r, h) = FileOf(s, f)
    <1>1. s.cached_pages \in Seq(Pages)
        BY DEF StateType
    <1>2. s.cached_pages \o <<>> = s.cached_pages /\ <<>> \o s.cached_pages = s.cached_pages
        BY <1>1, ConcatEmptySeq
    <1>3. PendingOf(r, h) = PendingOf(s, f)
        BY <1>2 DEF PendingOf, MemPage
    <1> QED BY <1>3 DEF FileOf, FlushedOf

\* disk_writer::allocate_page.
LEMMA GrownPending ==
    ASSUME NEW s \in StateType, NEW f \in FlushingType, s.mem_page = NoPage, NEW page \in Pages,
           NEW r, r.cached_pages = s.cached_pages, r.mem_page = page,
           r.cache_id = s.cache_id, r.extents = s.extents
    PROVE  PendingOf(r, f) = Append(PendingOf(s, f), page) /\ FileOf(r, f) = FileOf(s, f)
    <1> DEFINE q == f.pages \o s.cached_pages
    <1>1. page # NoPage
        BY PagesAssumption DEF NoPage
    <1>2. q \in Seq(Pages)
        BY ConcatProperties DEF StateType, FlushingType
    <1>3. PendingOf(s, f) = q \o <<>> /\ PendingOf(r, f) = q \o <<page>>
        BY <1>1 DEF PendingOf, MemPage
    <1> HIDE DEF q
    <1>4. q \o <<>> = q /\ Append(q, page) = q \o <<page>>
        BY <1>2, ConcatEmptySeq, AppendIsConcat
    <1> QED BY <1>3, <1>4 DEF FileOf, FlushedOf

\* disk::allocate.
LEMMA PlacedPending ==
    ASSUME NEW s \in StateType, NEW f \in FlushingType, ~f.allocated, NEW x \in Extent,
           NEW r, r.cached_pages = s.cached_pages, r.mem_page = s.mem_page,
           r.cache_id = s.cache_id, r.extents = Append(s.extents, x),
           NEW h, h.pages = f.pages, h.allocated
    PROVE  /\ PendingOf(r, h) = PendingOf(s, f)
           /\ FileOf(r, h) = [cache_id |-> s.cache_id, size |-> FlushedOf(s, f),
                              extents |-> Append(s.extents, x)]
           /\ FlushedOf(r, h) = FlushedOf(s, f)
    <1>1. PendingOf(r, h) = PendingOf(s, f)
        BY DEF PendingOf, MemPage
    <1>2. s.extents \in Seq(Extent)
        BY DEF StateType
    <1>3. PagesUpTo(r.extents, Len(r.extents) - 1) = SizeOf(s.extents)
        BY <1>2, AppendExtent
    <1>4. FlushedOf(r, h) = FlushedOf(s, f)
        BY <1>3 DEF FlushedOf
    <1> QED BY <1>1, <1>4 DEF FileOf

\* The end of flush_pages.
LEMMA FlushedPending ==
    ASSUME NEW s \in StateType, NEW f \in FlushingType, f.allocated, s.extents # <<>>,
           Last(s.extents).pages = Len(f.pages)
    PROVE  /\ PendingOf(s, f) = f.pages \o PendingOf(s, NotFlushing)
           /\ PendingOf(s, NotFlushing) \in Seq(Pages)
           /\ FlushedOf(s, NotFlushing) = FlushedOf(s, f) + Len(f.pages)
           /\ FileOf(s, NotFlushing) = [cache_id |-> s.cache_id, size |-> FlushedOf(s, f) + Len(f.pages),
                                       extents |-> s.extents]
    <1>1. s.cached_pages \in Seq(Pages) /\ MemPage(s) \in Seq(Pages) /\ s.extents \in Seq(Extent)
        BY PendingSeq
    <1>2. NotFlushing.pages = <<>> /\ ~NotFlushing.allocated
        BY DEF NotFlushing
    <1>3. <<>> \o s.cached_pages = s.cached_pages
        BY <1>1, ConcatEmptySeq
    <1>4. PendingOf(s, NotFlushing) = s.cached_pages \o MemPage(s)
        BY <1>2, <1>3 DEF PendingOf
    <1>5. FlushedOf(s, NotFlushing) = FlushedOf(s, f) + Len(f.pages)
        BY <1>1, <1>2, LastNumbers DEF FlushedOf
    <1>6. FileOf(s, NotFlushing) = [cache_id |-> s.cache_id, size |-> FlushedOf(s, f) + Len(f.pages),
                                    extents |-> s.extents]
        BY <1>5 DEF FileOf
    <1>7. PendingOf(s, NotFlushing) \in Seq(Pages)
        BY <1>1, <1>4, ConcatProperties
    <1> QED BY <1>4, <1>5, <1>6, <1>7, PendingSeq

-----------------------------------------------------------------------------
(* The disk. *)

LEMMA NothingAt == \A p : NumbersAt(<<>>, p) = {} /\ DiskPagesOf(<<>>) = {}
    <1>1. <<>> \in Seq(Extent) /\ Len(<<>>) = 0 /\ 1 .. 0 = {}
        OBVIOUS
    <1>2. \A p : p \notin DiskPagesOf(<<>>)
        BY <1>1, DiskPagesOfExtents
    <1>3. \A p : NumbersAt(<<>>, p) = {}
        BY <1>1, <1>2, DiskPagesOfExtents
    <1> QED BY <1>2, <1>3

\* Files that have no pages do not count.
LEMMA DiskKeeps ==
    ASSUME NEW fs, NEW free, NEW dk, NEW st, DiskHas(fs, free, dk, st), NEW gs,
           \A g \in gs : g.extents = <<>> \/ g \in fs
    PROVE  DiskHas(gs, free, dk, st)
    <1>1. \A g \in gs : \A p : g \in fs \/ (NumbersAt(g.extents, p) = {} /\ DiskPagesOf(g.extents) = {})
        BY NothingAt
    <1>2. \A g \in gs : DiskPagesOf(g.extents) \subseteq DiskPages \ free
        BY <1>1 DEF DiskHas
    <1>3. \A g \in gs : \A p \in DiskPages : \A n \in NumbersAt(g.extents, p) :
             g \in fs /\ (n < g.size => Holds(dk, st, p, <<g.cache_id, n>>))
        BY <1>1 DEF DiskHas
    <1>4. \A g, h \in gs : \A p \in DiskPages :
             \A n \in NumbersAt(g.extents, p), m \in NumbersAt(h.extents, p) :
                 g.cache_id = h.cache_id /\ n = m
        <2> SUFFICES ASSUME NEW g \in gs, NEW h \in gs, NEW p \in DiskPages,
                            NEW n \in NumbersAt(g.extents, p), NEW m \in NumbersAt(h.extents, p)
                     PROVE  g.cache_id = h.cache_id /\ n = m
            OBVIOUS
        <2>1. g \in fs /\ h \in fs
            BY <1>3
        <2>2. SameNumber(g, h, p)
            BY <2>1 DEF DiskHas
        <2> QED BY <2>2 DEF SameNumber
    <1> QED BY <1>2, <1>3, <1>4 DEF DiskHas, SameNumber

\* A file is dropped.
LEMMA DiskDrops ==
    ASSUME NEW fs \in SUBSET FileType, NEW free, NEW dk, NEW st, DiskHas(fs, free, dk, st), NEW f \in fs, NEW gs,
           \A g \in gs : g.extents = <<>> \/ (g \in fs /\ g.cache_id # f.cache_id),
           NEW new, \A p \in DiskPages \ DiskPagesOf(f.extents) : new[p] = dk[p],
           NEW more, st \subseteq more
    PROVE  DiskHas(gs, free \cup DiskPagesOf(f.extents), new, more)
    <1> DEFINE D == DiskPagesOf(f.extents)
               hs == {g \in gs : g \in fs /\ g.cache_id # f.cache_id}
    <1>1. \A g \in fs : g.extents \in Seq(Extent)
        BY DEF FileType
    <1>2. \A g \in fs : \A p : p \in DiskPagesOf(g.extents) <=> NumbersAt(g.extents, p) # {}
        BY <1>1, DiskPagesOfExtents
    <1>3. D \subseteq DiskPages /\ free \subseteq DiskPages
        BY DEF DiskHas
    <1> HIDE DEF D
    <1>4. \A g \in hs : DiskPagesOf(g.extents) \subseteq DiskPages \ (free \cup D)
        <2> SUFFICES ASSUME NEW g \in hs, NEW p \in DiskPagesOf(g.extents)
                     PROVE  p \in DiskPages \ (free \cup D)
            OBVIOUS
        <2>1. p \in DiskPages \ free
            BY DEF DiskHas
        <2>2. ASSUME p \in D PROVE FALSE
            <3>1. NumbersAt(g.extents, p) # {} /\ NumbersAt(f.extents, p) # {}
                BY <1>2, <2>2 DEF D
            <3>2. PICK n \in NumbersAt(g.extents, p), m \in NumbersAt(f.extents, p) : TRUE
                BY <3>1
            <3>3. g.cache_id = f.cache_id
                <4>1. SameNumber(g, f, p)
                    BY <2>1 DEF DiskHas
                <4> QED BY <3>2, <4>1 DEF SameNumber
            <3> QED BY <3>3
        <2> QED BY <2>1, <2>2
    <1>5. DiskHas(hs, free \cup D, new, more)
        <2>1. ASSUME NEW g \in hs, NEW p \in DiskPages, NEW n \in NumbersAt(g.extents, p), n < g.size
              PROVE  Holds(new, more, p, <<g.cache_id, n>>)
            <3>1. p \notin D
                BY <1>2, <1>4
            <3>2. new[p] = dk[p]
                BY <3>1 DEF D
            <3>3. Holds(dk, st, p, <<g.cache_id, n>>)
                BY <2>1 DEF DiskHas
            <3> QED BY <3>2, <3>3 DEF Holds
        <2>2. \A g, h \in hs : \A p \in DiskPages :
                  \A n \in NumbersAt(g.extents, p), m \in NumbersAt(h.extents, p) :
                      g.cache_id = h.cache_id /\ n = m
            BY DEF DiskHas, SameNumber
        <2> QED BY <1>3, <1>4, <2>1, <2>2 DEF DiskHas, SameNumber
    <1>6. \A g \in gs : g.extents = <<>> \/ g \in hs
        OBVIOUS
    <1> HIDE DEF hs
    <1>7. DiskHas(gs, free \cup D, new, more)
        BY <1>5, <1>6, DiskKeeps
    <1> QED BY <1>7 DEF D

\* A file is given space.
LEMMA DiskPlaces ==
    ASSUME NEW fs \in SUBSET FileType, NEW free, NEW dk, NEW st, DiskHas(fs, free, dk, st), NEW f \in fs, NEW gs,
           NEW x \in Extent, PagesOfExtent(x) \subseteq free, f.size = SizeOf(f.extents),
           NEW g \in FileType, g.cache_id = f.cache_id, g.size = f.size,
           g.extents = Append(f.extents, x), \A h \in gs : h = g \/ h \in fs
    PROVE  DiskHas(gs, free \ PagesOfExtent(x), dk, st)
    <1> DEFINE X == PagesOfExtent(x)
    <1>1. \A h \in fs : h.extents \in Seq(Extent) /\ h.size \in Nat
        BY DEF FileType
    <1>2. /\ \A p : p \in DiskPagesOf(g.extents) <=> p \in DiskPagesOf(f.extents) \/ p \in X
          /\ \A p : \A n \in NumbersAt(g.extents, p) :
                n \in NumbersAt(f.extents, p) \/ (p \in X /\ n = SizeOf(f.extents) + (p - x.page))
        BY <1>1, AppendExtent
    <1>3. X \subseteq free /\ \A p \in X : p - x.page \in Nat
        BY DEF PagesOfExtent, Extent
    <1>4. \A h \in fs : \A p : p \in DiskPagesOf(h.extents) <=> NumbersAt(h.extents, p) # {}
        BY <1>1, DiskPagesOfExtents
    <1>5. free \subseteq DiskPages /\ \A h \in fs : DiskPagesOf(h.extents) \subseteq DiskPages \ free
        BY DEF DiskHas
    <1>6. \A h \in fs : \A p \in X : NumbersAt(h.extents, p) = {}
        BY <1>3, <1>4, <1>5
    <1> HIDE DEF X
    <1>7. \A h \in gs : DiskPagesOf(h.extents) \subseteq DiskPages \ (free \ X)
        BY <1>2, <1>3, <1>5
    <1>8. ASSUME NEW h \in gs, NEW p \in DiskPages, NEW n \in NumbersAt(h.extents, p), n < h.size
          PROVE  Holds(dk, st, p, <<h.cache_id, n>>)
        <2>1. CASE h \in fs
            BY <1>8, <2>1 DEF DiskHas
        <2>2. CASE h = g
            <3>1. n \notin NumbersAt(f.extents, p) => p \in X /\ n = f.size + (p - x.page)
                BY <1>2, <2>2
            <3>2. n \in NumbersAt(f.extents, p)
                BY <1>1, <1>3, <1>8, <2>2, <3>1
            <3> QED BY <1>8, <2>2, <3>2 DEF DiskHas
        <2> QED BY <2>1, <2>2
    \* Whose number it was, or the new one.
    <1>9. ASSUME NEW h \in gs, NEW p \in DiskPages, NEW n \in NumbersAt(h.extents, p)
          PROVE  \/ \E k \in fs : k.cache_id = h.cache_id /\ n \in NumbersAt(k.extents, p) /\ p \notin X
                 \/ h.cache_id = f.cache_id /\ p \in X /\ n = SizeOf(f.extents) + (p - x.page)
        <2>1. CASE h \in fs
            BY <1>6, <2>1
        <2>2. CASE h = g
            BY <1>2, <1>6, <2>2
        <2> QED BY <2>1, <2>2
    <1>10. ASSUME NEW h \in gs, NEW k \in gs, NEW p \in DiskPages,
                  NEW n \in NumbersAt(h.extents, p), NEW m \in NumbersAt(k.extents, p)
           PROVE  h.cache_id = k.cache_id /\ n = m
        <2>1. CASE p \in X
            BY <1>9, <2>1
        <2>2. CASE p \notin X
            <3>1. PICK a \in fs : a.cache_id = h.cache_id /\ n \in NumbersAt(a.extents, p)
                BY <1>9, <2>2
            <3>2. PICK b \in fs : b.cache_id = k.cache_id /\ m \in NumbersAt(b.extents, p)
                BY <1>9, <2>2
            <3>3. a.cache_id = b.cache_id /\ n = m
                <4>1. SameNumber(a, b, p)
                    BY DEF DiskHas
                <4> QED BY <3>1, <3>2, <4>1 DEF SameNumber
            <3> QED BY <3>1, <3>2, <3>3
        <2> QED BY <2>1, <2>2
    <1>11. free \ X \subseteq DiskPages
        BY <1>5
    <1>12. DiskHas(gs, free \ X, dk, st)
        BY <1>7, <1>8, <1>10, <1>11 DEF DiskHas, SameNumber
    <1> QED BY <1>12 DEF X

\* The last extent x of the file id is written, from the page first on.
Rewritten(new, dk, x, id, first) ==
    \A p \in DiskPages : new[p] = IF p \in PagesOfExtent(x) THEN <<id, first + (p - x.page)>> ELSE dk[p]

LEMMA DiskWrites ==
    ASSUME NEW fs \in SUBSET FileType, NEW free, NEW dk, NEW st, DiskHas(fs, free, dk, st), NEW f \in fs, NEW gs,
           f.extents # <<>>, f.size = PagesUpTo(f.extents, Len(f.extents) - 1),
           NEW g, g.cache_id = f.cache_id, g.extents = f.extents,
           \A h \in gs : h = g \/ h \in fs,
           NEW new, Rewritten(new, dk, Last(f.extents), f.cache_id, f.size)
    PROVE  DiskHas(gs, free, new, st)
    <1> DEFINE x == Last(f.extents)
               X == PagesOfExtent(x)
    <1>1. f.extents \in Seq(Extent) /\ f.size \in Nat
        BY DEF FileType
    <1>2. x = f.extents[Len(f.extents)] /\ \A p \in X : f.size + (p - x.page) \in NumbersAt(f.extents, p)
        BY <1>1, LastNumbers
    <1>3. \A p : \A n \in NumbersAt(f.extents, p) : p \notin X => n < f.size
        BY <1>1, <1>2, NumberBound
    <1> HIDE DEF x, X
    <1>4. \A p \in DiskPages : new[p] = IF p \in X THEN <<f.cache_id, f.size + (p - x.page)>> ELSE dk[p]
        BY DEF x, X, Rewritten
    <1>5. \A h \in gs : \E k \in fs : /\ k.cache_id = h.cache_id /\ k.extents = h.extents
                                      /\ k.size = h.size \/ k = f
        OBVIOUS
    <1>6. ASSUME NEW h \in gs, NEW p \in DiskPages, NEW n \in NumbersAt(h.extents, p), n < h.size
          PROVE  Holds(new, st, p, <<h.cache_id, n>>)
        <2>1. PICK k \in fs : k.cache_id = h.cache_id /\ k.extents = h.extents /\ (k.size = h.size \/ k = f)
            BY <1>5
        <2>2. CASE p \in X
            <3>1. f.cache_id = k.cache_id /\ f.size + (p - x.page) = n
                <4>1. f.size + (p - x.page) \in NumbersAt(f.extents, p) /\ n \in NumbersAt(k.extents, p)
                    BY <1>2, <2>1, <2>2
                <4> DEFINE m == f.size + (p - x.page)
                <4> HIDE DEF m
                <4>2. m \in NumbersAt(f.extents, p) /\ n \in NumbersAt(k.extents, p)
                    BY <4>1 DEF m
                <4>3. f.cache_id = k.cache_id /\ m = n
                    <5>1. SameNumber(f, k, p)
                        BY DEF DiskHas
                    <5> QED BY <4>2, <5>1 DEF SameNumber
                <4> QED BY <4>3 DEF m
            <3> QED BY <1>4, <2>1, <2>2, <3>1 DEF Holds
        <2>3. CASE p \notin X
            <3>1. n < k.size
                BY <1>3, <1>6, <2>1, <2>3
            <3>2. Holds(dk, st, p, <<k.cache_id, n>>)
                BY <2>1, <3>1 DEF DiskHas
            <3>3. new[p] = dk[p]
                BY <1>4, <2>3
            <3> QED BY <2>1, <3>2, <3>3 DEF Holds
        <2> QED BY <2>2, <2>3
    <1>7. ASSUME NEW h \in gs, NEW k \in gs, NEW p \in DiskPages,
                 NEW n \in NumbersAt(h.extents, p), NEW m \in NumbersAt(k.extents, p)
          PROVE  h.cache_id = k.cache_id /\ n = m
        <2>1. PICK a \in fs : a.cache_id = h.cache_id /\ a.extents = h.extents
            BY <1>5
        <2>2. PICK b \in fs : b.cache_id = k.cache_id /\ b.extents = k.extents
            BY <1>5
        <2>3. a.cache_id = b.cache_id /\ n = m
            <3>1. SameNumber(a, b, p)
                BY DEF DiskHas
            <3> QED BY <2>1, <2>2, <3>1 DEF SameNumber
        <2> QED BY <2>1, <2>2, <2>3
    <1>8. \A h \in gs : DiskPagesOf(h.extents) \subseteq DiskPages \ free
        BY <1>5 DEF DiskHas
    <1>9. free \subseteq DiskPages
        BY DEF DiskHas
    <1> QED BY <1>6, <1>7, <1>8, <1>9 DEF DiskHas, SameNumber

\* A write for a dropped file comes to the disk.
LEMMA DiskStrays ==
    ASSUME NEW fs, NEW free, NEW dk, NEW st, DiskHas(fs, free, dk, st), DOMAIN dk = DiskPages,
           NEW w \in st, NEW q, NEW v, w = <<q, v>>
    PROVE  DiskHas(fs, free, [dk EXCEPT ![q] = v], st)
    <1> DEFINE new == [dk EXCEPT ![q] = v]
    <1>1. \A p \in DiskPages : new[p] = dk[p] \/ (p = q /\ new[p] = v)
        OBVIOUS
    <1> HIDE DEF new
    <1>2. ASSUME NEW f \in fs, NEW p \in DiskPages, NEW n \in NumbersAt(f.extents, p), n < f.size
          PROVE  Holds(new, st, p, <<f.cache_id, n>>)
        <2>1. Holds(dk, st, p, <<f.cache_id, n>>)
            BY <1>2 DEF DiskHas
        <2> QED BY <1>1, <2>1 DEF Holds
    <1>3. DiskHas(fs, free, new, st)
        BY <1>2 DEF DiskHas
    <1> QED BY <1>3 DEF new

-----------------------------------------------------------------------------
(* What the operations do to the files. *)

\* No page is pending twice.
LEMMA PendingApart ==
    ASSUME IdsOK, PendingOK, NEW wr \in Writers
    PROVE  /\ IsInjective(Pending[wr]) /\ Pending[wr] \in Seq(Pages)
           /\ \A x \in Writers : x # wr => ToSet(Pending[x]) \cap ToSet(Pending[wr]) = {}
    <1>1. \A x \in Writers : /\ Pending[x] \in Seq(Pages) /\ Len(Pending[x]) \in Nat
                             /\ DOMAIN Pending[x] = 1 .. Len(Pending[x])
                             /\ File[x].size \in Nat
        BY LenProperties DEF PendingOK, IdsOK, FileType
    <1>2. \A x \in Writers : \A i \in 1 .. Len(Pending[x]) :
             memory[Pending[x][i]] = <<File[x].cache_id, File[x].size + i - 1>>
        BY DEF PendingOK
    <1>3. IsInjective(Pending[wr])
        <2> SUFFICES ASSUME NEW i \in 1 .. Len(Pending[wr]), NEW j \in 1 .. Len(Pending[wr]),
                            Pending[wr][i] = Pending[wr][j]
                     PROVE  i = j
            BY <1>1 DEF IsInjective
        <2>1. <<File[wr].cache_id, File[wr].size + i - 1>> = <<File[wr].cache_id, File[wr].size + j - 1>>
            BY <1>2
        <2>2. File[wr].size + i - 1 = File[wr].size + j - 1
            BY <2>1
        <2> QED BY <1>1, <2>2
    <1>4. ASSUME NEW x \in Writers, x # wr, NEW p \in ToSet(Pending[x]), p \in ToSet(Pending[wr])
          PROVE  FALSE
        <2>1. PICK i \in 1 .. Len(Pending[x]) : Pending[x][i] = p
            BY <1>1, InToSet
        <2>2. PICK j \in 1 .. Len(Pending[wr]) : Pending[wr][j] = p
            BY <1>1, <1>4, InToSet
        <2>3. <<File[x].cache_id, File[x].size + i - 1>> = <<File[wr].cache_id, File[wr].size + j - 1>>
            BY <1>2, <2>1, <2>2
        <2>4. File[x].cache_id = File[wr].cache_id
            BY <2>3
        <2>5. File[x].cache_id = 0
            BY <1>4, <2>4 DEF IdsOK
        <2>6. Len(Pending[x]) = 0
            BY <2>5 DEF PendingOK
        <2> QED BY <2>1, <2>6
    <1> QED BY <1>1, <1>3, <1>4

LEMMA DirtyPagesAre ==
    ASSUME PendingOK, PagesOK
    PROVE  /\ \A p : p \in Dirty <=> p \in lost \/ \E wr \in Writers : p \in ToSet(Pending[wr])
           /\ Dirty \subseteq Pages /\ IsFiniteSet(Dirty) /\ Cardinality(Dirty) \in Nat
    <1>1. \A p : p \in Dirty <=> p \in lost \/ \E wr \in Writers : p \in ToSet(Pending[wr])
        BY DEF Dirty
    <1>2. Dirty \subseteq Pages
        BY DEF PagesOK
    <1>3. IsFiniteSet(Dirty)
        BY <1>2, PagesAssumption, FS_Subset
    <1> QED BY <1>1, <1>2, <1>3, FS_CardinalityType

\* Two files with the same id are the same file.
LEMMA OneFile ==
    ASSUME IdsOK, NEW f \in Files, NEW g \in Files, f.cache_id = g.cache_id, f.cache_id # 0
    PROVE  f = g
    BY DEF IdsOK, Files

LEMMA FilesTyped ==
    ASSUME IdsOK
    PROVE  Files \in SUBSET FileType /\ \A wr \in Writers : File[wr] \in Files
    BY DEF IdsOK, Files

\* Nothing happens to the files.
LEMMA FilesStay ==
    ASSUME FilesOK, Pending' = Pending, File' = File,
           UNCHANGED <<cache, memory, m_dirty_pages, disk, disk_free, committed, next_cache_id, lost, stray>>
    PROVE  FilesOK'
    <1>1. IdsOK'
        BY DEF FilesOK, IdsOK
    <1>2. PendingOK'
        BY DEF FilesOK, PendingOK
    <1>3. PagesOK'
        BY DEF FilesOK, PagesOK, Dirty
    <1>4. CachedOK'
        BY DEF FilesOK, CachedOK
    <1>5. DiskOK'
        BY DEF FilesOK, DiskOK, Files
    <1> QED BY <1>1, <1>2, <1>3, <1>4, <1>5 DEF FilesOK

LEMMA OpenFile ==
    ASSUME FilesOK, NEW wr \in Writers, File[wr].cache_id = 0,
           File' = [File EXCEPT ![wr] = [cache_id |-> next_cache_id, size |-> 0, extents |-> <<>>]],
           Pending' = Pending, next_cache_id' = next_cache_id + 1,
           UNCHANGED <<cache, memory, m_dirty_pages, disk, disk_free, committed, lost, stray>>
    PROVE  FilesOK'
    <1>0. /\ next_cache_id \in Nat \ {0} /\ File \in [Writers -> FileType]
          /\ \A x \in Writers : File[x].cache_id \in Nat /\ File[x].cache_id < next_cache_id
          /\ \A f \in committed : f.cache_id \in Nat
        BY DEF FilesOK, IdsOK, FileType
    <1> DEFINE g == [cache_id |-> next_cache_id, size |-> 0, extents |-> <<>>]
    <1>1. /\ g \in FileType /\ g.cache_id = next_cache_id /\ g.size = 0 /\ g.extents = <<>>
        BY <1>0 DEF FileType
    <1> HIDE DEF g
    <1>2. /\ File' \in [Writers -> FileType] /\ File'[wr] = g
          /\ \A x \in Writers \ {wr} : File'[x] = File[x]
        BY <1>0, <1>1 DEF g
    <1>3. IdsOK'
        <2>1. \A x \in Writers : File'[x].cache_id < next_cache_id'
            BY <1>0, <1>1, <1>2
        <2>2. \A x, y \in Writers : x # y /\ File'[x].cache_id = File'[y].cache_id => File'[x].cache_id = 0
            BY <1>0, <1>1, <1>2 DEF FilesOK, IdsOK
        <2>3. \A f \in committed : /\ f.cache_id # 0 /\ f.cache_id < next_cache_id'
                                   /\ \A x \in Writers : f.cache_id # File'[x].cache_id
            BY <1>0, <1>1, <1>2 DEF FilesOK, IdsOK
        <2> QED BY <1>0, <1>2, <2>1, <2>2, <2>3 DEF FilesOK, IdsOK
    <1>4. Pending[wr] = <<>>
        BY DEF FilesOK, PendingOK
    <1>5. PendingOK'
        <2>1. ASSUME NEW x \in Writers
              PROVE  /\ File'[x].cache_id = 0 => Pending[x] = <<>> /\ File'[x].extents = <<>> /\ File'[x].size = 0
                     /\ \A i \in 1 .. Len(Pending[x]) :
                            memory[Pending[x][i]] = <<File'[x].cache_id, File'[x].size + i - 1>>
            <3>1. CASE x = wr
                BY <1>0, <1>1, <1>2, <1>4, <3>1
            <3>2. CASE x # wr
                BY <1>2, <3>2 DEF FilesOK, PendingOK
            <3> QED BY <3>1, <3>2
        <2> QED BY <2>1 DEF FilesOK, PendingOK
    <1>6. PagesOK'
        BY DEF FilesOK, PagesOK, Dirty
    <1>7. CachedOK'
        <2>1. ASSUME NEW k \in Cached(cache)
              PROVE  /\ k[1] < next_cache_id'
                     /\ \A x \in Writers : k[1] = File'[x].cache_id => k[2] < File'[x].size
            <3>1. k \in Keys
                BY DEF FilesOK, CachedOK, CacheOK, ListsOK, Lists, ToSet
            <3>2. k[1] \in Nat /\ k[1] < next_cache_id
                BY <3>1 DEF FilesOK, CachedOK, Keys
            <3>3. k[1] < next_cache_id' /\ k[1] # next_cache_id
                BY <1>0, <3>2
            <3> QED BY <1>1, <1>2, <3>3 DEF FilesOK, CachedOK
        <2> QED BY <2>1 DEF FilesOK, CachedOK
    <1>8. DiskOK'
        <2>1. \A f \in Files' : f.extents = <<>> \/ f \in Files
            BY <1>1, <1>2 DEF Files
        <2>2. DiskHas(Files, disk_free, disk, stray)
            BY DEF FilesOK, DiskOK
        <2>3. DiskHas(Files', disk_free, disk, stray)
            BY <2>1, <2>2, DiskKeeps
        <2> QED BY <2>3 DEF FilesOK, DiskOK
    <1> QED BY <1>3, <1>5, <1>6, <1>7, <1>8 DEF FilesOK

\* The keys of the cache, and the pages that it has.
LEMMA CachedKeys ==
    ASSUME CachedOK
    PROVE  \A k \in Cached(cache) : /\ k \in Keys /\ k[1] \in Nat /\ k[2] \in Nat
                                    /\ cache.item[k] \in Owned(cache)
    <1>1. \A k \in Cached(cache) : k \in Keys
        BY DEF CachedOK, CacheOK, ListsOK, Lists, ToSet
    <1>2. \A k \in Cached(cache) : cache.item[k] \in Owned(cache)
        BY DEF Owned, Mapped
    <1> QED BY <1>1, <1>2 DEF Keys

\* A page is allocated and filled.
LEMMA GrowFile ==
    ASSUME FilesOK, NEW wr \in Writers, File[wr].cache_id # 0, NEW o \in CacheAllocate(cache),
           cache' = o.cache, File' = File,
           memory' = [memory EXCEPT ![o.page] =
                        <<File[wr].cache_id, File[wr].size + Len(Pending[wr])>>],
           Pending' = [Pending EXCEPT ![wr] = Append(Pending[wr], o.page)],
           m_dirty_pages' = m_dirty_pages + 1,
           UNCHANGED <<disk, disk_free, committed, next_cache_id, lost, stray>>
    PROVE  FilesOK'
    <1> DEFINE page == o.page
               key == <<File[wr].cache_id, File[wr].size + Len(Pending[wr])>>
    <1>0. IdsOK /\ PendingOK /\ PagesOK /\ CachedOK /\ DiskOK
        BY DEF FilesOK
    <1>1. page \in Owned(cache) /\ page \in Pages /\ KeepsPages(Keys, o.cache, cache, Owned(cache) \ {page})
        BY <1>0, AllocateOK DEF CachedOK
    <1>2. /\ CacheOK(Keys, cache') /\ Owned(cache') = Owned(cache) \ {page}
          /\ Cached(cache') \subseteq Cached(cache)
          /\ \A k \in Cached(cache') : cache'.item[k] = cache.item[k]
        BY <1>1 DEF KeepsPages
    <1>3. page \notin Dirty /\ \A x \in Writers : page \notin ToSet(Pending[x])
        BY <1>0, <1>1, DirtyPagesAre DEF PagesOK
    <1>4. /\ \A x \in Writers : Pending[x] \in Seq(Pages) /\ Len(Pending[x]) \in Nat
          /\ File[wr].cache_id \in Nat /\ File[wr].size \in Nat
        BY <1>0, LenProperties DEF PendingOK, IdsOK, FileType
    <1>5. key \in Keys
        BY <1>4 DEF Keys
    <1> HIDE DEF key, page
    <1>6. /\ memory' \in [Pages -> Keys] /\ memory'[page] = key
          /\ \A p \in Pages : p # page => memory'[p] = memory[p]
        BY <1>0, <1>1, <1>5 DEF PendingOK, key, page
    <1>7. /\ Append(Pending[wr], page) \in Seq(Pages) /\ Len(Append(Pending[wr], page)) = Len(Pending[wr]) + 1
          /\ \A i \in 1 .. Len(Pending[wr]) : Append(Pending[wr], page)[i] = Pending[wr][i]
          /\ Append(Pending[wr], page)[Len(Pending[wr]) + 1] = page
          /\ ToSet(Append(Pending[wr], page)) = ToSet(Pending[wr]) \cup {page}
        BY <1>1, <1>4, AppendProperties, AppendSet
    <1>8. /\ Pending' \in [Writers -> Seq(Pages)] /\ Pending'[wr] = Append(Pending[wr], page)
          /\ \A x \in Writers \ {wr} : Pending'[x] = Pending[x]
        BY <1>0, <1>7 DEF PendingOK, page
    <1>9. \A x \in Writers : \A i \in 1 .. Len(Pending[x]) :
             Pending[x][i] # page /\ Pending[x][i] \in Pages
        BY <1>3, <1>4, InToSet, ElementOfSeq
    <1>10. IdsOK'
        BY <1>0 DEF IdsOK
    <1>11. PendingOK'
        <2>1. \A x \in Writers : File'[x].cache_id = 0 =>
                  Pending'[x] = <<>> /\ File'[x].extents = <<>> /\ File'[x].size = 0
            BY <1>0, <1>8 DEF PendingOK
        <2>2. ASSUME NEW x \in Writers, NEW i \in 1 .. Len(Pending'[x])
              PROVE  memory'[Pending'[x][i]] = <<File'[x].cache_id, File'[x].size + i - 1>>
            <3>1. ASSUME i \in 1 .. Len(Pending[x]), Pending'[x][i] = Pending[x][i]
                  PROVE  memory'[Pending'[x][i]] = <<File'[x].cache_id, File'[x].size + i - 1>>
                BY <1>0, <1>6, <1>9, <3>1 DEF PendingOK
            <3>2. CASE x # wr
                BY <1>8, <3>1, <3>2
            <3>3. CASE x = wr /\ i # Len(Pending[wr]) + 1
                <4>1. i \in 1 .. Len(Pending[wr])
                    BY <1>4, <1>7, <1>8, <3>3
                <4> QED BY <1>7, <1>8, <3>1, <3>3, <4>1
            <3>4. CASE x = wr /\ i = Len(Pending[wr]) + 1
                <4>1. Pending'[x][i] = page
                    BY <1>7, <1>8, <3>4
                <4>2. File[wr].size + i - 1 = File[wr].size + Len(Pending[wr])
                    BY <1>4, <3>4
                <4> QED BY <1>6, <3>4, <4>1, <4>2 DEF key
            <3> QED BY <3>2, <3>3, <3>4
        <2> QED BY <1>6, <1>8, <2>1, <2>2 DEF PendingOK
    <1>12. PagesOK'
        <2>1. \A x \in Writers : ToSet(Pending'[x]) = ToSet(Pending[x]) \cup (IF x = wr THEN {page} ELSE {})
            BY <1>7, <1>8
        <2>2. Dirty' = Dirty \cup {page}
            BY <2>1 DEF Dirty
        <2>3. Cardinality(Dirty') = Cardinality(Dirty) + 1
            BY <1>0, <1>3, <2>2, DirtyPagesAre, FS_AddElement
        <2>4. page \notin lost
            BY <1>3 DEF Dirty
        <2> QED BY <1>0, <1>1, <1>2, <1>3, <2>1, <2>2, <2>3, <2>4 DEF PagesOK
    <1>13. CachedOK'
        <2>1. ASSUME NEW k \in Cached(cache') PROVE memory'[cache'.item[k]] = k
            <3>1. cache'.item[k] = cache.item[k] /\ cache'.item[k] \in Owned(cache') /\ k \in Cached(cache)
                BY <1>2 DEF Owned, Mapped
            <3>2. cache.item[k] \in Pages
                BY <1>0, <3>1 DEF CachedOK, CacheOK, PagesMatchMap
            <3>3. cache.item[k] # page
                BY <1>2, <3>1
            <3> QED BY <1>0, <1>6, <3>1, <3>2, <3>3 DEF CachedOK
        <2> QED BY <1>0, <1>2, <2>1 DEF CachedOK
    <1>14. DiskOK'
        BY <1>0 DEF DiskOK, Files
    <1> QED BY <1>10, <1>11, <1>12, <1>13, <1>14 DEF FilesOK

\* The file of a writer is now g, with the id that it had.
LEMMA SameIds ==
    ASSUME IdsOK, NEW wr \in Writers, NEW g \in FileType, g.cache_id = File[wr].cache_id,
           File' = [File EXCEPT ![wr] = g], UNCHANGED <<committed, next_cache_id>>
    PROVE  /\ IdsOK'
           /\ File'[wr] = g /\ \A x \in Writers : x # wr => File'[x] = File[x]
           /\ \A x \in Writers : File'[x].cache_id = File[x].cache_id
           /\ \A h \in Files' : h = g \/ h \in Files
    <1>1. File' \in [Writers -> FileType] /\ File'[wr] = g /\ \A x \in Writers : x # wr => File'[x] = File[x]
        BY DEF IdsOK
    <1>2. \A x \in Writers : File'[x].cache_id = File[x].cache_id
        BY <1>1
    <1>3. IdsOK'
        BY <1>1, <1>2 DEF IdsOK
    <1>4. \A h \in Files' : h = g \/ h \in Files
        BY <1>1 DEF Files
    <1> QED BY <1>1, <1>2, <1>3, <1>4

\* Space is allocated.
LEMMA PlaceFile ==
    ASSUME FilesOK, NEW wr \in Writers, NEW x \in Extent, PagesOfExtent(x) \subseteq disk_free,
           File[wr].cache_id # 0, File[wr].size = SizeOf(File[wr].extents),
           File' = [File EXCEPT ![wr] = [cache_id |-> File[wr].cache_id, size |-> File[wr].size,
                                         extents |-> Append(File[wr].extents, x)]],
           disk_free' = disk_free \ PagesOfExtent(x), Pending' = Pending,
           UNCHANGED <<cache, memory, m_dirty_pages, disk, committed, next_cache_id, lost, stray>>
    PROVE  FilesOK'
    <1> DEFINE f == File[wr]
               g == [cache_id |-> f.cache_id, size |-> f.size, extents |-> Append(f.extents, x)]
    <1>0. IdsOK /\ PendingOK /\ PagesOK /\ CachedOK /\ DiskOK
        BY DEF FilesOK
    <1>1. f \in FileType /\ f.cache_id \in Nat /\ f.size \in Nat /\ f.extents \in Seq(Extent)
        BY <1>0 DEF IdsOK, FileType
    <1>2. Append(f.extents, x) \in Seq(Extent)
        BY <1>1, AppendProperties
    <1>3. /\ g \in FileType /\ g.cache_id = f.cache_id /\ g.size = f.size
          /\ g.extents = Append(f.extents, x)
        BY <1>1, <1>2 DEF FileType
    <1> HIDE DEF f, g
    <1>4. File' = [File EXCEPT ![wr] = g]
        BY DEF f, g
    <1>5. /\ IdsOK' /\ File'[wr] = g /\ \A y \in Writers : y # wr => File'[y] = File[y]
          /\ \A h \in Files' : h = g \/ h \in Files
        BY <1>0, <1>3, <1>4, SameIds DEF f
    <1>6. \A y \in Writers : File'[y].cache_id = File[y].cache_id /\ File'[y].size = File[y].size
        BY <1>3, <1>5 DEF f
    <1>7. PendingOK'
        <2>1. \A y \in Writers : File'[y].cache_id = 0 =>
                  Pending'[y] = <<>> /\ File'[y].extents = <<>> /\ File'[y].size = 0
            BY <1>0, <1>5, <1>6 DEF PendingOK, f
        <2> QED BY <1>0, <1>6, <2>1 DEF PendingOK
    <1>8. PagesOK'
        BY <1>0 DEF PagesOK, Dirty
    <1>9. CachedOK'
        BY <1>0, <1>6 DEF CachedOK
    <1>10. DiskOK'
        <2>1. Files \in SUBSET FileType /\ f \in Files
            BY <1>0, FilesTyped DEF f
        <2>2. DiskHas(Files, disk_free, disk, stray)
            BY <1>0 DEF DiskOK
        <2>3. f.size = SizeOf(f.extents)
            BY DEF f
        <2>4. DiskHas(Files', disk_free \ PagesOfExtent(x), disk, stray)
            BY <1>3, <1>5, <2>1, <2>2, <2>3, DiskPlaces
        <2> QED BY <1>0, <2>4 DEF DiskOK
    <1> QED BY <1>5, <1>7, <1>8, <1>9, <1>10 DEF FilesOK

\* A list in two parts.
LEMMA SplitSeq ==
    ASSUME NEW S, NEW s \in Seq(S), NEW t \in Seq(S), IsInjective(s \o t)
    PROVE  /\ Len(s) \in Nat /\ Len(t) \in Nat /\ Len(s \o t) = Len(s) + Len(t)
           /\ \A i \in 1 .. Len(s) : i \in 1 .. Len(s \o t) /\ (s \o t)[i] = s[i]
           /\ \A i \in 1 .. Len(t) : Len(s) + i \in 1 .. Len(s \o t) /\ (s \o t)[Len(s) + i] = t[i]
           /\ ToSet(s \o t) = ToSet(s) \cup ToSet(t)
           /\ IsInjective(s) /\ IsInjective(t) /\ ToSet(s) \cap ToSet(t) = {}
    <1> DEFINE u == s \o t
    <1>1. /\ u \in Seq(S) /\ Len(u) = Len(s) + Len(t)
          /\ \A i \in 1 .. Len(s) + Len(t) : u[i] = IF i <= Len(s) THEN s[i] ELSE t[i - Len(s)]
        BY ConcatProperties
    <1>2. /\ Len(s) \in Nat /\ Len(t) \in Nat /\ DOMAIN s = 1 .. Len(s) /\ DOMAIN t = 1 .. Len(t)
        BY LenProperties
    <1>3. ToSet(u) = ToSet(s) \cup ToSet(t)
        BY ConcatSet
    <1> HIDE DEF u
    <1>4. DOMAIN u = 1 .. Len(u)
        BY <1>1, LenProperties
    <1>5. \A i \in 1 .. Len(s) : i \in 1 .. Len(u) /\ u[i] = s[i]
        BY <1>1, <1>2
    <1>6. ASSUME NEW i \in 1 .. Len(t) PROVE Len(s) + i \in 1 .. Len(u) /\ u[Len(s) + i] = t[i]
        <2>1. Len(s) + i \in 1 .. Len(s) + Len(t) /\ ~(Len(s) + i <= Len(s)) /\ (Len(s) + i) - Len(s) = i
            BY <1>2
        <2> QED BY <1>1, <2>1
    <1>7. \A i, j \in 1 .. Len(u) : u[i] = u[j] => i = j
        BY <1>4 DEF IsInjective, u
    <1>8. IsInjective(s)
        BY <1>2, <1>5, <1>7 DEF IsInjective
    <1>9. ASSUME NEW p \in ToSet(s), p \in ToSet(t) PROVE FALSE
        <2>1. PICK i \in 1 .. Len(s) : s[i] = p
            BY InToSet
        <2>2. PICK j \in 1 .. Len(t) : t[j] = p
            BY <1>9, InToSet
        <2>3. i = Len(s) + j
            BY <1>5, <1>6, <1>7, <2>1, <2>2
        <2> QED BY <1>2, <2>3
    <1>10. IsInjective(t)
        <2> SUFFICES ASSUME NEW i \in 1 .. Len(t), NEW j \in 1 .. Len(t), t[i] = t[j] PROVE i = j
            BY <1>2 DEF IsInjective
        <2>1. Len(s) + i = Len(s) + j
            BY <1>6, <1>7
        <2> QED BY <1>2, <2>1
    <1> QED BY <1>1, <1>2, <1>3, <1>5, <1>6, <1>8, <1>9, <1>10 DEF u

\* The pages fp of a file are not dirty any more.
LEMMA DirtyLess ==
    ASSUME IdsOK, PendingOK, PagesOK, NEW wr \in Writers, NEW fp \in Seq(Pages), NEW q \in Seq(Pages),
           Pending[wr] = fp \o q, Pending' = [Pending EXCEPT ![wr] = q], lost' = lost
    PROVE  /\ Cardinality(Dirty) = Cardinality(Dirty') + Len(fp) /\ Cardinality(Dirty') \in Nat
           /\ Dirty' = Dirty \ ToSet(fp) /\ ToSet(fp) \subseteq Dirty
           /\ \A x \in Writers : ToSet(Pending'[x]) \cap lost = {}
    <1>1. IsInjective(fp \o q) /\ \A x \in Writers : x # wr => ToSet(Pending[x]) \cap ToSet(fp \o q) = {}
        BY PendingApart
    <1>2. /\ Len(fp) \in Nat
          /\ ToSet(Pending[wr]) = ToSet(fp) \cup ToSet(q)
          /\ IsInjective(fp) /\ ToSet(fp) \cap ToSet(q) = {}
        BY <1>1, SplitSeq
    <1>3. ToSet(fp) \subseteq Dirty /\ ToSet(fp) \cap lost = {}
        BY <1>2, DirtyPagesAre DEF PagesOK
    <1>4. Pending'[wr] = q /\ \A x \in Writers : x # wr => Pending'[x] = Pending[x]
        BY DEF PendingOK
    <1>5. \A x \in Writers : x # wr => /\ ToSet(Pending'[x]) = ToSet(Pending[x])
                                       /\ ToSet(Pending[x]) \cap ToSet(fp) = {}
        BY <1>1, <1>2, <1>4
    <1>6. \A p : p \in Dirty' <=> p \in lost \/ \E x \in Writers : p \in ToSet(Pending'[x])
        BY DEF Dirty
    <1>7. \A p : p \in Dirty <=> p \in lost \/ \E x \in Writers : p \in ToSet(Pending[x])
        BY DEF Dirty
    <1>8. ToSet(Pending'[wr]) = ToSet(q)
        BY <1>4
    <1>9. Dirty' = Dirty \ ToSet(fp)
        <2>1. ASSUME NEW p \in Dirty' PROVE p \in Dirty \ ToSet(fp)
            BY <1>2, <1>3, <1>5, <1>6, <1>7, <1>8
        <2>2. ASSUME NEW p \in Dirty \ ToSet(fp) PROVE p \in Dirty'
            <3>1. CASE p \in lost
                BY <1>6, <3>1
            <3>2. ASSUME NEW x \in Writers, p \in ToSet(Pending[x]) PROVE p \in Dirty'
                <4>1. p \in ToSet(Pending'[x])
                    BY <1>2, <1>5, <1>8, <2>2, <3>2
                <4> QED BY <1>6, <4>1
            <3> QED BY <1>7, <3>1, <3>2
        <2> QED BY <2>1, <2>2
    <1>10. IsFiniteSet(Dirty') /\ IsFiniteSet(ToSet(fp)) /\ Cardinality(ToSet(fp)) = Len(fp)
        <2>1. IsFiniteSet(Dirty)
            BY DirtyPagesAre
        <2> QED BY <1>2, <1>9, <2>1, FS_Subset, InjectiveLen
    <1>11. Dirty = Dirty' \cup ToSet(fp) /\ Dirty' \cap ToSet(fp) = {}
        BY <1>3, <1>9
    <1>12. Cardinality(Dirty) = Cardinality(Dirty') + Len(fp) /\ Cardinality(Dirty') \in Nat
        BY <1>10, <1>11, CardDisjoint
    <1>13. \A x \in Writers : ToSet(Pending'[x]) \cap lost = {}
        BY <1>2, <1>5, <1>8 DEF PagesOK
    <1> QED BY <1>3, <1>9, <1>12, <1>13

\* Of the pages of a file, fp are lost, and the pages q are not dirty any more.
LEMMA DirtyDrops ==
    ASSUME IdsOK, PendingOK, PagesOK, NEW wr \in Writers, NEW fp \in Seq(Pages), NEW q \in Seq(Pages),
           Pending[wr] = fp \o q, Pending' = [Pending EXCEPT ![wr] = <<>>], lost' = lost \cup ToSet(fp)
    PROVE  /\ Cardinality(Dirty) = Cardinality(Dirty') + Len(q) /\ Cardinality(Dirty') \in Nat
           /\ Dirty' = Dirty \ ToSet(q) /\ ToSet(q) \subseteq Dirty
           /\ \A x \in Writers : ToSet(Pending'[x]) \cap lost' = {}
    <1>1. IsInjective(fp \o q) /\ \A x \in Writers : x # wr => ToSet(Pending[x]) \cap ToSet(fp \o q) = {}
        BY PendingApart
    <1>2. /\ ToSet(Pending[wr]) = ToSet(fp) \cup ToSet(q)
          /\ IsInjective(q) /\ ToSet(fp) \cap ToSet(q) = {}
        BY <1>1, SplitSeq
    <1>3. ToSet(fp) \cup ToSet(q) \subseteq Dirty /\ (ToSet(fp) \cup ToSet(q)) \cap lost = {}
        BY <1>2, DirtyPagesAre DEF PagesOK
    <1>4. ToSet(Pending'[wr]) = {} /\ \A x \in Writers : x # wr => Pending'[x] = Pending[x]
        BY ShortSeqs DEF PendingOK
    <1>5. \A x \in Writers : x # wr => /\ ToSet(Pending'[x]) = ToSet(Pending[x])
                                       /\ ToSet(Pending[x]) \cap (ToSet(fp) \cup ToSet(q)) = {}
        BY <1>1, <1>2, <1>4
    <1>6. \A p : p \in Dirty' <=> p \in lost' \/ \E x \in Writers : p \in ToSet(Pending'[x])
        BY DEF Dirty
    <1>7. \A p : p \in Dirty <=> p \in lost \/ \E x \in Writers : p \in ToSet(Pending[x])
        BY DEF Dirty
    <1>8. Dirty' = Dirty \ ToSet(q)
        <2>1. ASSUME NEW p \in Dirty' PROVE p \in Dirty \ ToSet(q)
            BY <1>2, <1>3, <1>4, <1>5, <1>6, <1>7
        <2>2. ASSUME NEW p \in Dirty \ ToSet(q) PROVE p \in Dirty'
            <3>1. CASE p \in lost
                BY <1>6, <3>1
            <3>2. ASSUME NEW x \in Writers, p \in ToSet(Pending[x]) PROVE p \in Dirty'
                <4>1. p \in ToSet(fp) \/ p \in ToSet(Pending'[x])
                    BY <1>2, <1>5, <2>2, <3>2
                <4> QED BY <1>6, <4>1
            <3> QED BY <1>7, <3>1, <3>2
        <2> QED BY <2>1, <2>2
    <1>9. IsFiniteSet(Dirty') /\ IsFiniteSet(ToSet(q)) /\ Cardinality(ToSet(q)) = Len(q)
        <2>1. IsFiniteSet(Dirty)
            BY DirtyPagesAre
        <2> QED BY <1>2, <1>8, <2>1, FS_Subset, InjectiveLen
    <1>10. Dirty = Dirty' \cup ToSet(q) /\ Dirty' \cap ToSet(q) = {}
        BY <1>3, <1>8
    <1>11. Cardinality(Dirty) = Cardinality(Dirty') + Len(q) /\ Cardinality(Dirty') \in Nat
        BY <1>9, <1>10, CardDisjoint
    <1>12. \A x \in Writers : ToSet(Pending'[x]) \cap lost' = {}
        BY <1>4, <1>5 DEF PagesOK
    <1> QED BY <1>3, <1>8, <1>11, <1>12

\* The pages fp are written to the extent x.
WrittenTo(x, fp) ==
    \A p \in DiskPages : disk'[p] = IF p \in PagesOfExtent(x) THEN memory[fp[p - x.page + 1]] ELSE disk[p]

\* The pages fp are on the disk and in the cache; the pages q are left.
LEMMA WriteFile ==
    ASSUME FilesOK, NEW wr \in Writers, NEW fp \in Seq(Pages), NEW q \in Seq(Pages),
           Pending[wr] = fp \o q, Pending' = [Pending EXCEPT ![wr] = q],
           NEW f, f = File[wr], f.cache_id # 0, f.extents # <<>>,
           f.size = PagesUpTo(f.extents, Len(f.extents) - 1), Last(f.extents).pages = Len(fp),
           File' = [File EXCEPT ![wr] = [cache_id |-> f.cache_id, size |-> f.size + Len(fp),
                                         extents |-> f.extents]],
           WrittenTo(Last(f.extents), fp), DOMAIN disk' = DiskPages,
           cache' \in Added(cache, f.cache_id, f.size, fp),
           m_dirty_pages' = m_dirty_pages - Len(fp),
           UNCHANGED <<memory, disk_free, committed, next_cache_id, lost, stray>>
    PROVE  FilesOK'
    <1> DEFINE n == Len(fp)
               g == [cache_id |-> f.cache_id, size |-> f.size + n, extents |-> f.extents]
    <1>0. IdsOK /\ PendingOK /\ PagesOK /\ CachedOK /\ DiskOK
        BY DEF FilesOK
    <1>1. f \in FileType /\ f.cache_id \in Nat /\ f.size \in Nat /\ f.extents \in Seq(Extent) /\ f.cache_id < next_cache_id
        BY <1>0 DEF IdsOK, FileType
    <1>2. IsInjective(fp \o q) /\ \A x \in Writers : x # wr => ToSet(Pending[x]) \cap ToSet(fp \o q) = {}
        BY <1>0, PendingApart
    <1>3. /\ n \in Nat /\ Len(q) \in Nat
          /\ \A i \in 1 .. n : i \in 1 .. Len(Pending[wr]) /\ Pending[wr][i] = fp[i]
          /\ \A i \in 1 .. Len(q) : n + i \in 1 .. Len(Pending[wr]) /\ Pending[wr][n + i] = q[i]
          /\ ToSet(Pending[wr]) = ToSet(fp) \cup ToSet(q)
          /\ IsInjective(fp) /\ ToSet(fp) \cap ToSet(q) = {}
        BY <1>2, SplitSeq
    <1>4. /\ \A i \in 1 .. n : memory[fp[i]] = <<f.cache_id, f.size + i - 1>>
          /\ \A i \in 1 .. Len(q) : memory[q[i]] = <<f.cache_id, f.size + (n + i) - 1>>
        BY <1>0, <1>3 DEF PendingOK
    <1> HIDE DEF n
    <1>5. g \in FileType /\ g.cache_id = f.cache_id /\ g.size = f.size + n /\ g.extents = f.extents
        BY <1>1, <1>3 DEF FileType
    <1> HIDE DEF g
    <1>6. File' = [File EXCEPT ![wr] = g]
        BY DEF g, n
    <1>7. /\ IdsOK' /\ File'[wr] = g /\ \A x \in Writers : x # wr => File'[x] = File[x]
          /\ \A x \in Writers : File'[x].cache_id = File[x].cache_id
          /\ \A h \in Files' : h = g \/ h \in Files
        BY <1>0, <1>5, <1>6, SameIds
    <1>8. /\ Pending' \in [Writers -> Seq(Pages)] /\ Pending'[wr] = q
          /\ \A x \in Writers : x # wr => Pending'[x] = Pending[x]
        BY <1>0 DEF PendingOK
    <1>9. PendingOK'
        <2>1. \A x \in Writers : File'[x].cache_id = 0 =>
                  Pending'[x] = <<>> /\ File'[x].extents = <<>> /\ File'[x].size = 0
            <3> SUFFICES ASSUME NEW x \in Writers, File'[x].cache_id = 0
                         PROVE  Pending'[x] = <<>> /\ File'[x].extents = <<>> /\ File'[x].size = 0
                OBVIOUS
            <3>1. x # wr
                BY <1>7
            <3> QED BY <1>0, <1>7, <1>8, <3>1 DEF PendingOK
        <2>2. ASSUME NEW x \in Writers, NEW i \in 1 .. Len(Pending'[x])
              PROVE  memory[Pending'[x][i]] = <<File'[x].cache_id, File'[x].size + i - 1>>
            <3>1. CASE x = wr
                <4>1. i \in 1 .. Len(q) /\ File'[x] = g /\ Pending'[x] = q
                    BY <1>7, <1>8, <3>1
                <4>2. f.size + (n + i) - 1 = (f.size + n) + i - 1
                    BY <1>1, <1>3
                <4> QED BY <1>4, <1>5, <4>1, <4>2
            <3>2. CASE x # wr
                BY <1>0, <1>7, <1>8, <3>2 DEF PendingOK
            <3> QED BY <3>1, <3>2
        <2> QED BY <1>0, <1>8, <2>1, <2>2 DEF PendingOK
    <1>10. /\ ToSet(fp) \subseteq Dirty /\ ToSet(fp) \cap Owned(cache) = {} /\ ToSet(fp) \cap lost = {}
        BY <1>0, <1>3, DirtyPagesAre DEF PagesOK
    <1>11. \A i \in 1 .. n : <<f.cache_id, f.size + i - 1>> \notin Cached(cache)
        <2> SUFFICES ASSUME NEW i \in 1 .. n, <<f.cache_id, f.size + i - 1>> \in Cached(cache) PROVE FALSE
            OBVIOUS
        <2>1. f.size + i - 1 < f.size
            BY <1>0 DEF CachedOK
        <2> QED BY <1>1, <1>3, <2>1
    <1>12. /\ CacheOK(Keys, cache') /\ Owned(cache') = Owned(cache) \cup ToSet(fp)
           /\ \A k \in Cached(cache') :
                 \/ k \in Cached(cache) /\ cache'.item[k] = cache.item[k]
                 \/ \E i \in 1 .. n : k = <<f.cache_id, f.size + i - 1>> /\ cache'.item[k] = fp[i]
        <2>1. NoneCached(cache, f.cache_id, f.size, Len(fp))
            BY <1>11 DEF n, NoneCached
        <2>2. CacheOK(Keys, cache)
            BY <1>0 DEF CachedOK
        <2>3. /\ CacheOK(Keys, cache) /\ f.cache_id \in Nat /\ f.size \in Nat /\ fp \in Seq(Pages)
              /\ IsInjective(fp) /\ ToSet(fp) \cap Owned(cache) = {}
              /\ cache' \in Added(cache, f.cache_id, f.size, fp)
            BY <1>1, <1>3, <1>10, <2>2
        <2> QED BY ONLY <2>1, <2>3, AddedOK DEF n
    <1>13. PagesOK'
        <2>1. /\ Cardinality(Dirty) = Cardinality(Dirty') + n /\ Cardinality(Dirty') \in Nat
              /\ Dirty' = Dirty \ ToSet(fp) /\ ToSet(fp) \subseteq Dirty
              /\ \A x \in Writers : ToSet(Pending'[x]) \cap lost = {}
            BY <1>0, DirtyLess DEF n
        <2>2. m_dirty_pages' = Cardinality(Dirty')
            BY <1>0, <1>3, <2>1 DEF PagesOK, n
        <2>3. Dirty' \cap Owned(cache') = {} /\ Dirty' \cup Owned(cache') = Pages
            BY <1>0, <1>12, <2>1 DEF PagesOK
        <2> QED BY <2>1, <2>2, <2>3 DEF PagesOK
    <1>14. CachedOK'
        <2>1. ASSUME NEW k \in Cached(cache')
              PROVE  /\ memory'[cache'.item[k]] = k /\ k[1] # 0 /\ k[1] < next_cache_id'
                     /\ \A x \in Writers : k[1] = File'[x].cache_id => k[2] < File'[x].size
            <3>1. CASE k \in Cached(cache) /\ cache'.item[k] = cache.item[k]
                <4>1. /\ memory[cache.item[k]] = k /\ k[1] # 0 /\ k[1] < next_cache_id
                      /\ \A x \in Writers : k[1] = File[x].cache_id => k[2] < File[x].size
                    BY <1>0, <3>1 DEF CachedOK
                <4>2. k[2] \in Nat
                    BY <1>0, <3>1, CachedKeys
                <4>3. k[1] = f.cache_id => k[2] < f.size + n
                    BY <1>1, <1>3, <4>1, <4>2
                <4> QED BY <1>5, <1>7, <3>1, <4>1, <4>3
            <3>2. ASSUME NEW i \in 1 .. n, k = <<f.cache_id, f.size + i - 1>>, cache'.item[k] = fp[i]
                  PROVE  /\ memory'[cache'.item[k]] = k /\ k[1] # 0 /\ k[1] < next_cache_id'
                         /\ \A x \in Writers : k[1] = File'[x].cache_id => k[2] < File'[x].size
                <4>1. k[1] = f.cache_id /\ k[2] = f.size + i - 1
                    BY <3>2
                <4>2. k[2] < f.size + n
                    BY <1>1, <1>3, <4>1
                <4>3. \A x \in Writers : k[1] = File'[x].cache_id => x = wr
                    BY <1>0, <1>7, <4>1 DEF IdsOK
                <4> QED BY <1>1, <1>4, <1>5, <1>7, <3>2, <4>1, <4>2, <4>3
            <3> QED BY <1>12, <3>1, <3>2
        <2> QED BY <1>12, <2>1 DEF CachedOK
    <1>15. DiskOK'
        <2> DEFINE x == Last(f.extents)
        <2>1. x \in Extent /\ x.page \in Nat /\ x.pages = n
            <3>1. x \in Extent
                BY <1>1, LastNumbers
            <3> QED BY <3>1 DEF Extent, n
        <2>0. \A p \in DiskPages : disk'[p] = IF p \in PagesOfExtent(x) THEN memory[fp[p - x.page + 1]] ELSE disk[p]
            BY DEF WrittenTo
        <2> HIDE DEF x
        <2>2. ASSUME NEW p \in DiskPages
              PROVE  disk'[p] = IF p \in PagesOfExtent(x) THEN <<f.cache_id, f.size + (p - x.page)>> ELSE disk[p]
            <3>1. CASE p \in PagesOfExtent(x)
                <4> DEFINE i == p - x.page + 1
                <4>1. i \in 1 .. n /\ f.size + i - 1 = f.size + (p - x.page)
                    BY <1>1, <1>3, <2>1, <3>1, InExtent DEF PagesOfExtent
                <4>2. disk'[p] = memory[fp[i]]
                    BY <2>0, <3>1
                <4> HIDE DEF i
                <4>3. memory[fp[i]] = <<f.cache_id, f.size + i - 1>>
                    BY <1>4, <4>1
                <4> QED BY <3>1, <4>1, <4>2, <4>3
            <3>2. CASE p \notin PagesOfExtent(x)
                BY <2>0, <3>2
            <3> QED BY <3>1, <3>2
        <2>3. Files \in SUBSET FileType /\ f \in Files
            BY <1>0, FilesTyped
        <2>4. DiskHas(Files, disk_free, disk, stray)
            BY <1>0 DEF DiskOK
        <2>5. Rewritten(disk', disk, Last(f.extents), f.cache_id, f.size)
            BY <2>2 DEF x, Rewritten
        <2>6. DiskHas(Files', disk_free, disk', stray)
            <3>1. /\ g.cache_id = f.cache_id /\ g.extents = f.extents
                  /\ \A h \in Files' : h = g \/ h \in Files
                BY <1>5, <1>7
            <3>2. f.extents # <<>> /\ f.size = PagesUpTo(f.extents, Len(f.extents) - 1)
                OBVIOUS
            <3> QED BY ONLY <2>3, <2>4, <2>5, <3>1, <3>2, DiskWrites
        <2>7. DOMAIN disk' = DiskPages
            OBVIOUS
        <2> QED BY <1>0, <2>6, <2>7 DEF DiskOK
    <1> QED BY <1>7, <1>9, <1>13, <1>14, <1>15 DEF FilesOK

ClosedFile == [cache_id |-> 0, size |-> 0, extents |-> <<>>]

LEMMA ClosedFileFields ==
    ClosedFile \in FileType /\ ClosedFile.cache_id = 0 /\ ClosedFile.size = 0 /\ ClosedFile.extents = <<>>
    BY DEF ClosedFile, FileType

\* A writer has no file any more; the file may now be a committed one.
LEMMA CloseFile ==
    ASSUME IdsOK, PendingOK, NEW wr \in Writers, File[wr].cache_id # 0,
           File' = [File EXCEPT ![wr] = ClosedFile], Pending' = [Pending EXCEPT ![wr] = <<>>],
           NEW c \in SUBSET {File[wr]}, committed' = committed \cup c,
           UNCHANGED <<memory, next_cache_id>>
    PROVE  /\ IdsOK' /\ PendingOK'
           /\ File'[wr] = ClosedFile /\ \A x \in Writers : x # wr => File'[x] = File[x]
           /\ Pending'[wr] = <<>> /\ \A x \in Writers : x # wr => Pending'[x] = Pending[x]
           /\ \A h \in Files' : h.extents = <<>> \/ (h \in Files /\ (h.cache_id # File[wr].cache_id \/ h \in c))
    <1>1. /\ File' \in [Writers -> FileType] /\ File'[wr] = ClosedFile
          /\ \A x \in Writers : x # wr => File'[x] = File[x]
        BY ClosedFileFields DEF IdsOK
    <1>2. /\ Pending' \in [Writers -> Seq(Pages)] /\ Pending'[wr] = <<>>
          /\ \A x \in Writers : x # wr => Pending'[x] = Pending[x]
        BY DEF PendingOK
    <1>3. IdsOK'
        <2>1. committed' \subseteq FileType
            BY DEF IdsOK
        <2>2. \A x \in Writers : File'[x].cache_id < next_cache_id'
            BY <1>1, ClosedFileFields DEF IdsOK
        <2>3. \A x, y \in Writers : x # y /\ File'[x].cache_id = File'[y].cache_id => File'[x].cache_id = 0
            BY <1>1, ClosedFileFields DEF IdsOK
        <2>4. ASSUME NEW f \in committed'
              PROVE  /\ f.cache_id # 0 /\ f.cache_id < next_cache_id'
                     /\ \A x \in Writers : f.cache_id # File'[x].cache_id
            <3>1. CASE f \in committed
                BY <1>1, <3>1, ClosedFileFields DEF IdsOK
            <3>2. CASE f = File[wr]
                BY <1>1, <3>2, ClosedFileFields DEF IdsOK
            <3> QED BY <3>1, <3>2
        <2>5. \A f, g \in committed' : f.cache_id = g.cache_id => f = g
            BY DEF IdsOK
        <2> QED BY <1>1, <2>1, <2>2, <2>3, <2>4, <2>5 DEF IdsOK
    <1>4. PendingOK'
        <2>1. ASSUME NEW x \in Writers
              PROVE  /\ File'[x].cache_id = 0 => Pending'[x] = <<>> /\ File'[x].extents = <<>> /\ File'[x].size = 0
                     /\ \A i \in 1 .. Len(Pending'[x]) :
                            memory[Pending'[x][i]] = <<File'[x].cache_id, File'[x].size + i - 1>>
            <3>1. CASE x = wr
                BY <1>1, <1>2, <3>1, ClosedFileFields
            <3>2. CASE x # wr
                BY <1>1, <1>2, <3>2 DEF PendingOK
            <3> QED BY <3>1, <3>2
        <2> QED BY <1>2, <2>1 DEF PendingOK
    <1>5. ASSUME NEW h \in Files'
          PROVE  h.extents = <<>> \/ (h \in Files /\ (h.cache_id # File[wr].cache_id \/ h \in c))
        <2>1. CASE h \in c
            BY <2>1 DEF Files
        <2>2. CASE h \in committed
            BY <2>2 DEF IdsOK, Files
        <2>3. ASSUME NEW x \in Writers, h = File'[x]
              PROVE  h.extents = <<>> \/ (h \in Files /\ h.cache_id # File[wr].cache_id)
            <3>1. CASE x = wr
                BY <1>1, <2>3, <3>1, ClosedFileFields
            <3>2. CASE x # wr
                BY <1>1, <2>3, <3>2 DEF IdsOK, Files
            <3> QED BY <3>1, <3>2
        <2> QED BY <2>1, <2>2, <2>3 DEF Files
    <1> QED BY <1>1, <1>2, <1>3, <1>4, <1>5

\* What the cache has stays valid when a file is closed.
LEMMA CloseCached ==
    ASSUME CachedOK, NEW wr \in Writers, File'[wr] = ClosedFile,
           \A x \in Writers : x # wr => File'[x] = File[x],
           UNCHANGED <<memory, next_cache_id>>, CacheOK(Keys, cache'), cache'.item = cache.item
    PROVE  CachedOK'
    <1>1. Cached(cache') = Cached(cache)
        BY DEF Cached
    <1>2. ASSUME NEW k \in Cached(cache), NEW x \in Writers, k[1] = File'[x].cache_id
          PROVE  k[2] < File'[x].size
        <2>1. k[1] # 0
            BY DEF CachedOK
        <2>2. x # wr
            BY <1>2, <2>1, ClosedFileFields
        <2> QED BY <1>2, <2>2 DEF CachedOK
    <1> QED BY <1>1, <1>2 DEF CachedOK

LEMMA CommitFile ==
    ASSUME FilesOK, NEW wr \in Writers, File[wr].cache_id # 0, Pending[wr] = <<>>,
           File[wr].size = SizeOf(File[wr].extents),
           File' = [File EXCEPT ![wr] = ClosedFile], Pending' = Pending,
           committed' = committed \cup {File[wr]},
           UNCHANGED <<cache, memory, m_dirty_pages, disk, disk_free, next_cache_id, lost, stray>>
    PROVE  FilesOK'
    <1>0. IdsOK /\ PendingOK /\ PagesOK /\ CachedOK /\ DiskOK
        BY DEF FilesOK
    <1>1. Pending' = [Pending EXCEPT ![wr] = <<>>]
        BY <1>0 DEF PendingOK
    <1>2. /\ IdsOK' /\ PendingOK'
          /\ File'[wr] = ClosedFile /\ \A x \in Writers : x # wr => File'[x] = File[x]
          /\ \A h \in Files' : h.extents = <<>> \/ h \in Files
        <2>1. {File[wr]} \in SUBSET {File[wr]}
            OBVIOUS
        <2> QED BY <1>0, <1>1, <2>1, CloseFile
    <1>3. PagesOK'
        BY <1>0 DEF PagesOK, Dirty
    <1>4. CachedOK'
        <2>1. CacheOK(Keys, cache') /\ cache'.item = cache.item
            BY <1>0 DEF CachedOK
        <2> QED BY <1>0, <1>2, <2>1, CloseCached
    <1>5. DiskOK'
        <2>1. DiskHas(Files, disk_free, disk, stray)
            BY <1>0 DEF DiskOK
        <2>2. DiskHas(Files', disk_free, disk, stray)
            BY <1>2, <2>1, DiskKeeps
        <2> QED BY <1>0, <2>2 DEF DiskOK
    <1> QED BY <1>2, <1>3, <1>4, <1>5 DEF FilesOK

\* disk_writer::remove: it finds the pages q, and the pages fp are being flushed.
LEMMA DropFile ==
    ASSUME FilesOK, NEW wr \in Writers, File[wr].cache_id # 0,
           NEW fp \in Seq(Pages), NEW q \in Seq(Pages), Pending[wr] = fp \o q,
           File' = [File EXCEPT ![wr] = ClosedFile], Pending' = [Pending EXCEPT ![wr] = <<>>],
           lost' = lost \cup ToSet(fp),
           cache' = [cache EXCEPT !.free = @ \cup ToSet(q)],
           disk_free' = disk_free \cup DiskPagesOf(File[wr].extents),
           m_dirty_pages' = m_dirty_pages - Len(q),
           stray \subseteq stray', \A w \in stray' \ stray : \E p, v : w = <<p, v>>,
           UNCHANGED <<memory, disk, committed, next_cache_id>>
    PROVE  FilesOK'
    <1> DEFINE R == ToSet(q)
    <1>0. IdsOK /\ PendingOK /\ PagesOK /\ CachedOK /\ DiskOK /\ CacheOK(Keys, cache)
        BY DEF FilesOK, CachedOK
    <1>1. /\ IdsOK' /\ PendingOK'
          /\ File'[wr] = ClosedFile /\ \A x \in Writers : x # wr => File'[x] = File[x]
          /\ \A h \in Files' : h.extents = <<>> \/ (h \in Files /\ h.cache_id # File[wr].cache_id)
        <2>0. {} \in SUBSET {File[wr]} /\ committed' = committed \cup {}
            OBVIOUS
        <2>1. PICK c \in SUBSET {File[wr]} : c = {} /\ committed' = committed \cup c
            BY <2>0, Zenon
        <2>2. /\ IdsOK' /\ PendingOK'
              /\ File'[wr] = ClosedFile /\ \A x \in Writers : x # wr => File'[x] = File[x]
              /\ Pending'[wr] = <<>> /\ \A x \in Writers : x # wr => Pending'[x] = Pending[x]
              /\ \A h \in Files' :
                    h.extents = <<>> \/ (h \in Files /\ (h.cache_id # File[wr].cache_id \/ h \in c))
            BY <1>0, <2>1, CloseFile
        <2> QED BY <2>1, <2>2
    <1>3. /\ Cardinality(Dirty) = Cardinality(Dirty') + Len(q) /\ Cardinality(Dirty') \in Nat
          /\ Dirty' = Dirty \ R /\ R \subseteq Dirty
          /\ \A x \in Writers : ToSet(Pending'[x]) \cap lost' = {}
        BY <1>0, DirtyDrops
    <1>4. R \subseteq Pages /\ R \cap Owned(cache) = {}
        BY <1>0, <1>3 DEF PagesOK
    <1> HIDE DEF R
    <1>5. CacheOK(Keys, cache') /\ cache'.item = cache.item /\ Owned(cache') = Owned(cache) \cup R
        <2> DEFINE F == cache.free \cup R
        <2>1. /\ DOMAIN cache' = DOMAIN cache /\ cache'.window = cache.window /\ cache'.a1 = cache.a1
              /\ cache'.a2 = cache.a2 /\ cache'.item = cache.item /\ cache'.free = F
            BY <1>0 DEF CacheOK, ListFields, R
        <2>2. F \subseteq Pages /\ F \cap Mapped(cache) = {}
            <3>1. cache.free \subseteq Pages /\ cache.free \cap Mapped(cache) = {}
                BY <1>0 DEF CacheOK, PagesMatchMap, Mapped
            <3> QED BY <1>4, <3>1 DEF Owned
        <2>3. cache'.free = cache.free \cup R
            BY <2>1
        <2> HIDE DEF F
        <2>4. CacheOK(Keys, cache') /\ Mapped(cache') = Mapped(cache)
            <3> SUFFICES ASSUME NEW d, d = cache' PROVE CacheOK(Keys, d) /\ Mapped(d) = Mapped(cache)
                OBVIOUS
            <3>1. /\ DOMAIN d = DOMAIN cache /\ d.window = cache.window /\ d.a1 = cache.a1
                  /\ d.a2 = cache.a2 /\ d.item = cache.item /\ d.free = F
                BY <2>1
            <3>2. CacheOK(Keys, cache)
                BY <1>0
            <3> QED BY ONLY <2>2, <3>1, <3>2, CacheFields
        <2> QED BY <2>1, <2>3, <2>4 DEF Owned
    <1>6. PagesOK'
        <2>1. m_dirty_pages' = Cardinality(Dirty')
            <3>1. Len(q) \in Nat
                BY LenProperties
            <3> QED BY <1>0, <1>3, <3>1 DEF PagesOK
        <2>2. Dirty' \cap Owned(cache') = {} /\ Dirty' \cup Owned(cache') = Pages
            BY <1>0, <1>3, <1>5 DEF PagesOK
        <2> QED BY <1>3, <2>1, <2>2 DEF PagesOK
    <1>7. CachedOK'
        BY <1>0, <1>1, <1>5, CloseCached
    <1>8. DiskOK'
        <2>1. DiskHas(Files, disk_free, disk, stray) /\ Files \in SUBSET FileType /\ File[wr] \in Files
            BY <1>0, FilesTyped DEF DiskOK
        <2>2. \A p \in DiskPages \ DiskPagesOf(File[wr].extents) : disk[p] = disk[p]
            OBVIOUS
        <2>3. DiskHas(Files', disk_free', disk, stray')
            BY <1>1, <2>1, <2>2, DiskDrops
        <2>4. \A w \in stray' : \E p, v : w = <<p, v>>
            BY <1>0 DEF DiskOK
        <2> QED BY <1>0, <2>3, <2>4 DEF DiskOK
    <1> QED BY <1>1, <1>6, <1>7, <1>8 DEF FilesOK

\* A flush fails.
LEMMA FailFile ==
    ASSUME FilesOK, NEW wr \in Writers, File[wr].cache_id # 0,
           File' = [File EXCEPT ![wr] = ClosedFile], Pending' = [Pending EXCEPT ![wr] = <<>>],
           lost' = lost \cup ToSet(Pending[wr]),
           disk_free' = disk_free \cup DiskPagesOf(File[wr].extents),
           \A p \in DiskPages \ DiskPagesOf(File[wr].extents) : disk'[p] = disk[p],
           DOMAIN disk' = DiskPages,
           UNCHANGED <<cache, memory, m_dirty_pages, committed, next_cache_id, stray>>
    PROVE  FilesOK'
    <1>0. IdsOK /\ PendingOK /\ PagesOK /\ CachedOK /\ DiskOK /\ CacheOK(Keys, cache)
        BY DEF FilesOK, CachedOK
    <1>1. /\ IdsOK' /\ PendingOK'
          /\ File'[wr] = ClosedFile /\ \A x \in Writers : x # wr => File'[x] = File[x]
          /\ Pending'[wr] = <<>> /\ \A x \in Writers : x # wr => Pending'[x] = Pending[x]
          /\ \A h \in Files' : h.extents = <<>> \/ (h \in Files /\ h.cache_id # File[wr].cache_id)
        <2>0. {} \in SUBSET {File[wr]} /\ committed' = committed \cup {}
            OBVIOUS
        <2>1. PICK c \in SUBSET {File[wr]} : c = {} /\ committed' = committed \cup c
            BY <2>0, Zenon
        <2>2. /\ IdsOK' /\ PendingOK'
              /\ File'[wr] = ClosedFile /\ \A x \in Writers : x # wr => File'[x] = File[x]
              /\ Pending'[wr] = <<>> /\ \A x \in Writers : x # wr => Pending'[x] = Pending[x]
              /\ \A h \in Files' :
                    h.extents = <<>> \/ (h \in Files /\ (h.cache_id # File[wr].cache_id \/ h \in c))
            BY <1>0, <2>1, CloseFile
        <2> QED BY <2>1, <2>2
    <1>2. ToSet(<<>>) = {}
        BY ShortSeqs
    <1>3. PagesOK'
        <2>1. \A x \in Writers : x # wr => ToSet(Pending[x]) \cap ToSet(Pending[wr]) = {}
            BY <1>0, PendingApart
        <2>2. \A x \in Writers : ToSet(Pending'[x]) \cap lost' = {}
            BY <1>0, <1>1, <1>2, <2>1 DEF PagesOK
        <2>3. \A p : p \in Dirty' <=> p \in lost' \/ \E x \in Writers : p \in ToSet(Pending'[x])
            BY DEF Dirty
        <2>4. \A p : p \in Dirty <=> p \in lost \/ \E x \in Writers : p \in ToSet(Pending[x])
            BY DEF Dirty
        <2>5. Dirty' = Dirty
            <3>1. ASSUME NEW p \in Dirty' PROVE p \in Dirty
                BY <1>1, <1>2, <2>3, <2>4
            <3>2. ASSUME NEW p \in Dirty PROVE p \in Dirty'
                <4>1. CASE p \in lost
                    BY <2>3, <4>1
                <4>2. ASSUME NEW x \in Writers, p \in ToSet(Pending[x]) PROVE p \in Dirty'
                    BY <1>1, <2>3, <4>2
                <4> QED BY <2>4, <4>1, <4>2
            <3> QED BY <3>1, <3>2
        <2> QED BY <1>0, <2>2, <2>5 DEF PagesOK
    <1>4. CachedOK'
        BY <1>0, <1>1, CloseCached
    <1>5. DiskOK'
        <2>1. DiskHas(Files, disk_free, disk, stray) /\ Files \in SUBSET FileType /\ File[wr] \in Files
            BY <1>0, FilesTyped DEF DiskOK
        <2>2. DiskHas(Files', disk_free', disk', stray)
            BY <1>1, <2>1, DiskDrops
        <2> QED BY <1>0, <2>2 DEF DiskOK
    <1> QED BY <1>1, <1>3, <1>4, <1>5 DEF FilesOK

\* file_reader::unlink.
LEMMA UnlinkFile ==
    ASSUME FilesOK, NEW f \in committed, committed' = committed \ {f},
           disk_free' = disk_free \cup DiskPagesOf(f.extents), File' = File, Pending' = Pending,
           UNCHANGED <<cache, memory, m_dirty_pages, disk, next_cache_id, lost, stray>>
    PROVE  FilesOK'
    <1>0. IdsOK /\ PendingOK /\ PagesOK /\ CachedOK /\ DiskOK
        BY DEF FilesOK
    <1>1. IdsOK'
        BY <1>0 DEF IdsOK
    <1>2. PendingOK' /\ PagesOK' /\ CachedOK'
        <2>1. PendingOK'
            BY <1>0 DEF PendingOK
        <2>2. PagesOK'
            BY <1>0 DEF PagesOK, Dirty
        <2>3. CachedOK'
            BY <1>0 DEF CachedOK
        <2> QED BY <2>1, <2>2, <2>3
    <1>3. \A h \in Files' : h \in Files /\ h.cache_id # f.cache_id
        BY <1>0 DEF Files, IdsOK
    <1>4. DiskOK'
        <2>1. DiskHas(Files, disk_free, disk, stray) /\ Files \in SUBSET FileType /\ f \in Files
            BY <1>0, FilesTyped DEF DiskOK, Files
        <2>2. \A p \in DiskPages \ DiskPagesOf(f.extents) : disk[p] = disk[p]
            OBVIOUS
        <2>3. DiskHas(Files', disk_free', disk, stray)
            BY <1>3, <2>1, <2>2, DiskDrops
        <2> QED BY <1>0, <2>3 DEF DiskOK
    <1> QED BY <1>1, <1>2, <1>4 DEF FilesOK

\* A write for a dropped file comes to the disk.
LEMMA StrayLandsStep ==
    ASSUME StatesOK, FilesOK, StrayLands
    PROVE  StatesOK' /\ FilesOK'
    <1>1. UNCHANGED <<cache, memory, m_dirty_pages, state, m_latch, flushing, owner, disk_free,
                      committed, next_cache_id, lost, stray>>
        BY DEF StrayLands
    <1>2. StatesOK' /\ File' = File /\ Pending' = Pending
        BY <1>1 DEF StatesOK, File, Pending
    <1>3. IdsOK /\ PendingOK /\ PagesOK /\ CachedOK /\ DiskOK
        BY DEF FilesOK
    <1>4. IdsOK' /\ Files' = Files
        BY <1>1, <1>2, <1>3 DEF IdsOK, Files
    <1>5. PendingOK'
        BY <1>1, <1>2, <1>3 DEF PendingOK
    <1>6. PagesOK'
        BY <1>1, <1>2, <1>3 DEF PagesOK, Dirty
    <1>7. CachedOK'
        BY <1>1, <1>2, <1>3 DEF CachedOK
    <1>8. DiskOK'
        <2>1. PICK w \in stray : disk' = [disk EXCEPT ![w[1]] = w[2]]
            BY DEF StrayLands
        <2>2. PICK q, v : w = <<q, v>>
            BY <1>3 DEF DiskOK
        <2>3. disk' = [disk EXCEPT ![q] = v]
            BY <2>1, <2>2
        <2>4. DiskHas(Files, disk_free, disk', stray)
            BY <1>3, <2>2, <2>3, DiskStrays DEF DiskOK
        <2> QED BY <1>1, <1>3, <1>4, <2>3, <2>4 DEF DiskOK
    <1> QED BY <1>2, <1>4, <1>5, <1>6, <1>7, <1>8 DEF FilesOK

-----------------------------------------------------------------------------
(* What the actions do to the states. *)

\* Nothing happens to the files of the other writers.
Elsewhere(wr) ==
    \A x \in Writers : x # wr => /\ state'[x] = state[x] /\ flushing'[x] = flushing[x]
                                 /\ m_latch'[x] = m_latch[x] /\ Woken(x)

LEMMA WokenOK ==
    ASSUME NEW x, NEW s, NEW f, NEW l, StateOK(s, f, owner[x], l), Woken(x)
    PROVE  StateOK(s, f, owner'[x], l)
    BY DEF StateOK, Woken, Signalled

\* The file of one writer changes.
LEMMA StatesStep ==
    ASSUME StatesOK, NEW wr \in Writers, DOMAIN state' = Writers, DOMAIN flushing' = Writers,
           Elsewhere(wr), NEW r, NEW h, state'[wr] = r, flushing'[wr] = h,
           StateOK(r, h, owner'[wr], m_latch'[wr])
    PROVE  /\ StatesOK'
           /\ File' = [File EXCEPT ![wr] = FileOf(r, h)]
           /\ Pending' = [Pending EXCEPT ![wr] = PendingOf(r, h)]
    <1>1. \A x \in Writers : StateOK(state'[x], flushing'[x], owner'[x], m_latch'[x])
        <2> SUFFICES ASSUME NEW x \in Writers, x # wr
                     PROVE  StateOK(state'[x], flushing'[x], owner'[x], m_latch'[x])
            OBVIOUS
        <2>1. /\ state'[x] = state[x] /\ flushing'[x] = flushing[x]
              /\ m_latch'[x] = m_latch[x] /\ Woken(x)
            BY DEF Elsewhere
        <2>2. StateOK(state[x], flushing[x], owner[x], m_latch[x])
            BY DEF StatesOK
        <2>3. StateOK(state[x], flushing[x], owner'[x], m_latch[x])
            BY <2>1, <2>2, WokenOK
        <2> QED BY <2>1, <2>3
    <1>2. \A x \in Writers : x # wr => state'[x] = state[x] /\ flushing'[x] = flushing[x]
        BY DEF Elsewhere
    <1>3. File' = [File EXCEPT ![wr] = FileOf(r, h)]
        BY <1>2 DEF File
    <1>4. Pending' = [Pending EXCEPT ![wr] = PendingOf(r, h)]
        BY <1>2 DEF Pending
    <1> QED BY <1>1, <1>3, <1>4 DEF StatesOK

\* What is known of the state of a writer.
LEMMA StateFacts ==
    ASSUME StatesOK, NEW wr \in Writers, NEW s, s = state[wr], NEW f, f = flushing[wr]
    PROVE  /\ StateOK(s, f, owner[wr], m_latch[wr])
           /\ s \in StateType /\ f \in FlushingType
           /\ s.cache_id \in Nat /\ s.size \in Nat /\ s.extents \in Seq(Extent)
           /\ s.cached_pages \in Seq(Pages) /\ f.pages \in Seq(Pages) /\ f.allocated \in BOOLEAN
           /\ File[wr] = FileOf(s, f) /\ File[wr].cache_id = s.cache_id
           /\ File[wr].size = FlushedOf(s, f) /\ File[wr].extents = s.extents
           /\ Pending[wr] = PendingOf(s, f) /\ FlushedOf(s, f) \in Nat
           /\ m_latch[wr] = "free" => f.pages = <<>> /\ ~f.allocated
    <1>1. StateOK(s, f, owner[wr], m_latch[wr])
        BY DEF StatesOK
    <1>2. s \in StateType /\ f \in FlushingType
        BY <1>1 DEF StateOK
    <1>3. /\ s.cache_id \in Nat /\ s.size \in Nat /\ s.extents \in Seq(Extent)
          /\ s.cached_pages \in Seq(Pages) /\ f.pages \in Seq(Pages) /\ f.allocated \in BOOLEAN
        BY <1>2 DEF StateType, FlushingType
    <1>4. File[wr] = FileOf(s, f) /\ Pending[wr] = PendingOf(s, f)
        BY DEF File, Pending
    <1>5. FileOf(s, f).cache_id = s.cache_id /\ FileOf(s, f).size = FlushedOf(s, f) /\ FileOf(s, f).extents = s.extents
        BY DEF FileOf
    <1>6. FlushedOf(s, f) \in Nat
        BY <1>1, <1>2, PendingSeq DEF StateOK
    <1>7. m_latch[wr] = "free" => f.pages = <<>> /\ ~f.allocated
        BY <1>1 DEF StateOK
    <1> QED BY <1>1, <1>2, <1>3, <1>4, <1>5, <1>6, <1>7

\* A view of a writer's file that stays.
LEMMA SameView ==
    ASSUME StatesOK, FilesOK, NEW wr \in Writers,
           File' = [File EXCEPT ![wr] = File[wr]], Pending' = [Pending EXCEPT ![wr] = Pending[wr]],
           UNCHANGED <<cache, memory, m_dirty_pages, disk, disk_free, committed, next_cache_id, lost, stray>>
    PROVE  FilesOK'
    <1>1. File' = File /\ Pending' = Pending
        BY DEF FilesOK, IdsOK, PendingOK
    <1> QED BY <1>1, FilesStay

\* Steps of an owner that leave its file alone.
LEMMA OwnerGoes ==
    ASSUME StatesOK, FilesOK, NEW wr \in Writers, Elsewhere(wr),
           StateOK(state[wr], flushing[wr], owner'[wr], m_latch[wr]),
           UNCHANGED <<state, flushing, m_latch, cache, memory, m_dirty_pages, disk, disk_free,
                       committed, next_cache_id, lost, stray>>
    PROVE  StatesOK' /\ FilesOK'
    <1> DEFINE s == state[wr]
               f == flushing[wr]
    <1>1. File[wr] = FileOf(s, f) /\ Pending[wr] = PendingOf(s, f)
        BY StateFacts
    <1>2. DOMAIN state' = Writers /\ DOMAIN flushing' = Writers /\ state'[wr] = s /\ flushing'[wr] = f
        BY DEF StatesOK
    <1>3. StateOK(s, f, owner'[wr], m_latch'[wr])
        OBVIOUS
    <1> HIDE DEF s, f
    <1>4. /\ StatesOK' /\ File' = [File EXCEPT ![wr] = FileOf(s, f)]
          /\ Pending' = [Pending EXCEPT ![wr] = PendingOf(s, f)]
        BY <1>2, <1>3, StatesStep
    <1> QED BY <1>1, <1>4, SameView

LEMMA OwnerOnly ==
    ASSUME FlushInv, StatesOK, FilesOK, NEW wr \in Writers,
           AwaitPage(wr) \/ RunAgain(wr) \/ AwaitFlusher(wr) \/ NothingToFlush(wr)
    PROVE  StatesOK' /\ FilesOK'
    <1>0. owner \in [Writers -> OwnerLabels] /\ StateOK(state[wr], flushing[wr], owner[wr], m_latch[wr])
        BY DEF FlushInv, FlushTypes, StatesOK
    <1>1. PICK to \in {"awaits page", "idle", "awaits flusher", "flushed"} :
             /\ owner' = [owner EXCEPT ![wr] = to]
             /\ owner[wr] \in {"idle", "signalled", "yields", "flushes", "latch free"}
             /\ state[wr].mem_page = NoPage \/ owner[wr] # "idle"
        BY DEF AwaitPage, RunAgain, AwaitFlusher, NothingToFlush, InFlush, MayFlush
    <1>2. UNCHANGED <<state, flushing, m_latch, cache, memory, m_dirty_pages, disk, disk_free,
                      committed, next_cache_id, lost, stray>>
        BY DEF AwaitPage, RunAgain, AwaitFlusher, NothingToFlush
    <1>3. owner'[wr] = to /\ \A x \in Writers : x # wr => owner'[x] = owner[x]
        BY <1>0, <1>1
    <1>4. StateOK(state[wr], flushing[wr], owner'[wr], m_latch[wr])
        BY <1>0, <1>1, <1>3 DEF StateOK
    <1>5. Elsewhere(wr)
        BY <1>2, <1>3 DEF Elsewhere, Woken, Signalled
    <1> QED BY <1>2, <1>4, <1>5, OwnerGoes

\* disk_writer::write_page.
LEMMA PushFile ==
    ASSUME FlushInv, StatesOK, FilesOK, NEW wr \in Writers, WritePage(wr) \/ FlushLast(wr)
    PROVE  StatesOK' /\ FilesOK'
    <1> DEFINE s == state[wr]
               f == flushing[wr]
               r1 == [s EXCEPT !.cached_pages = Append(s.cached_pages, s.mem_page)]
               r == [r1 EXCEPT !.mem_page = NoPage]
    <1>0. owner \in [Writers -> OwnerLabels] /\ DOMAIN state = Writers /\ DOMAIN flushing = Writers
        BY DEF FlushInv, FlushTypes
    <1>1. PICK to \in {"yields", "flushes"} :
             /\ owner' = [owner EXCEPT ![wr] = to] /\ owner[wr] = "idle" /\ s.mem_page # NoPage
             /\ state' = [state EXCEPT ![wr] = r]
        BY DEF WritePage, FlushLast, PushPage
    <1>2. UNCHANGED <<flushing, m_latch, cache, memory, m_dirty_pages, disk, disk_free,
                      committed, next_cache_id, lost, stray>>
        BY DEF WritePage, FlushLast
    <1>3. /\ StateOK(s, f, owner[wr], m_latch[wr]) /\ s \in StateType /\ f \in FlushingType
          /\ s.cached_pages \in Seq(Pages)
          /\ File[wr] = FileOf(s, f) /\ Pending[wr] = PendingOf(s, f)
        BY StateFacts
    <1>4. owner'[wr] = to /\ \A x \in Writers : x # wr => owner'[x] = owner[x]
        BY <1>0, <1>1
    <1>5. /\ r.cached_pages = Append(s.cached_pages, s.mem_page) /\ r.mem_page = NoPage
          /\ r.cache_id = s.cache_id /\ r.size = s.size /\ r.extents = s.extents
        BY <1>3 DEF StateType
    <1>6. r \in StateType
        <2>1. s.mem_page \in Pages
            BY <1>1, <1>3 DEF StateType
        <2>2. Append(s.cached_pages, s.mem_page) \in Seq(Pages)
            BY <1>3, <2>1, AppendProperties
        <2>3. r1 \in StateType
            BY <1>3, <2>2 DEF StateType
        <2> HIDE DEF r1
        <2> QED BY <2>3 DEF StateType
    <1>7. DOMAIN state' = Writers /\ DOMAIN flushing' = Writers /\ state'[wr] = r /\ flushing'[wr] = f
        BY <1>0, <1>1, <1>2
    <1>8. Elsewhere(wr)
        BY <1>0, <1>1, <1>2, <1>4 DEF Elsewhere, Woken, Signalled
    <1> HIDE DEF s, f, r1, r
    <1>9. PendingOf(r, f) = PendingOf(s, f) /\ FileOf(r, f) = FileOf(s, f)
        BY <1>1, <1>3, <1>5, PushedPending
    <1>10. FlushedOf(r, f) = FlushedOf(s, f)
        BY <1>5 DEF FlushedOf
    <1>11. StateOK(r, f, owner'[wr], m_latch'[wr])
        BY <1>1, <1>2, <1>3, <1>4, <1>5, <1>6, <1>9, <1>10 DEF StateOK
    <1>12. /\ StatesOK' /\ File' = [File EXCEPT ![wr] = FileOf(r, f)]
           /\ Pending' = [Pending EXCEPT ![wr] = PendingOf(r, f)]
        BY <1>7, <1>8, <1>11, StatesStep
    <1> QED BY <1>2, <1>3, <1>9, <1>12, SameView

\* disk_writer::allocate.
LEMMA OpenStep ==
    ASSUME FlushInv, StatesOK, FilesOK, NEW wr \in Writers, Open(wr)
    PROVE  StatesOK' /\ FilesOK'
    <1> DEFINE f == flushing[wr]
               r == [NoState EXCEPT !.cache_id = next_cache_id]
               g == [cache_id |-> next_cache_id, size |-> 0, extents |-> <<>>]
    <1>1. /\ StateOK(state[wr], f, owner[wr], m_latch[wr]) /\ f \in FlushingType
          /\ File[wr].cache_id = state[wr].cache_id /\ Pending[wr] = PendingOf(state[wr], f)
          /\ m_latch[wr] = "free" => f.pages = <<>> /\ ~f.allocated
        BY StateFacts
    <1>2. owner \in [Writers -> OwnerLabels] /\ DOMAIN state = Writers /\ DOMAIN flushing = Writers
        BY DEF FlushInv, FlushTypes
    <1>3. m_latch[wr] = "free"
        BY DEF FlushInv, FlushTypes, LatchHolders, Open
    <1>4. state[wr] = NoState /\ owner[wr] = "closed"
        BY <1>1 DEF StateOK, Open
    <1>5. /\ r.cached_pages = <<>> /\ r.mem_page = NoPage /\ r.cache_id = next_cache_id
          /\ r.size = 0 /\ r.extents = <<>>
          /\ NoState.cached_pages = <<>> /\ NoState.mem_page = NoPage /\ NoState.cache_id = 0
        BY DEF NoState
    <1>6. next_cache_id \in Nat \ {0}
        BY DEF FilesOK, IdsOK
    <1>7. r \in StateType
        <2>1. NoState \in StateType
            <3>1. <<>> \in Seq(Pages) /\ <<>> \in Seq(Extent)
                BY EmptySeq
            <3> QED BY <3>1 DEF StateType, NoState
        <2> QED BY <1>6, <2>1 DEF StateType
    <1>8. /\ state' = [state EXCEPT ![wr] = r] /\ owner' = [owner EXCEPT ![wr] = "idle"]
          /\ next_cache_id' = next_cache_id + 1
          /\ UNCHANGED <<cache, memory, m_dirty_pages, m_latch, flushing, disk, disk_free, committed, lost, stray>>
        BY DEF Open
    <1>9. DOMAIN state' = Writers /\ DOMAIN flushing' = Writers /\ state'[wr] = r /\ flushing'[wr] = f
        BY <1>2, <1>8
    <1>10. owner'[wr] = "idle" /\ m_latch'[wr] = "free"
        BY <1>2, <1>3, <1>8
    <1>11. Elsewhere(wr)
        BY <1>2, <1>8 DEF Elsewhere, Woken, Signalled
    <1> HIDE DEF r, f
    <1>12. PendingOf(r, f) = Pending[wr] /\ PendingOf(r, f) = <<>>
        <2>1. PendingOf(r, f) = Pending[wr]
            BY <1>1, <1>4, <1>5 DEF PendingOf, MemPage
        <2>2. File[wr].cache_id = 0
            BY <1>1, <1>4, <1>5
        <2> QED BY <2>1, <2>2 DEF FilesOK, PendingOK
    <1>13. FlushedOf(r, f) = 0
        <2>1. PagesUpTo(<<>>, 0) = 0 /\ Len(<<>>) = 0
            BY PagesUpToStep, EmptySeq
        <2> QED BY <1>1, <1>3, <1>5, <2>1 DEF FlushedOf, SizeOf
    <1>14. FileOf(r, f) = g
        BY <1>5, <1>13 DEF FileOf
    <1>15. StateOK(r, f, owner'[wr], m_latch'[wr])
        <2>1. Len(<<>>) = 0
            OBVIOUS
        <2> QED BY <1>1, <1>3, <1>5, <1>6, <1>7, <1>10, <1>12, <1>13, <2>1 DEF StateOK
    <1>16. /\ StatesOK' /\ File' = [File EXCEPT ![wr] = FileOf(r, f)]
           /\ Pending' = [Pending EXCEPT ![wr] = PendingOf(r, f)]
        BY <1>9, <1>11, <1>15, StatesStep
    <1>17. Pending' = Pending
        BY <1>12, <1>16 DEF FilesOK, PendingOK
    <1>18. File[wr].cache_id = 0
        BY <1>1, <1>4, <1>5
    <1> QED BY <1>8, <1>14, <1>16, <1>17, <1>18, OpenFile

\* disk_writer::allocate_page.
LEMMA AllocatePageStep ==
    ASSUME FlushInv, StatesOK, FilesOK, NEW wr \in Writers, AllocatePage(wr)
    PROVE  StatesOK' /\ FilesOK'
    <1> DEFINE s == state[wr]
               f == flushing[wr]
    <1>1. PICK a \in CacheAllocate(cache) :
             /\ cache' = a.cache
             /\ memory' = [memory EXCEPT ![a.page] = <<s.cache_id, s.size>>]
             /\ state' = [state EXCEPT ![wr] = [[s EXCEPT !.mem_page = a.page] EXCEPT !.size = s.size + 1]]
        BY DEF AllocatePage
    <1> DEFINE r1 == [s EXCEPT !.mem_page = a.page]
               r == [r1 EXCEPT !.size = s.size + 1]
    <1>2. /\ StateOK(s, f, owner[wr], m_latch[wr]) /\ s \in StateType /\ f \in FlushingType
          /\ s.size \in Nat /\ File[wr] = FileOf(s, f) /\ Pending[wr] = PendingOf(s, f)
          /\ File[wr].cache_id = s.cache_id /\ File[wr].size = FlushedOf(s, f) /\ FlushedOf(s, f) \in Nat
        BY StateFacts
    <1>3. owner \in [Writers -> OwnerLabels] /\ DOMAIN state = Writers /\ DOMAIN flushing = Writers
        BY DEF FlushInv, FlushTypes
    <1>4. /\ owner[wr] \in {"idle", "signalled"} /\ s.mem_page = NoPage
          /\ owner' = [owner EXCEPT ![wr] = "idle"] /\ m_dirty_pages' = m_dirty_pages + 1
          /\ UNCHANGED <<m_latch, flushing, disk, disk_free, committed, next_cache_id, lost, stray>>
        BY DEF AllocatePage
    <1>5. a.page \in Pages /\ a.page # NoPage
        <2>1. CacheOK(Keys, cache)
            BY DEF FilesOK, CachedOK
        <2>2. a.page \in Pages
            BY <2>1, AllocateOK
        <2> QED BY <2>2, PagesAssumption DEF NoPage
    <1>6. /\ r.cached_pages = s.cached_pages /\ r.mem_page = a.page /\ r.cache_id = s.cache_id
          /\ r.extents = s.extents /\ r.size = s.size + 1
        BY <1>2 DEF StateType
    <1>7. r \in StateType
        <2>1. r1 \in StateType
            BY <1>2, <1>5 DEF StateType
        <2> HIDE DEF r1
        <2>2. s.size + 1 \in Nat
            BY <1>2
        <2> QED BY <2>1, <2>2 DEF StateType
    <1>8. /\ DOMAIN state' = Writers /\ DOMAIN flushing' = Writers /\ state'[wr] = r /\ flushing'[wr] = f
          /\ owner'[wr] = "idle" /\ m_latch'[wr] = m_latch[wr]
        BY <1>1, <1>3, <1>4
    <1>9. Elsewhere(wr)
        BY <1>1, <1>3, <1>4 DEF Elsewhere, Woken, Signalled
    <1> HIDE DEF s, f, r, r1
    <1>10. PendingOf(r, f) = Append(PendingOf(s, f), a.page) /\ FileOf(r, f) = FileOf(s, f)
        BY <1>2, <1>4, <1>5, <1>6, GrownPending
    <1>11. FlushedOf(r, f) = FlushedOf(s, f)
        BY <1>6 DEF FlushedOf
    <1>12. /\ Len(PendingOf(r, f)) = Len(PendingOf(s, f)) + 1 /\ Len(PendingOf(s, f)) \in Nat
        <2>1. PendingOf(s, f) \in Seq(Pages)
            BY <1>2, PendingSeq
        <2> QED BY <1>5, <1>10, <2>1, AppendProperties, LenProperties
    <1>13. StateOK(r, f, owner'[wr], m_latch'[wr])
        <2>1. r.size = FlushedOf(r, f) + Len(PendingOf(r, f))
            BY <1>2, <1>6, <1>11, <1>12 DEF StateOK
        <2>2. owner[wr] # "closed"
            BY <1>4
        <2> QED BY <1>2, <1>6, <1>7, <1>8, <2>1, <2>2 DEF StateOK
    <1>14. /\ StatesOK' /\ File' = [File EXCEPT ![wr] = FileOf(r, f)]
           /\ Pending' = [Pending EXCEPT ![wr] = PendingOf(r, f)]
        BY <1>8, <1>9, <1>13, StatesStep
    <1>15. File' = File
        BY <1>2, <1>10, <1>14 DEF FilesOK, IdsOK
    <1>16. s.cache_id # 0 /\ s.size = FlushedOf(s, f) + Len(PendingOf(s, f))
        BY <1>2, <1>4 DEF StateOK
    <1>17. memory' = [memory EXCEPT ![a.page] =
                         <<File[wr].cache_id, File[wr].size + Len(Pending[wr])>>]
        BY <1>1, <1>2, <1>16 DEF s
    <1>18. Pending' = [Pending EXCEPT ![wr] = Append(Pending[wr], a.page)]
        BY <1>2, <1>10, <1>14
    <1> QED BY <1>1, <1>2, <1>4, <1>14, <1>15, <1>16, <1>17, <1>18, GrowFile

\* The beginning of flush_pages: y's pages are taken by the owner or by the flush
\* thread, when all is as it was but for the flush that ended before, if any.
LEMMA TakeStep ==
    ASSUME NEW s \in StateType, NEW f \in FlushingType, NEW o, NEW o2, NEW l,
           StateOK(s, f, o, "free"), s.cached_pages # <<>>, l # "free",
           o2 = "closed" <=> o = "closed", s.mem_page # NoPage => o2 = "idle",
           NEW r, r = [s EXCEPT !.cached_pages = <<>>],
           NEW h, h = [pages |-> s.cached_pages, allocated |-> FALSE]
    PROVE  /\ StateOK(r, h, o2, l)
           /\ PendingOf(r, h) = PendingOf(s, f) /\ FileOf(r, h) = FileOf(s, f)
    <1>1. /\ r.cached_pages = <<>> /\ r.mem_page = s.mem_page /\ r.cache_id = s.cache_id
          /\ r.size = s.size /\ r.extents = s.extents
          /\ h.pages = s.cached_pages /\ h.allocated = FALSE
        BY DEF StateType
    <1>2. r \in StateType /\ h \in FlushingType
        <2>1. <<>> \in Seq(Pages)
            BY EmptySeq
        <2> QED BY <2>1 DEF StateType, FlushingType
    <1>3. f.pages = <<>> /\ ~f.allocated
        BY DEF StateOK
    <1>4. PendingOf(r, h) = PendingOf(s, f) /\ FileOf(r, h) = FileOf(s, f)
        BY <1>1, <1>3, TakenPending
    <1>5. FlushedOf(r, h) = FlushedOf(s, f)
        BY <1>1, <1>3 DEF FlushedOf
    <1>6. o # "closed"
        BY DEF StateOK, NoState
    <1>7. StateOK(r, h, o2, l)
        BY <1>1, <1>2, <1>4, <1>5, <1>6 DEF StateOK
    <1> QED BY <1>4, <1>7

LEMMA StartFlushStep ==
    ASSUME FlushInv, StatesOK, FilesOK, NEW wr \in Writers, StartFlush(wr)
    PROVE  StatesOK' /\ FilesOK'
    <1> DEFINE s == state[wr]
               f == flushing[wr]
               r == [s EXCEPT !.cached_pages = <<>>]
               h == [pages |-> s.cached_pages, allocated |-> FALSE]
    <1>1. /\ StateOK(s, f, owner[wr], m_latch[wr]) /\ s \in StateType /\ f \in FlushingType
          /\ File[wr] = FileOf(s, f) /\ Pending[wr] = PendingOf(s, f)
        BY StateFacts
    <1>2. /\ owner \in [Writers -> OwnerLabels] /\ DOMAIN state = Writers /\ DOMAIN flushing = Writers
          /\ m_latch \in [Writers -> {"free", "owner", "flusher"}]
        BY DEF FlushInv, FlushTypes
    <1>3. m_latch[wr] = "free" /\ s.mem_page = NoPage /\ owner[wr] # "closed"
        <2>1. CASE owner[wr] = "latch free"
            BY <1>1, <1>2, <2>1 DEF FlushInv, LatchHolders, StateOK
        <2>2. CASE InFlush(wr) /\ m_latch[wr] = "free"
            BY <1>1, <2>2 DEF InFlush, StateOK
        <2> QED BY <2>1, <2>2 DEF StartFlush, MayFlush
    <1>4. /\ s.cached_pages # <<>> /\ m_latch' = [m_latch EXCEPT ![wr] = "owner"]
          /\ flushing' = [flushing EXCEPT ![wr] = h] /\ state' = [state EXCEPT ![wr] = r]
          /\ owner' = [owner EXCEPT ![wr] = "flushing"]
          /\ UNCHANGED <<cache, memory, m_dirty_pages, disk, disk_free, committed, next_cache_id, lost, stray>>
        BY DEF StartFlush, Latched, TakePages
    <1>5. /\ DOMAIN state' = Writers /\ DOMAIN flushing' = Writers /\ state'[wr] = r /\ flushing'[wr] = h
          /\ owner'[wr] = "flushing" /\ m_latch'[wr] = "owner"
        BY <1>2, <1>4
    <1>6. Elsewhere(wr)
        BY <1>2, <1>4 DEF Elsewhere, Woken, Signalled
    <1>7. r = [s EXCEPT !.cached_pages = <<>>] /\ h = [pages |-> s.cached_pages, allocated |-> FALSE]
        OBVIOUS
    <1> HIDE DEF s, f, r, h
    <1>8. /\ StateOK(r, h, "flushing", "owner")
          /\ PendingOf(r, h) = PendingOf(s, f) /\ FileOf(r, h) = FileOf(s, f)
        BY <1>1, <1>3, <1>4, <1>7, TakeStep
    <1>9. /\ StatesOK' /\ File' = [File EXCEPT ![wr] = FileOf(r, h)]
          /\ Pending' = [Pending EXCEPT ![wr] = PendingOf(r, h)]
        BY <1>5, <1>6, <1>8, StatesStep
    <1> QED BY <1>1, <1>4, <1>8, <1>9, SameView

\* A file that is being flushed is open.
LEMMA FlushedIsOpen ==
    ASSUME FlushInv, StatesOK, NEW wr \in Writers, flushing[wr].pages # <<>> \/ flushing[wr].allocated
    PROVE  /\ m_latch[wr] # "free" /\ owner[wr] # "closed" /\ state[wr].cache_id # 0
           /\ flushing[wr].pages # <<>>
    <1>1. StateOK(state[wr], flushing[wr], owner[wr], m_latch[wr])
        BY DEF StatesOK
    <1>2. m_latch[wr] # "free" /\ flushing[wr].pages # <<>>
        BY <1>1 DEF StateOK
    <1>3. owner[wr] # "closed"
        BY <1>2 DEF FlushInv, FlushTypes, LatchHolders
    <1> QED BY <1>1, <1>2, <1>3 DEF StateOK

\* disk::allocate.
LEMMA AllocateSpaceStep ==
    ASSUME FlushInv, StatesOK, FilesOK, NEW wr \in Writers, AllocateSpace(wr)
    PROVE  StatesOK' /\ FilesOK'
    <1> DEFINE s == state[wr]
               f == flushing[wr]
               runs == {p \in DiskPages : p .. p + Len(f.pages) - 1 \subseteq disk_free}
               x == [page |-> Min(runs), pages |-> Len(f.pages)]
               r == [s EXCEPT !.extents = Append(s.extents, x)]
               h == [f EXCEPT !.allocated = TRUE]
    <1>1. /\ StateOK(s, f, owner[wr], m_latch[wr]) /\ s \in StateType /\ f \in FlushingType
          /\ s.extents \in Seq(Extent) /\ f.pages \in Seq(Pages)
          /\ File[wr] = FileOf(s, f) /\ Pending[wr] = PendingOf(s, f)
          /\ File[wr].cache_id = s.cache_id /\ File[wr].size = FlushedOf(s, f)
          /\ File[wr].extents = s.extents
        BY StateFacts
    <1>2. owner \in [Writers -> OwnerLabels] /\ DOMAIN state = Writers /\ DOMAIN flushing = Writers
        BY DEF FlushInv, FlushTypes
    <1>3. /\ f.pages # <<>> /\ ~f.allocated /\ runs # {}
          /\ disk_free' = disk_free \ (Min(runs) .. Min(runs) + Len(f.pages) - 1)
          /\ state' = [state EXCEPT ![wr] = r]
          /\ flushing' = [flushing EXCEPT ![wr] = h]
          /\ UNCHANGED <<cache, memory, m_dirty_pages, m_latch, owner, disk, committed, next_cache_id, lost, stray>>
        BY DEF AllocateSpace
    <1>4. s.cache_id # 0 /\ m_latch[wr] # "free"
        BY <1>3, FlushedIsOpen
    <1>5. Min(runs) \in runs
        <2>1. runs \subseteq Nat
            BY DiskPagesAssumption
        <2>2. \E y \in runs : \A z \in runs : y <= z
            BY <1>3, <2>1, LeastNatural
        <2> HIDE DEF runs
        <2> QED BY <2>2 DEF Min
    <1>6. /\ Min(runs) \in Nat /\ Min(runs) .. Min(runs) + Len(f.pages) - 1 \subseteq disk_free
        BY <1>5, DiskPagesAssumption
    <1> HIDE DEF runs
    <1>7. x \in Extent /\ x.page = Min(runs) /\ x.pages = Len(f.pages)
        BY <1>1, <1>6, LenProperties DEF Extent
    <1>8. PagesOfExtent(x) \subseteq disk_free /\ disk_free' = disk_free \ PagesOfExtent(x)
        BY <1>3, <1>6, <1>7 DEF PagesOfExtent
    <1>9. /\ r.cached_pages = s.cached_pages /\ r.mem_page = s.mem_page /\ r.cache_id = s.cache_id
          /\ r.size = s.size /\ r.extents = Append(s.extents, x)
        BY <1>1 DEF StateType
    <1>10. h.pages = f.pages /\ h.allocated = TRUE /\ h \in FlushingType
        BY <1>1 DEF FlushingType
    <1> HIDE DEF x
    <1>11. Append(s.extents, x) \in Seq(Extent) /\ Append(s.extents, x) # <<>> /\ Last(Append(s.extents, x)) = x
        BY <1>1, <1>7, AppendExtent
    <1>12. r \in StateType
        BY <1>1, <1>11 DEF StateType
    <1>13. /\ DOMAIN state' = Writers /\ DOMAIN flushing' = Writers /\ state'[wr] = r /\ flushing'[wr] = h
           /\ owner'[wr] = owner[wr] /\ m_latch'[wr] = m_latch[wr]
        BY <1>2, <1>3
    <1>14. Elsewhere(wr)
        BY <1>2, <1>3 DEF Elsewhere, Woken, Signalled
    <1> HIDE DEF s, f, r, h
    <1>15. /\ PendingOf(r, h) = PendingOf(s, f) /\ FlushedOf(r, h) = FlushedOf(s, f)
           /\ FileOf(r, h) = [cache_id |-> s.cache_id, size |-> FlushedOf(s, f),
                              extents |-> Append(s.extents, x)]
        BY <1>1, <1>3, <1>7, <1>9, <1>10, PlacedPending
    <1>16. StateOK(r, h, owner'[wr], m_latch'[wr])
        <2>1. owner[wr] # "closed"
            BY <1>1, <1>4 DEF StateOK
        <2> QED BY <1>1, <1>3, <1>7, <1>9, <1>10, <1>11, <1>12, <1>13, <1>15, <2>1 DEF StateOK
    <1>17. /\ StatesOK' /\ File' = [File EXCEPT ![wr] = FileOf(r, h)]
           /\ Pending' = [Pending EXCEPT ![wr] = PendingOf(r, h)]
        BY <1>13, <1>14, <1>16, StatesStep
    <1>18. Pending' = Pending
        BY <1>1, <1>15, <1>17 DEF FilesOK, PendingOK
    <1>19. File[wr].size = SizeOf(File[wr].extents)
        BY <1>1, <1>3 DEF FlushedOf
    <1>20. File' = [File EXCEPT ![wr] = [cache_id |-> File[wr].cache_id, size |-> File[wr].size,
                                         extents |-> Append(File[wr].extents, x)]]
        BY <1>1, <1>15, <1>17
    <1> QED BY <1>1, <1>3, <1>4, <1>7, <1>8, <1>17, <1>18, <1>19, <1>20, PlaceFile

\* disk::write has returned.
LEMMA WrittenFile ==
    ASSUME FlushInv, StatesOK, FilesOK, NEW wr \in Writers, Written(wr),
           File' = [File EXCEPT ![wr] = FileOf(state[wr], NotFlushing)],
           Pending' = [Pending EXCEPT ![wr] = PendingOf(state[wr], NotFlushing)]
    PROVE  FilesOK'
    <1> DEFINE s == state[wr]
               f == flushing[wr]
               page == Last(s.extents).page
    <1>1. /\ StateOK(s, f, owner[wr], m_latch[wr]) /\ s \in StateType /\ f \in FlushingType
          /\ s.extents \in Seq(Extent) /\ f.pages \in Seq(Pages)
          /\ File[wr] = FileOf(s, f) /\ Pending[wr] = PendingOf(s, f)
          /\ File[wr].cache_id = s.cache_id /\ File[wr].size = FlushedOf(s, f)
          /\ File[wr].extents = s.extents
        BY StateFacts
    <1>2. /\ f.allocated
          /\ disk' = [p \in DiskPages |-> IF p \in page .. page + Len(f.pages) - 1
                                          THEN memory[f.pages[p - page + 1]] ELSE disk[p]]
          /\ cache' \in Added(cache, s.cache_id, PagesUpTo(s.extents, Len(s.extents) - 1), f.pages)
          /\ m_dirty_pages' = m_dirty_pages - Len(f.pages)
          /\ UNCHANGED <<memory, disk_free, committed, next_cache_id, lost, stray>>
        BY DEF Written, FirstPage, Undirtied
    <1>3. s.cache_id # 0
        BY <1>2, FlushedIsOpen
    <1>4. File' = [File EXCEPT ![wr] = FileOf(s, NotFlushing)] /\ Pending' = [Pending EXCEPT ![wr] = PendingOf(s, NotFlushing)]
        OBVIOUS
    <1> HIDE DEF s, f
    <1>5. s.extents # <<>> /\ Last(s.extents).pages = Len(f.pages)
        BY <1>1, <1>2 DEF StateOK
    <1>6. FlushedOf(s, f) = PagesUpTo(s.extents, Len(s.extents) - 1)
        BY <1>2 DEF FlushedOf
    <1>7. /\ PendingOf(s, f) = f.pages \o PendingOf(s, NotFlushing)
          /\ PendingOf(s, NotFlushing) \in Seq(Pages)
          /\ FileOf(s, NotFlushing) = [cache_id |-> s.cache_id, size |-> FlushedOf(s, f) + Len(f.pages),
                                       extents |-> s.extents]
        BY <1>1, <1>2, <1>5, FlushedPending
    <1>s. SUFFICES ASSUME NEW g, g = File[wr] PROVE FilesOK'
        OBVIOUS
    <1>8. /\ g.cache_id # 0 /\ g.extents # <<>> /\ g.size = PagesUpTo(g.extents, Len(g.extents) - 1)
          /\ Last(g.extents).pages = Len(f.pages)
          /\ File' = [File EXCEPT ![wr] = [cache_id |-> g.cache_id, size |-> g.size + Len(f.pages),
                                           extents |-> g.extents]]
          /\ cache' \in Added(cache, g.cache_id, g.size, f.pages)
        BY <1>1, <1>2, <1>3, <1>4, <1>5, <1>6, <1>7, <1>s
    <1>9. WrittenTo(Last(g.extents), f.pages) /\ DOMAIN disk' = DiskPages
        BY <1>1, <1>2, <1>5, <1>s DEF WrittenTo, PagesOfExtent
    <1> DEFINE q == PendingOf(s, NotFlushing)
    <1>10. Pending[wr] = f.pages \o q /\ Pending' = [Pending EXCEPT ![wr] = q] /\ q \in Seq(Pages)
        BY <1>1, <1>4, <1>7
    <1> HIDE DEF q
    <1> QED BY <1>1, <1>2, <1>s, <1>8, <1>9, <1>10, WriteFile

\* The state of a file after its flush.
LEMMA WrittenState ==
    ASSUME NEW s, NEW f, NEW o, NEW l, StateOK(s, f, o, l), f.allocated
    PROVE  /\ s \in StateType /\ f \in FlushingType
           /\ StateOK(s, NotFlushing, o, "free")
    <1>1. s \in StateType /\ f \in FlushingType /\ s.extents # <<>> /\ Last(s.extents).pages = Len(f.pages)
        BY DEF StateOK
    <1>2. /\ PendingOf(s, f) = f.pages \o PendingOf(s, NotFlushing)
          /\ PendingOf(s, NotFlushing) \in Seq(Pages)
          /\ FlushedOf(s, NotFlushing) = FlushedOf(s, f) + Len(f.pages)
        BY <1>1, FlushedPending
    <1>3. FlushedOf(s, f) \in Nat /\ f.pages \in Seq(Pages)
        BY <1>1, PendingSeq
    <1>4. /\ Len(PendingOf(s, f)) = Len(f.pages) + Len(PendingOf(s, NotFlushing))
          /\ Len(f.pages) \in Nat /\ Len(PendingOf(s, NotFlushing)) \in Nat
        BY <1>2, <1>3, ConcatProperties, LenProperties
    <1>5. s.size = FlushedOf(s, NotFlushing) + Len(PendingOf(s, NotFlushing))
        BY <1>2, <1>3, <1>4 DEF StateOK
    <1>6. NotFlushing.pages = <<>> /\ NotFlushing.allocated = FALSE /\ NotFlushing \in FlushingType
        <2>1. <<>> \in Seq(Pages)
            BY EmptySeq
        <2> QED BY <2>1 DEF NotFlushing, FlushingType
    <1> QED BY <1>1, <1>5, <1>6 DEF StateOK

LEMMA OwnerFlushedStep ==
    ASSUME FlushInv, StatesOK, FilesOK, NEW wr \in Writers, OwnerFlushed(wr)
    PROVE  StatesOK' /\ FilesOK'
    <1> DEFINE s == state[wr]
               f == flushing[wr]
    <1>1. StateOK(s, f, owner[wr], m_latch[wr]) /\ f.allocated
        BY DEF StatesOK, OwnerFlushed, Written
    <1>2. owner \in [Writers -> OwnerLabels] /\ DOMAIN state = Writers /\ DOMAIN flushing = Writers
          /\ m_latch \in [Writers -> {"free", "owner", "flusher"}]
        BY DEF FlushInv, FlushTypes
    <1>3. /\ m_latch[wr] = "owner" /\ owner' = [WokenBy(wr) EXCEPT ![wr] = "flushed"]
          /\ m_latch' = [m_latch EXCEPT ![wr] = "free"]
          /\ flushing' = [flushing EXCEPT ![wr] = NotFlushing] /\ state' = state
        BY DEF OwnerFlushed
    <1>4. /\ DOMAIN state' = Writers /\ DOMAIN flushing' = Writers /\ state'[wr] = s
          /\ flushing'[wr] = NotFlushing /\ m_latch'[wr] = "free"
        BY <1>2, <1>3
    <1>5. owner'[wr] = "flushed" /\ \A x \in Writers : x # wr => Woken(x)
        BY <1>3 DEF WokenBy, Woken, Signalled
    <1>6. Elsewhere(wr)
        BY <1>2, <1>3, <1>5 DEF Elsewhere
    <1>7. owner[wr] = "flushing"
        BY <1>3 DEF FlushInv, LatchHolders
    <1>8. state'[wr] = state[wr]
        BY <1>3
    <1> HIDE DEF s, f
    <1>9. StateOK(s, NotFlushing, owner[wr], "free")
        BY <1>1, WrittenState
    <1>10. StateOK(s, NotFlushing, owner'[wr], m_latch'[wr])
        BY <1>4, <1>5, <1>7, <1>9 DEF StateOK
    <1>11. /\ StatesOK' /\ File' = [File EXCEPT ![wr] = FileOf(s, NotFlushing)]
           /\ Pending' = [Pending EXCEPT ![wr] = PendingOf(s, NotFlushing)]
        BY <1>4, <1>6, <1>10, StatesStep
    <1>12. Written(wr)
        BY DEF OwnerFlushed
    <1> QED BY <1>11, <1>12, WrittenFile DEF s

\* The states as the sweep finds them.
SweepOK(latch, fl) == \A x \in Writers : StateOK(state[x], fl[x], owner'[x], latch[x])

LEMMA SweptStates ==
    ASSUME DOMAIN state = Writers, NEW latch, DOMAIN latch = Writers, NEW fl, DOMAIN fl = Writers,
           SweepOK(latch, fl), NEW todo \in Seq(Writers), Sweep(todo, latch, fl)
    PROVE  /\ StatesOK'
           /\ File' = [x \in Writers |-> FileOf(state[x], fl[x])]
           /\ Pending' = [x \in Writers |-> PendingOf(state[x], fl[x])]
    <1>1. CASE m_latch' = latch /\ flushing' = fl /\ state' = state
        BY <1>1 DEF StatesOK, SweepOK, File, Pending
    <1>2. ASSUME NEW y \in Writers, latch[y] = "free", state[y].cached_pages # <<>>,
                 m_latch' = [latch EXCEPT ![y] = "flusher"], flushing' = TakePages(y, fl),
                 state' = [state EXCEPT ![y].cached_pages = <<>>]
          PROVE  /\ StatesOK'
                 /\ File' = [x \in Writers |-> FileOf(state[x], fl[x])]
                 /\ Pending' = [x \in Writers |-> PendingOf(state[x], fl[x])]
        <2> DEFINE s == state[y]
                   f == fl[y]
                   r == [s EXCEPT !.cached_pages = <<>>]
                   h == [pages |-> s.cached_pages, allocated |-> FALSE]
        <2>1. StateOK(s, f, owner'[y], "free")
            BY <1>2 DEF SweepOK
        <2>2. s \in StateType /\ f \in FlushingType
            BY <2>1 DEF StateOK
        <2>3. /\ DOMAIN state' = Writers /\ state'[y] = r /\ \A x \in Writers : x # y => state'[x] = state[x]
              /\ DOMAIN flushing' = Writers /\ flushing'[y] = h /\ \A x \in Writers : x # y => flushing'[x] = fl[x]
              /\ m_latch'[y] = "flusher" /\ \A x \in Writers : x # y => m_latch'[x] = latch[x]
            BY <1>2 DEF TakePages
        <2>4. /\ r = [s EXCEPT !.cached_pages = <<>>] /\ h = [pages |-> s.cached_pages, allocated |-> FALSE]
              /\ s.cached_pages # <<>>
            BY <1>2
        <2>5. s = state[y] /\ f = fl[y]
            OBVIOUS
        <2> HIDE DEF s, f, r, h
        <2>6. s.mem_page # NoPage => owner'[y] = "idle"
            BY <2>1 DEF StateOK
        <2>7. /\ StateOK(r, h, owner'[y], "flusher")
              /\ PendingOf(r, h) = PendingOf(s, f) /\ FileOf(r, h) = FileOf(s, f)
            BY <2>1, <2>2, <2>4, <2>6, TakeStep
        <2>8. \A x \in Writers : StateOK(state'[x], flushing'[x], owner'[x], m_latch'[x])
            <3> SUFFICES ASSUME NEW x \in Writers PROVE StateOK(state'[x], flushing'[x], owner'[x], m_latch'[x])
                OBVIOUS
            <3>1. CASE x = y
                BY <2>3, <2>7, <3>1
            <3>2. CASE x # y
                BY <2>3, <3>2 DEF SweepOK
            <3> QED BY <3>1, <3>2
        <2>9. \A x \in Writers : /\ FileOf(state'[x], flushing'[x]) = FileOf(state[x], fl[x])
                                 /\ PendingOf(state'[x], flushing'[x]) = PendingOf(state[x], fl[x])
            <3> SUFFICES ASSUME NEW x \in Writers
                         PROVE  /\ FileOf(state'[x], flushing'[x]) = FileOf(state[x], fl[x])
                                /\ PendingOf(state'[x], flushing'[x]) = PendingOf(state[x], fl[x])
                OBVIOUS
            <3>1. CASE x = y
                BY <2>3, <2>5, <2>7, <3>1
            <3>2. CASE x # y
                BY <2>3, <3>2
            <3> QED BY <3>1, <3>2
        <2> QED BY <2>3, <2>8, <2>9 DEF StatesOK, File, Pending
    <1>3. Len(todo) \in Nat /\ \A k \in 1 .. Len(todo) : todo[k] \in Writers
        BY LenProperties, ElementOfSeq
    <1>4. \/ flusher' = "off" /\ m_latch' = latch /\ flushing' = fl /\ state' = state
          \/ \E k \in 1 .. Len(todo) :
                /\ latch[todo[k]] = "free" /\ state[todo[k]].cached_pages # <<>>
                /\ flusher' = "busy" /\ m_latch' = [latch EXCEPT ![todo[k]] = "flusher"]
                /\ flushing' = TakePages(todo[k], fl)
                /\ state' = [state EXCEPT ![todo[k]].cached_pages = <<>>]
        BY <1>3, SweepGoes
    <1>5. ASSUME NEW k \in 1 .. Len(todo), latch[todo[k]] = "free", state[todo[k]].cached_pages # <<>>,
                 m_latch' = [latch EXCEPT ![todo[k]] = "flusher"], flushing' = TakePages(todo[k], fl),
                 state' = [state EXCEPT ![todo[k]].cached_pages = <<>>]
          PROVE  /\ StatesOK'
                 /\ File' = [x \in Writers |-> FileOf(state[x], fl[x])]
                 /\ Pending' = [x \in Writers |-> PendingOf(state[x], fl[x])]
        <2> DEFINE y == todo[k]
        <2>1. /\ y \in Writers /\ latch[y] = "free" /\ state[y].cached_pages # <<>>
              /\ m_latch' = [latch EXCEPT ![y] = "flusher"] /\ flushing' = TakePages(y, fl)
              /\ state' = [state EXCEPT ![y].cached_pages = <<>>]
            BY <1>3, <1>5
        <2> HIDE DEF y
        <2> QED BY <1>2, <2>1
    <1> QED BY <1>1, <1>4, <1>5

LEMMA FlusherStartsStep ==
    ASSUME FlushInv, StatesOK, FilesOK, FlusherStarts
    PROVE  StatesOK' /\ FilesOK'
    <1>1. /\ m_states \in Seq(Writers) /\ DOMAIN state = Writers /\ DOMAIN flushing = Writers
          /\ DOMAIN m_latch = Writers
        BY DEF FlushInv, FlushTypes
    <1>2. /\ Sweep(m_states, m_latch, flushing)
          /\ UNCHANGED <<cache, memory, m_dirty_pages, owner, disk, disk_free, committed, next_cache_id, lost, stray>>
        BY DEF FlusherStarts
    <1>3. SweepOK(m_latch, flushing)
        BY <1>2 DEF StatesOK, SweepOK
    <1>4. /\ StatesOK' /\ File' = [x \in Writers |-> FileOf(state[x], flushing[x])]
          /\ Pending' = [x \in Writers |-> PendingOf(state[x], flushing[x])]
        BY <1>1, <1>2, <1>3, SweptStates
    <1>5. File' = File /\ Pending' = Pending
        BY <1>4 DEF File, Pending
    <1> QED BY <1>2, <1>4, <1>5, FilesStay

LEMMA FlusherFlushedStep ==
    ASSUME FlushInv, StatesOK, FilesOK, NEW wr \in Writers, FlusherFlushed(wr)
    PROVE  StatesOK' /\ FilesOK'
    <1> DEFINE todo == SubSeq(m_states, SelectInSeq(m_states, LAMBDA s : s = wr) + 1, Len(m_states))
               latch == [m_latch EXCEPT ![wr] = "free"]
               fl == [flushing EXCEPT ![wr] = NotFlushing]
    <1>1. /\ m_states \in Seq(Writers) /\ DOMAIN state = Writers /\ DOMAIN flushing = Writers
          /\ DOMAIN m_latch = Writers
        BY DEF FlushInv, FlushTypes
    <1>2. /\ m_latch[wr] = "flusher" /\ Written(wr) /\ owner' = WokenBy(wr) /\ Sweep(todo, latch, fl)
        BY DEF FlusherFlushed
    <1>3. todo \in Seq(Writers)
        <2>1. SelectInSeq(m_states, LAMBDA s : s = wr) \in Nat
            <3> DEFINE I == {i \in 1 .. Len(m_states) : m_states[i] = wr}
            <3>1. SelectInSeq(m_states, LAMBDA s : s = wr) = IF I # {} THEN Min(I) ELSE 0
                BY DEF SelectInSeq
            <3>2. CASE I # {}
                <4>1. I \subseteq Nat
                    OBVIOUS
                <4>2. \E x \in I : \A y \in I : x <= y
                    BY <3>2, <4>1, LeastNatural
                <4> HIDE DEF I
                <4>3. Min(I) \in I
                    BY <4>2 DEF Min
                <4> QED BY <3>1, <3>2, <4>1, <4>3
            <3>3. CASE I = {}
                BY <3>1, <3>3
            <3> QED BY <3>2, <3>3
        <2> DEFINE n == SelectInSeq(m_states, LAMBDA s : s = wr)
        <2> HIDE DEF n
        <2>2. n \in Nat
            BY <2>1 DEF n
        <2>3. SubSeq(m_states, n + 1, Len(m_states)) \in Seq(Writers)
            <3>1. \A i \in (n + 1) .. Len(m_states) : m_states[i] \in Writers
                BY <1>1, <2>2
            <3> QED BY <1>1, <2>2, <3>1, SubSeqProperties, LenProperties
        <2> QED BY <2>3 DEF n
    <1>4. /\ DOMAIN latch = Writers /\ DOMAIN fl = Writers /\ latch[wr] = "free" /\ fl[wr] = NotFlushing
          /\ \A x \in Writers : x # wr => latch[x] = m_latch[x] /\ fl[x] = flushing[x]
        BY <1>1
    <1> HIDE DEF todo, latch, fl
    <1>5. \A x \in Writers : Woken(x)
        BY <1>2 DEF WokenBy, Woken, Signalled
    <1>6. StateOK(state[wr], NotFlushing, owner[wr], "free")
        <2>1. StateOK(state[wr], flushing[wr], owner[wr], m_latch[wr]) /\ flushing[wr].allocated
            BY <1>2 DEF StatesOK, Written
        <2> QED BY <2>1, WrittenState
    <1>7. SweepOK(latch, fl)
        <2> SUFFICES ASSUME NEW x \in Writers PROVE StateOK(state[x], fl[x], owner'[x], latch[x])
            BY DEF SweepOK
        <2>1. StateOK(state[x], fl[x], owner[x], latch[x])
            BY <1>4, <1>6 DEF StatesOK
        <2> QED BY <1>5, <2>1, WokenOK
    <1>8. /\ StatesOK' /\ File' = [x \in Writers |-> FileOf(state[x], fl[x])]
          /\ Pending' = [x \in Writers |-> PendingOf(state[x], fl[x])]
        BY <1>1, <1>2, <1>3, <1>4, <1>7, SweptStates
    <1>9. /\ File' = [File EXCEPT ![wr] = FileOf(state[wr], NotFlushing)]
          /\ Pending' = [Pending EXCEPT ![wr] = PendingOf(state[wr], NotFlushing)]
        BY <1>4, <1>8 DEF File, Pending
    <1> QED BY <1>2, <1>8, <1>9, WrittenFile

-----------------------------------------------------------------------------
(* The end of a file. *)

\* What a closed writer has.
LEMMA ClosedView ==
    ASSUME NEW f \in FlushingType, f.pages = <<>>, ~f.allocated
    PROVE  /\ StateOK(NoState, f, "closed", "free")
           /\ FileOf(NoState, f) = ClosedFile /\ PendingOf(NoState, f) = <<>>
    <1>1. /\ NoState.cache_id = 0 /\ NoState.size = 0 /\ NoState.mem_page = NoPage
          /\ NoState.cached_pages = <<>> /\ NoState.extents = <<>>
        BY DEF NoState
    <1>2. NoState \in StateType
        <2>1. <<>> \in Seq(Pages) /\ <<>> \in Seq(Extent)
            BY EmptySeq
        <2> QED BY <2>1 DEF StateType, NoState
    <1>3. FlushedOf(NoState, f) = 0
        <2>1. PagesUpTo(<<>>, 0) = 0 /\ Len(<<>>) = 0
            BY PagesUpToStep, EmptySeq
        <2> QED BY <1>1, <2>1 DEF FlushedOf, SizeOf
    <1>4. PendingOf(NoState, f) = <<>> /\ Len(<<>>) = 0
        <2>1. <<>> \o <<>> = <<>>
            BY EmptySeq, ConcatEmptySeq
        <2> QED BY <1>1, <2>1, EmptySeq DEF PendingOf, MemPage
    <1>5. FileOf(NoState, f) = ClosedFile
        BY <1>1, <1>3 DEF FileOf, ClosedFile
    <1>6. StateOK(NoState, f, "closed", "free")
        BY <1>1, <1>2, <1>3, <1>4 DEF StateOK
    <1> QED BY <1>4, <1>5, <1>6

\* What happens to the states when a file is closed.
LEMMA CloseStates ==
    ASSUME FlushInv, StatesOK, NEW wr \in Writers, state' = [state EXCEPT ![wr] = NoState],
           owner'[wr] = "closed", m_latch'[wr] = "free", Elsewhere(wr), DOMAIN flushing' = Writers,
           flushing'[wr] \in FlushingType, flushing'[wr].pages = <<>>, ~flushing'[wr].allocated
    PROVE  /\ StatesOK' /\ File' = [File EXCEPT ![wr] = ClosedFile]
           /\ Pending' = [Pending EXCEPT ![wr] = <<>>]
    <1> DEFINE h == flushing'[wr]
    <1>1. DOMAIN state = Writers
        BY DEF StatesOK
    <1>2. state'[wr] = NoState /\ DOMAIN state' = Writers
        BY <1>1
    <1>3. flushing'[wr] = h /\ h \in FlushingType /\ h.pages = <<>> /\ ~h.allocated
        OBVIOUS
    <1> HIDE DEF h
    <1>4. /\ StateOK(NoState, h, "closed", "free")
          /\ FileOf(NoState, h) = ClosedFile /\ PendingOf(NoState, h) = <<>>
        BY <1>3, ClosedView
    <1>5. StateOK(NoState, h, owner'[wr], m_latch'[wr])
        BY <1>4
    <1>6. /\ StatesOK' /\ File' = [File EXCEPT ![wr] = FileOf(NoState, h)]
          /\ Pending' = [Pending EXCEPT ![wr] = PendingOf(NoState, h)]
        BY <1>2, <1>3, <1>5, StatesStep
    <1> QED BY <1>4, <1>6

LEMMA CommitStep ==
    ASSUME FlushInv, StatesOK, FilesOK, NEW wr \in Writers, Commit(wr)
    PROVE  StatesOK' /\ FilesOK'
    <1> DEFINE s == state[wr]
               f == flushing[wr]
    <1>1. /\ StateOK(s, f, owner[wr], m_latch[wr]) /\ s \in StateType /\ f \in FlushingType
          /\ File[wr] = FileOf(s, f) /\ Pending[wr] = PendingOf(s, f)
          /\ File[wr].cache_id = s.cache_id /\ File[wr].size = FlushedOf(s, f)
          /\ File[wr].extents = s.extents /\ FlushedOf(s, f) \in Nat
        BY StateFacts
    <1>2. owner \in [Writers -> OwnerLabels] /\ DOMAIN state = Writers /\ DOMAIN flushing = Writers
        BY DEF FlushInv, FlushTypes
    <1>3. /\ owner[wr] = "flushed" /\ owner' = [owner EXCEPT ![wr] = "closed"]
          /\ committed' = committed \cup {[cache_id |-> s.cache_id, size |-> s.size, extents |-> s.extents]}
          /\ state' = [state EXCEPT ![wr] = NoState]
          /\ UNCHANGED <<cache, memory, m_dirty_pages, m_latch, flushing, disk, disk_free, next_cache_id, lost, stray>>
        BY DEF Commit, Close
    <1>4. m_latch[wr] = "free" /\ s.cached_pages = <<>>
        BY <1>3 DEF FlushInv, FlushTypes, LatchHolders, NothingLeft
    <1>5. /\ owner'[wr] = "closed" /\ m_latch'[wr] = "free" /\ DOMAIN flushing' = Writers /\ flushing'[wr] = f
        BY <1>2, <1>3, <1>4
    <1>6. Elsewhere(wr)
        BY <1>2, <1>3 DEF Elsewhere, Woken, Signalled
    <1> HIDE DEF s, f
    <1>7. f.pages = <<>> /\ ~f.allocated /\ s.mem_page = NoPage /\ s.cache_id # 0
        BY <1>1, <1>3, <1>4 DEF StateOK
    <1>8. PendingOf(s, f) = <<>> /\ Len(<<>>) = 0
        <2>1. <<>> \o <<>> = <<>>
            BY EmptySeq, ConcatEmptySeq
        <2> QED BY <1>4, <1>7, <2>1, EmptySeq DEF PendingOf, MemPage
    <1>9. s.size = FlushedOf(s, f)
        BY <1>1, <1>8 DEF StateOK
    <1>10. File[wr] = [cache_id |-> s.cache_id, size |-> s.size, extents |-> s.extents]
        BY <1>1, <1>9 DEF FileOf
    <1>11. /\ StatesOK' /\ File' = [File EXCEPT ![wr] = ClosedFile]
           /\ Pending' = [Pending EXCEPT ![wr] = <<>>]
        BY <1>1, <1>3, <1>5, <1>6, <1>7, CloseStates
    <1>12. Pending[wr] = <<>> /\ Pending' = Pending
        BY <1>1, <1>8, <1>11 DEF FilesOK, PendingOK
    <1>13. File[wr].size = SizeOf(File[wr].extents)
        BY <1>1, <1>7 DEF FlushedOf
    <1>14. committed' = committed \cup {File[wr]}
        BY <1>3, <1>10
    <1> QED BY <1>1, <1>3, <1>7, <1>11, <1>12, <1>13, <1>14, CommitFile

\* The pages that disk_writer::remove finds.
LEMMA PagesLeft ==
    ASSUME NEW s \in StateType
    PROVE  /\ s.cached_pages \o MemPage(s) \in Seq(Pages)
           /\ ToSet(s.cached_pages \o MemPage(s)) = ToSet(s.cached_pages) \cup ({s.mem_page} \ {NoPage})
           /\ Len(s.cached_pages \o MemPage(s))
                  = Len(s.cached_pages) + (IF s.mem_page = NoPage THEN 0 ELSE 1)
    <1> DEFINE q == s.cached_pages
    <1>1. q \in Seq(Pages)
        BY DEF StateType
    <1>2. CASE s.mem_page = NoPage
        <2>1. q \o MemPage(s) = q
            BY <1>1, <1>2, ConcatEmptySeq DEF MemPage
        <2>2. Len(q) \in Nat
            BY <1>1, LenProperties
        <2> QED BY <1>1, <1>2, <2>1, <2>2
    <1>3. CASE s.mem_page # NoPage
        <2>1. s.mem_page \in Pages
            BY <1>3 DEF StateType
        <2>2. q \o MemPage(s) = Append(q, s.mem_page)
            BY <1>1, <1>3, <2>1, AppendIsConcat DEF MemPage
        <2>3. /\ ToSet(Append(q, s.mem_page)) = ToSet(q) \cup {s.mem_page}
              /\ Append(q, s.mem_page) \in Seq(Pages) /\ Len(Append(q, s.mem_page)) = Len(q) + 1
            BY <1>1, <2>1, AppendSet, AppendProperties
        <2> QED BY <1>3, <2>2, <2>3
    <1> QED BY <1>2, <1>3

LEMMA AbortStep ==
    ASSUME FlushInv, StatesOK, FilesOK, NEW wr \in Writers, Abort(wr)
    PROVE  StatesOK' /\ FilesOK'
    <1> DEFINE s == state[wr]
               f == flushing[wr]
               q == s.cached_pages \o MemPage(s)
    <1>1. /\ StateOK(s, f, owner[wr], m_latch[wr]) /\ s \in StateType /\ f \in FlushingType
          /\ File[wr] = FileOf(s, f) /\ Pending[wr] = PendingOf(s, f)
          /\ File[wr].cache_id = s.cache_id /\ File[wr].extents = s.extents
        BY StateFacts
    <1>2. /\ DOMAIN state = Writers /\ DOMAIN flushing = Writers /\ DOMAIN m_latch = Writers
          /\ \A x \in Writers : owner[x] \in OwnerLabels
        BY DEF FlushInv, FlushTypes
    <1>3. /\ owner[wr] \in {"idle", "flushed"}
          /\ cache' = [cache EXCEPT !.free = (@ \cup ToSet(s.cached_pages)) \cup ({s.mem_page} \ {NoPage})]
          /\ disk_free' = disk_free \cup DiskPagesOf(s.extents)
          /\ m_dirty_pages' = m_dirty_pages
                - (Len(s.cached_pages) + (IF s.mem_page = NoPage THEN 0 ELSE 1))
          /\ owner' = [o \in Writers |-> IF o = wr THEN "closed"
                                         ELSE IF owner[o] = "awaits page" THEN "signalled" ELSE owner[o]]
          /\ state' = [state EXCEPT ![wr] = NoState]
          /\ lost' = lost \cup ToSet(f.pages)
          /\ m_latch' = [m_latch EXCEPT ![wr] = "free"]
          /\ flushing' = [flushing EXCEPT ![wr] = NotFlushing]
          /\ UNCHANGED <<memory, disk, committed, next_cache_id>>
        BY DEF Abort, Close, DirtyPages
    <1>4. /\ owner'[wr] = "closed" /\ m_latch'[wr] = "free" /\ DOMAIN flushing' = Writers
          /\ flushing'[wr] = NotFlushing
        BY <1>2, <1>3
    <1>5. Elsewhere(wr)
        BY <1>2, <1>3 DEF Elsewhere, Woken, Signalled
    <1>6. stray \subseteq stray' /\ \A w \in stray' \ stray : \E p, v : w = <<p, v>>
        BY DEF Abort, InFlight
    <1> HIDE DEF s, f
    <1>7. s.cache_id # 0
        BY <1>1, <1>3 DEF StateOK
    <1>8. NotFlushing \in FlushingType /\ NotFlushing.pages = <<>> /\ ~NotFlushing.allocated
        <2>1. <<>> \in Seq(Pages)
            BY EmptySeq
        <2> QED BY <2>1 DEF NotFlushing, FlushingType
    <1>9. /\ StatesOK' /\ File' = [File EXCEPT ![wr] = ClosedFile]
          /\ Pending' = [Pending EXCEPT ![wr] = <<>>]
        BY <1>3, <1>4, <1>5, <1>8, CloseStates
    <1>10. f.pages \in Seq(Pages) /\ Pending[wr] = f.pages \o q
        BY <1>1, PendingSeq
    <1>11. /\ q \in Seq(Pages) /\ ToSet(q) = ToSet(s.cached_pages) \cup ({s.mem_page} \ {NoPage})
           /\ Len(q) = Len(s.cached_pages) + (IF s.mem_page = NoPage THEN 0 ELSE 1)
        BY <1>1, PagesLeft
    <1> HIDE DEF q
    <1>12. cache' = [cache EXCEPT !.free = @ \cup ToSet(q)]
        <2>1. (cache.free \cup ToSet(s.cached_pages)) \cup ({s.mem_page} \ {NoPage}) = cache.free \cup ToSet(q)
            BY <1>11
        <2> QED BY <1>3, <2>1
    <1>13. m_dirty_pages' = m_dirty_pages - Len(q)
        BY <1>3, <1>11
    <1>14. disk_free' = disk_free \cup DiskPagesOf(File[wr].extents) /\ File[wr].cache_id # 0
        BY <1>1, <1>3, <1>7
    <1> QED BY <1>3, <1>6, <1>9, <1>10, <1>11, <1>12, <1>13, <1>14, DropFile

\* A flush that fails has written to no other file.
LEMMA FailedWrites ==
    ASSUME NEW e \in Seq(Extent), NEW m \in Nat, NEW n \in 0 .. m, n > 0 => e # <<>> /\ Last(e).pages = m,
           NEW p \in Nat, p \notin DiskPagesOf(e)
    PROVE  ~(n > 0 /\ p - Last(e).page \in 0 .. n - 1)
    <1> SUFFICES ASSUME n > 0, p - Last(e).page \in 0 .. n - 1 PROVE FALSE
        OBVIOUS
    <1>1. /\ Last(e) = e[Len(e)] /\ Last(e) \in Extent /\ Len(e) \in Nat \ {0} /\ Last(e).pages = m
        BY LastNumbers
    <1>2. Last(e).page \in Nat
        BY <1>1 DEF Extent
    <1>3. p \in PagesOfExtent(e[Len(e)])
        BY <1>1, <1>2 DEF PagesOfExtent
    <1>4. Len(e) \in 1 .. Len(e)
        BY <1>1
    <1> QED BY <1>3, <1>4, DiskPagesOfExtents

LEMMA FlushFailsStep ==
    ASSUME FlushInv, StatesOK, FilesOK, NEW wr \in Writers, FlushFails(wr)
    PROVE  StatesOK' /\ FilesOK'
    <1> DEFINE s == state[wr]
               f == flushing[wr]
    <1>1. /\ StateOK(s, f, owner[wr], m_latch[wr]) /\ s \in StateType /\ f \in FlushingType
          /\ s.extents \in Seq(Extent) /\ f.pages \in Seq(Pages)
          /\ File[wr] = FileOf(s, f) /\ Pending[wr] = PendingOf(s, f)
          /\ File[wr].cache_id = s.cache_id /\ File[wr].extents = s.extents
        BY StateFacts
    <1>2. DOMAIN state = Writers /\ DOMAIN flushing = Writers /\ DOMAIN m_latch = Writers
        BY DEF FlushInv, FlushTypes
    <1>3. /\ m_latch[wr] = "owner" /\ f.pages # <<>>
          /\ lost' = lost \cup ToSet(f.pages)
          /\ disk_free' = disk_free \cup DiskPagesOf(s.extents)
          /\ flushing' = [flushing EXCEPT ![wr] = NotFlushing]
          /\ m_latch' = [m_latch EXCEPT ![wr] = "free"]
          /\ owner' = [o \in Writers |-> IF o = wr THEN "closed"
                                         ELSE IF owner[o] = "awaits page" THEN "signalled" ELSE owner[o]]
          /\ state' = [state EXCEPT ![wr] = NoState]
          /\ UNCHANGED <<cache, memory, m_dirty_pages, committed, next_cache_id, stray>>
        BY DEF FlushFails, Close
    <1>4. PICK n \in 0 .. (IF f.allocated THEN Len(f.pages) - 1 ELSE 0) :
             disk' = [p \in DiskPages |->
                        IF n > 0 /\ p - Last(s.extents).page \in 0 .. n - 1
                        THEN memory[f.pages[p - Last(s.extents).page + 1]] ELSE disk[p]]
        BY DEF FlushFails
    <1>5. s.cached_pages = <<>> /\ owner[wr] = "flushing"
        BY <1>3 DEF FlushInv, LatchHolders, NothingLeft
    <1>6. /\ owner'[wr] = "closed" /\ m_latch'[wr] = "free" /\ DOMAIN flushing' = Writers
          /\ flushing'[wr] = NotFlushing
        BY <1>2, <1>3
    <1>7. Elsewhere(wr)
        BY <1>2, <1>3 DEF Elsewhere, Woken, Signalled
    <1> HIDE DEF s, f
    <1>8. NotFlushing \in FlushingType /\ NotFlushing.pages = <<>> /\ ~NotFlushing.allocated
        <2>1. <<>> \in Seq(Pages)
            BY EmptySeq
        <2> QED BY <2>1 DEF NotFlushing, FlushingType
    <1>9. /\ StatesOK' /\ File' = [File EXCEPT ![wr] = ClosedFile]
          /\ Pending' = [Pending EXCEPT ![wr] = <<>>]
        BY <1>3, <1>6, <1>7, <1>8, CloseStates
    <1>10. s.mem_page = NoPage /\ s.cache_id # 0
        BY <1>1, <1>5 DEF StateOK
    <1>11. PendingOf(s, f) = f.pages
        <2>1. f.pages \o <<>> = f.pages
            BY <1>1, ConcatEmptySeq
        <2> QED BY <1>5, <1>10, <2>1 DEF PendingOf, MemPage
    <1>12. \A p \in DiskPages \ DiskPagesOf(s.extents) : disk'[p] = disk[p]
        <2> SUFFICES ASSUME NEW p \in DiskPages, p \notin DiskPagesOf(s.extents) PROVE disk'[p] = disk[p]
            OBVIOUS
        <2>1. Len(f.pages) \in Nat /\ p \in Nat
            BY <1>1, LenProperties, DiskPagesAssumption
        <2>2. n \in 0 .. Len(f.pages) /\ (n > 0 => f.allocated)
            BY <1>4, <2>1
        <2>3. n > 0 => s.extents # <<>> /\ Last(s.extents).pages = Len(f.pages)
            BY <1>1, <2>2 DEF StateOK
        <2>4. ~(n > 0 /\ p - Last(s.extents).page \in 0 .. n - 1)
            BY <1>1, <2>1, <2>2, <2>3, FailedWrites
        <2> QED BY <1>4, <2>4
    <1>13. /\ lost' = lost \cup ToSet(Pending[wr]) /\ File[wr].cache_id # 0
           /\ disk_free' = disk_free \cup DiskPagesOf(File[wr].extents)
           /\ \A p \in DiskPages \ DiskPagesOf(File[wr].extents) : disk'[p] = disk[p]
           /\ DOMAIN disk' = DiskPages
        BY <1>1, <1>3, <1>4, <1>10, <1>11, <1>12
    <1> QED BY <1>3, <1>9, <1>13, FailFile

LEMMA UnlinkStep ==
    ASSUME StatesOK, FilesOK, NEW f \in committed, Unlink(f)
    PROVE  StatesOK' /\ FilesOK'
    <1>1. StatesOK' /\ File' = File /\ Pending' = Pending
        BY DEF Unlink, StatesOK, File, Pending
    <1>2. /\ committed' = committed \ {f} /\ disk_free' = disk_free \cup DiskPagesOf(f.extents)
          /\ UNCHANGED <<cache, memory, m_dirty_pages, disk, next_cache_id, lost, stray>>
        BY DEF Unlink
    <1> QED BY <1>1, <1>2, UnlinkFile

-----------------------------------------------------------------------------
(* The invariant. *)

LEMMA WriterInvInit ==
    ASSUME DiskWriterInit
    PROVE  WriterInv
    <1>1. /\ cache = EmptyCache /\ memory = [p \in Pages |-> Nothing] /\ m_dirty_pages = 0
          /\ state = [wr \in Writers |-> NoState] /\ m_latch = [wr \in Writers |-> "free"]
          /\ flushing = [wr \in Writers |-> NotFlushing] /\ owner = [wr \in Writers |-> "closed"]
          /\ disk_free = DiskPages /\ committed = {} /\ next_cache_id = 1 /\ lost = {}
          /\ DOMAIN disk = DiskPages /\ stray = {}
        BY DEF DiskWriterInit
    <1>2. NotFlushing \in FlushingType /\ NotFlushing.pages = <<>> /\ ~NotFlushing.allocated
        <2>1. <<>> \in Seq(Pages)
            BY EmptySeq
        <2> QED BY <2>1 DEF NotFlushing, FlushingType
    <1>3. /\ StateOK(NoState, NotFlushing, "closed", "free")
          /\ FileOf(NoState, NotFlushing) = ClosedFile /\ PendingOf(NoState, NotFlushing) = <<>>
        BY <1>2, ClosedView
    <1>4. StatesOK
        BY <1>1, <1>3 DEF StatesOK
    <1>5. File = [wr \in Writers |-> ClosedFile] /\ Pending = [wr \in Writers |-> <<>>]
        BY <1>1, <1>3 DEF File, Pending
    <1>6. /\ ClosedFile \in FileType /\ ClosedFile.cache_id = 0 /\ ClosedFile.size = 0
          /\ ClosedFile.extents = <<>>
        BY ClosedFileFields
    <1>7. IdsOK
        BY <1>1, <1>5, <1>6 DEF IdsOK
    <1>8. PendingOK
        <2>1. /\ <<>> \in Seq(Pages) /\ Len(<<>>) = 0 /\ Nothing \in Keys
            BY EmptySeq DEF Nothing, Keys
        <2>2. memory \in [Pages -> Keys] /\ Pending \in [Writers -> Seq(Pages)]
            BY <1>1, <1>5, <2>1
        <2>3. \A wr \in Writers : 1 .. Len(Pending[wr]) = {} /\ Pending[wr] = <<>>
            BY <1>5, <2>1
        <2> QED BY <1>5, <1>6, <2>2, <2>3 DEF PendingOK
    <1>9. /\ DOMAIN cache = ListFields \cup {"free"}
          /\ cache.window = <<>> /\ cache.a1 = <<>> /\ cache.a2 = <<>> /\ cache.free = Pages
          /\ cache.item = <<>> /\ Cached(cache) = {}
        BY <1>1 DEF EmptyCache, ListFields, Cached
    <1>10. ListsOK(Keys, cache)
        <2>1. /\ <<>> \in Seq(Keys) /\ IsInjective(<<>>) /\ ToSet(<<>>) = {} /\ Len(<<>>) = 0
            BY ShortSeqs
        <2>2. 0 <= WindowMax /\ 0 <= A1Max /\ 0 <= A2Max
            BY Limits
        <2>3. Lists(Keys, <<>>, <<>>, <<>>, {})
            BY <2>1, <2>2 DEF Lists
        <2> QED BY <1>9, <2>3 DEF ListsOK
    <1>11. CacheOK(Keys, cache) /\ Owned(cache) = Pages
        BY <1>9, <1>10 DEF CacheOK, PagesMatchMap, Owned, Mapped
    <1>12. PagesOK
        <2>1. ToSet(<<>>) = {}
            BY ShortSeqs
        <2>2. Dirty = {}
            BY <1>1, <1>5, <2>1 DEF Dirty
        <2> QED BY <1>1, <1>5, <1>11, <2>1, <2>2, FS_EmptySet DEF PagesOK
    <1>13. CachedOK
        BY <1>9, <1>11 DEF CachedOK
    <1>14. DiskOK
        <2>1. \A f \in Files : f.extents = <<>>
            BY <1>1, <1>5, <1>6 DEF Files
        <2>2. \A p : NumbersAt(<<>>, p) = {} /\ DiskPagesOf(<<>>) = {}
            BY NothingAt
        <2>3. DiskHas(Files, disk_free, disk, stray)
            BY <1>1, <2>1, <2>2 DEF DiskHas, SameNumber
        <2> QED BY <1>1, <2>3 DEF DiskOK
    <1>15. FilesOK
        BY <1>7, <1>8, <1>12, <1>13, <1>14 DEF FilesOK
    <1> QED BY <1>4, <1>15, FlushInvInit DEF WriterInv

LEMMA WriterInvStep ==
    ASSUME WriterInv, [DiskWriterNext]_writerVars
    PROVE  WriterInv'
    <1>0. FlushInv /\ StatesOK /\ FilesOK /\ FlushInv'
        BY FlushInvStep DEF WriterInv
    <1>1. CASE UNCHANGED writerVars
        <2>1. UNCHANGED <<state, flushing, owner, m_latch>>
            BY <1>1 DEF writerVars
        <2>2. StatesOK' /\ File' = File /\ Pending' = Pending
            BY <1>0, <2>1 DEF StatesOK, File, Pending
        <2>3. UNCHANGED <<cache, memory, m_dirty_pages, disk, disk_free, committed, next_cache_id, lost, stray>>
            BY <1>1 DEF writerVars
        <2>4. FilesOK'
            BY <1>0, <2>2, <2>3, FilesStay
        <2> QED BY <1>0, <2>2, <2>4 DEF WriterInv
    <1>2. ASSUME NEW f \in committed, Unlink(f)
          PROVE  WriterInv'
        BY <1>0, <1>2, UnlinkStep DEF WriterInv
    <1>3. CASE FlusherStarts
        BY <1>0, <1>3, FlusherStartsStep DEF WriterInv
    <1>5. CASE StrayLands
        BY <1>0, <1>5, StrayLandsStep DEF WriterInv
    <1>4. ASSUME NEW wr \in Writers,
                 \/ Open(wr) \/ AwaitPage(wr) \/ AllocatePage(wr) \/ WritePage(wr) \/ FlushLast(wr)
                 \/ OwnerStep(wr) \/ Flushing(wr) \/ Commit(wr) \/ Abort(wr)
                 \/ FlushFails(wr)
          PROVE  WriterInv'
        <2>1. CASE Open(wr)
            BY <1>0, <2>1, OpenStep DEF WriterInv
        <2>2. CASE AwaitPage(wr) \/ RunAgain(wr) \/ AwaitFlusher(wr) \/ NothingToFlush(wr)
            BY <1>0, <2>2, OwnerOnly DEF WriterInv
        <2>3. CASE AllocatePage(wr)
            BY <1>0, <2>3, AllocatePageStep DEF WriterInv
        <2>4. CASE WritePage(wr) \/ FlushLast(wr)
            BY <1>0, <2>4, PushFile DEF WriterInv
        <2>5. CASE StartFlush(wr)
            BY <1>0, <2>5, StartFlushStep DEF WriterInv
        <2>6. CASE AllocateSpace(wr)
            BY <1>0, <2>6, AllocateSpaceStep DEF WriterInv
        <2>7. CASE OwnerFlushed(wr)
            BY <1>0, <2>7, OwnerFlushedStep DEF WriterInv
        <2>8. CASE FlusherFlushed(wr)
            BY <1>0, <2>8, FlusherFlushedStep DEF WriterInv
        <2>9. CASE Commit(wr)
            BY <1>0, <2>9, CommitStep DEF WriterInv
        <2>10. CASE Abort(wr)
            BY <1>0, <2>10, AbortStep DEF WriterInv
        <2>11. CASE FlushFails(wr)
            BY <1>0, <2>11, FlushFailsStep DEF WriterInv
        <2> QED BY <1>4, <2>1, <2>2, <2>3, <2>4, <2>5, <2>6, <2>7, <2>8, <2>9, <2>10, <2>11
               DEF OwnerStep, Flushing
    <1> QED BY <1>1, <1>2, <1>3, <1>4, <1>5 DEF DiskWriterNext

LEMMA WriterAlways ==
    DiskWriterSpec => []WriterInv
    <1>1. DiskWriterInit => WriterInv
        BY WriterInvInit
    <1>2. WriterInv /\ [DiskWriterNext]_writerVars => WriterInv'
        BY WriterInvStep
    <1> QED BY <1>1, <1>2, PTL DEF DiskWriterSpec

-----------------------------------------------------------------------------
(* The theorems. *)

\* The pages that an open file holds are its pending ones.
LEMMA OpenPagesArePending ==
    ASSUME StatesOK, NEW wr \in Writers
    PROVE  OpenPages(wr) = ToSet(Pending[wr])
    <1> DEFINE s == state[wr]
               f == flushing[wr]
               q == f.pages \o s.cached_pages
    <1>1. s \in StateType /\ f \in FlushingType /\ Pending[wr] = PendingOf(s, f)
        BY StateFacts
    <1>2. /\ f.pages \in Seq(Pages) /\ s.cached_pages \in Seq(Pages) /\ MemPage(s) \in Seq(Pages)
        BY <1>1, PendingSeq
    <1>3. q \in Seq(Pages) /\ ToSet(q) = ToSet(f.pages) \cup ToSet(s.cached_pages)
        BY <1>2, ConcatSet
    <1>4. PendingOf(s, f) = q \o MemPage(s)
        BY DEF PendingOf
    <1>5. ToSet(MemPage(s)) = {s.mem_page} \ {NoPage}
        <2>1. CASE s.mem_page = NoPage
            BY <2>1, ShortSeqs DEF MemPage
        <2>2. CASE s.mem_page # NoPage
            <3>1. s.mem_page \in Pages
                BY <1>1, <2>2 DEF StateType
            <3>2. ToSet(<<s.mem_page>>) = {s.mem_page}
                BY <3>1, ShortSeqs
            <3> QED BY <2>2, <3>2 DEF MemPage
        <2> QED BY <2>1, <2>2
    <1>6. OpenPages(wr) = ToSet(s.cached_pages) \cup ToSet(f.pages) \cup ({s.mem_page} \ {NoPage})
        BY DEF OpenPages
    <1> HIDE DEF s, f, q
    <1>7. ToSet(q \o MemPage(s)) = ToSet(q) \cup ToSet(MemPage(s))
        BY <1>2, <1>3, ConcatSet
    <1> QED BY <1>1, <1>3, <1>4, <1>5, <1>6, <1>7

LEMMA MemoryPlaces ==
    ASSUME WriterInv
    PROVE  MemoryInOnePlace
    <1>1. StatesOK /\ IdsOK /\ PendingOK /\ PagesOK /\ CacheOK(Keys, cache)
        BY DEF WriterInv, FilesOK, CachedOK
    <1>2. ListsMatchMap(cache) /\ PagesMatchMap(cache) /\ cache.free \subseteq Pages
        BY <1>1, ListsMatch DEF CacheOK
    <1>3. \A wr \in Writers : OpenPages(wr) = ToSet(Pending[wr])
        BY <1>1, OpenPagesArePending
    <1>4. DirtySet = Dirty
        BY <1>3 DEF DirtySet, Dirty
    <1>5. \A wr \in Writers : OpenPages(wr) \cap lost = {}
        BY <1>1, <1>3 DEF PagesOK
    <1>6. \A wr, x \in Writers : wr # x => OpenPages(wr) \cap OpenPages(x) = {}
        <2> SUFFICES ASSUME NEW wr \in Writers, NEW x \in Writers, wr # x
                     PROVE  ToSet(Pending[wr]) \cap ToSet(Pending[x]) = {}
            BY <1>3
        <2> QED BY <1>1, PendingApart
    <1>7. Cardinality(cache.free) + Cardinality(Cached(cache)) + m_dirty_pages = Cardinality(Pages)
        <2>1. IsFiniteSet(Pages)
            BY PagesAssumption
        <2>2. /\ cache.free \cap Mapped(cache) = {} /\ Owned(cache) = cache.free \cup Mapped(cache)
              /\ Mapped(cache) \subseteq Pages
            BY <1>2 DEF PagesMatchMap, Owned, Mapped
        <2>3. Dirty \subseteq Pages /\ Dirty \cap Owned(cache) = {} /\ Dirty \cup Owned(cache) = Pages
            BY <1>1 DEF PagesOK
        <2>4. IsFiniteSet(cache.free) /\ IsFiniteSet(Mapped(cache)) /\ IsFiniteSet(Dirty)
            BY <1>2, <2>1, <2>2, <2>3, FS_Subset
        <2>5. Cardinality(Cached(cache)) = Cardinality(Mapped(cache))
            <3> DEFINE S == Cached(cache)
                       T == Mapped(cache)
                       f == [k \in S |-> cache.item[k]]
            <3>1. f \in [S -> T] /\ \A t \in T : \E x \in S : f[x] = t
                BY DEF Mapped
            <3>2. \A x, y \in S : f[x] = f[y] => x = y
                BY <1>2 DEF PagesMatchMap
            <3> HIDE DEF S, T, f
            <3>3. IsFiniteSet(T)
                BY <2>4 DEF T
            <3>4. Cardinality(S) = Cardinality(T)
                BY <3>1, <3>2, <3>3, SameSize
            <3> QED BY <3>4 DEF S, T
        <2>6. /\ IsFiniteSet(Owned(cache)) /\ Cardinality(cache.free) \in Nat /\ Cardinality(Mapped(cache)) \in Nat
              /\ Cardinality(Owned(cache)) = Cardinality(cache.free) + Cardinality(Mapped(cache))
            BY <2>2, <2>4, CardDisjoint
        <2>7. /\ Cardinality(Dirty) \in Nat
              /\ Cardinality(Pages) = Cardinality(Dirty) + Cardinality(Owned(cache))
            BY <2>3, <2>4, <2>6, CardDisjoint
        <2> QED BY <1>1, <2>5, <2>6, <2>7 DEF PagesOK
    <1>8. DirtySet \cap (cache.free \cup {cache.item[k] : k \in Cached(cache)}) = {}
        BY <1>1, <1>4 DEF PagesOK, Owned, Mapped
    <1>9. m_dirty_pages = Cardinality(DirtySet)
        BY <1>1, <1>4 DEF PagesOK
    <1> QED BY <1>2, <1>5, <1>6, <1>7, <1>8, <1>9 DEF MemoryInOnePlace

LEMMA PagesReadable ==
    ASSUME WriterInv
    PROVE  CommittedFilesReadable
    <1>1. IdsOK /\ CachedOK /\ DiskOK
        BY DEF WriterInv, FilesOK
    <1>2. \A k \in Cached(cache) : memory[cache.item[k]] = k
        BY <1>1 DEF CachedOK
    <1>3. ASSUME NEW f \in committed
          PROVE  /\ SizeOf(f.extents) = f.size
                 /\ \A n \in 0 .. f.size - 1 :
                        Holds(disk, stray, get_disk_page(n, f.extents), <<f.cache_id, n>>)
        <2>1. SizeOf(f.extents) = f.size /\ f.size \in Nat /\ f.extents \in Seq(Extent)
            BY <1>1 DEF DiskOK, IdsOK, FileType
        <2>2. ASSUME NEW n \in 0 .. f.size - 1
              PROVE  Holds(disk, stray, get_disk_page(n, f.extents), <<f.cache_id, n>>)
            <3> DEFINE p == get_disk_page(n, f.extents)
            <3>1. n \in Nat /\ n < f.size
                BY <2>1
            <3>2. n \in NumbersAt(f.extents, p)
                BY <2>1, <3>1, PageFound
            <3> HIDE DEF p
            <3>3. f \in Files /\ DiskHas(Files, disk_free, disk, stray)
                BY <1>1 DEF Files, DiskOK
            <3>4. p \in DiskPagesOf(f.extents)
                BY <2>1, <3>2, DiskPagesOfExtents
            <3>5. p \in DiskPages
                BY <3>3, <3>4 DEF DiskHas
            <3>6. Holds(disk, stray, p, <<f.cache_id, n>>)
                BY <3>1, <3>2, <3>3, <3>5 DEF DiskHas
            <3> QED BY <3>6 DEF p
        <2> QED BY <2>1, <2>2
    <1> QED BY <1>2, <1>3 DEF CommittedFilesReadable, Holds

\* For every number of writers, files and pages: whatever the owners and the
\* flush thread do, and whichever flush fails, a memory page is free, in the
\* cache, held by one open file or lost, and m_dirty_pages counts the last two
\* kinds (MemoryInOnePlace).
THEOREM WriterMemoryInOnePlace ==
    DiskWriterSpec => []MemoryInOnePlace
    <1>1. WriterInv => MemoryInOnePlace
        BY MemoryPlaces
    <1> QED BY <1>1, WriterAlways, PTL

\* A reader finds every page of every committed file on the disk, where
\* disk_reader::get_disk_page looks for it, and the pages that the cache has are
\* the ones of their keys (CommittedFilesReadable).
THEOREM WriterCommittedFilesReadable ==
    DiskWriterSpec => []CommittedFilesReadable
    <1>1. WriterInv => CommittedFilesReadable
        BY PagesReadable
    <1> QED BY <1>1, WriterAlways, PTL
===============================================================================
