------------------------------ MODULE DiskReader ------------------------------
(***************************************************************************)
(* storage::disk_reader: threads read pages of files through the cache.  A *)
(* miss takes a latch: the first reader of a page allocates memory and     *)
(* reads from the disk, the others wait for it, and the last of them to    *)
(* let go of the latch puts the page into the cache.                       *)
(*                                                                         *)
(* Threads are cooperative: a step runs from one yield to the next, and    *)
(* the yields are the disk read and the wait on a latch.                   *)
(*                                                                         *)
(* The writers of storage::disk_writer take pages from the same cache for  *)
(* data that is not on the disk yet and bring them into it later; they are *)
(* here as Writers, which only take and return pages.                      *)
(***************************************************************************)
EXTENDS PageCache

CONSTANTS
    Keys,           \* cache keys: a page of a file
    Readers,        \* threads that read
    Writers,        \* writers that hold at most one page each
    ReadsFail       \* whether a disk read may throw

ASSUME ReadersAssumption == IsFiniteSet(Readers)

VARIABLES
    cache,          \* m_cache
    latch,          \* m_latch: ref_count, released and page of each latched key
    memory,         \* the key whose data is in each page
    readers,        \* where each reader is
    dirty,          \* the page each writer holds
    result,         \* ghost: what each reader asked for and what it got
    aborted         \* an assertion failed

readerVars == <<cache, latch, memory, readers, dirty, result, aborted>>

Nothing == "nothing"    \* a page whose data is not what any key asked for

Idle == [at |-> "idle", key |-> Nothing, page |-> NoPage]
Latched == DOMAIN latch

DiskReaderInit ==
    /\ cache = EmptyCache
    /\ latch = <<>>
    /\ memory = [p \in Pages |-> Nothing]
    /\ readers = [r \in Readers |-> Idle]
    /\ dirty = [wr \in Writers |-> NoPage]
    /\ result = [r \in Readers |-> <<Nothing, Nothing>>]
    /\ aborted = FALSE

-----------------------------------------------------------------------------
(* storage::latch *)

Latch(key, e) == [k \in Latched \cup {key} |-> IF k = key THEN e ELSE latch[k]]

Unlatch(key) == [k \in Latched \ {key} |-> latch[k]]

\* Mutant: whoever leaves first adds the page, while others still use it.
Leave_First(r, key, page, e) ==
    /\ result' = [result EXCEPT ![r] = <<key, memory'[page]>>]
    /\ latch' = IF e.ref_count > 1 THEN Latch(key, [e EXCEPT !.ref_count = @ - 1])
                ELSE Unlatch(key)
    /\ cache' \in IF key \in Cached(cache) THEN {cache} ELSE CacheAdd(cache, key, page)
    /\ UNCHANGED aborted

\* The end of disk_reader::read: the reader gets the memory of the page, and
\* lets go of its reference to the entry e.  The last one adds the page, and
\* wtinylfu::set asserts that the key is not there.
Leave(r, key, page, e) ==
    /\ result' = [result EXCEPT ![r] = <<key, memory'[page]>>]
    /\ latch' = IF e.ref_count > 1 THEN Latch(key, [e EXCEPT !.ref_count = @ - 1])
                ELSE Unlatch(key)
    /\ cache' \in IF e.ref_count = 1 /\ key \notin Cached(cache)
                  THEN CacheAdd(cache, key, page) ELSE {cache}
    /\ aborted' = (e.ref_count = 1 /\ key \in Cached(cache))

-----------------------------------------------------------------------------
(* disk_reader::read *)

Hit(r, key) ==
    /\ readers[r].at = "idle" /\ ~aborted
    /\ key \in Cached(cache)
    /\ cache' = touch(cache, key)
    /\ result' = [result EXCEPT ![r] = <<key, memory[cache.item[key]]>>]
    /\ UNCHANGED <<latch, memory, readers, dirty, aborted>>

\* The first to miss.  Its memory holds other data until the read is done.
StartRead(r, key) ==
    /\ IF CacheAllocate(cache) = {}
       THEN aborted' = TRUE /\ UNCHANGED <<cache, latch, memory, readers>>
       ELSE \E a \in CacheAllocate(cache) :
               /\ cache' = a.cache
               /\ latch' = Latch(key, [ref_count |-> 1, released |-> FALSE, page |-> a.page])
               /\ memory' = [memory EXCEPT ![a.page] = Nothing]
               /\ readers' = [readers EXCEPT ![r] =
                                [at |-> "reading", key |-> key, page |-> a.page]]
               /\ UNCHANGED aborted
    /\ UNCHANGED <<dirty, result>>

Miss(r, key) ==
    /\ readers[r].at = "idle" /\ ~aborted
    /\ key \notin Cached(cache) /\ key \notin Latched
    /\ StartRead(r, key)

Waiting(key) == {r \in Readers : readers[r].at = "waiting" /\ readers[r].key = key}

\* Mutant: only one waiter is woken.
Woken_One(key) == IF Waiting(key) = {} THEN {} ELSE {CHOOSE r \in Waiting(key) : TRUE}

\* latch::release: signal_all.
Woken(key) == Waiting(key)

\* Another reader is at it.
Join(r, key) ==
    /\ readers[r].at = "idle" /\ ~aborted
    /\ key \notin Cached(cache) /\ key \in Latched /\ ~latch[key].released
    /\ latch' = Latch(key, [latch[key] EXCEPT !.ref_count = @ + 1])
    /\ readers' = [readers EXCEPT ![r] = [at |-> "waiting", key |-> key,
                                          page |-> latch[key].page]]
    /\ UNCHANGED <<cache, memory, dirty, result, aborted>>

\* The read is done and the waiters are yet to leave: no need to wait.
JoinLate(r, key) ==
    /\ readers[r].at = "idle" /\ ~aborted
    /\ key \notin Cached(cache) /\ key \in Latched /\ latch[key].released
    /\ memory' = memory
    /\ Leave(r, key, latch[key].page, [latch[key] EXCEPT !.ref_count = @ + 1])
    /\ UNCHANGED <<readers, dirty>>

\* The disk read returns: the latch is released, and the reader leaves it.
ReadDone(r) ==
    /\ readers[r].at = "reading" /\ ~aborted
    /\ memory' = [memory EXCEPT ![readers[r].page] = readers[r].key]
    /\ readers' = [q \in Readers |->
                     IF q = r THEN Idle
                     ELSE IF q \in Woken(readers[r].key) THEN [readers[q] EXCEPT !.at = "woken"]
                     ELSE readers[q]]
    /\ Leave(r, readers[r].key, readers[r].page,
             [latch[readers[r].key] EXCEPT !.released = TRUE])
    /\ UNCHANGED dirty

\* disk::read throws: nobody cleans up after the reader.
ReadFails(r) ==
    /\ ReadsFail
    /\ readers[r].at = "reading" /\ ~aborted
    /\ readers' = [readers EXCEPT ![r] = Idle]
    /\ UNCHANGED <<cache, latch, memory, dirty, result, aborted>>

\* A waiter runs again, after the latch was released.
Resume(r) ==
    /\ readers[r].at = "woken" /\ ~aborted
    /\ memory' = memory
    /\ readers' = [readers EXCEPT ![r] = Idle]
    /\ Leave(r, readers[r].key, readers[r].page, latch[readers[r].key])
    /\ UNCHANGED dirty

-----------------------------------------------------------------------------
(* disk_writer, as the cache sees it: its pages are within its limit *)

TakePage(wr) ==
    /\ dirty[wr] = NoPage /\ ~aborted
    /\ IF CacheAllocate(cache) = {} THEN aborted' = TRUE /\ UNCHANGED <<cache, dirty, memory>>
       ELSE \E a \in CacheAllocate(cache) :
               /\ cache' = a.cache
               /\ dirty' = [dirty EXCEPT ![wr] = a.page]
               /\ memory' = [memory EXCEPT ![a.page] = Nothing]
               /\ UNCHANGED aborted
    /\ UNCHANGED <<latch, readers, result>>

\* The file is dropped before its page was written.
ReturnPage(wr) ==
    /\ dirty[wr] # NoPage /\ ~aborted
    /\ cache' = FreePage(cache, dirty[wr])
    /\ dirty' = [dirty EXCEPT ![wr] = NoPage]
    /\ UNCHANGED <<latch, memory, readers, result, aborted>>

DiskReaderNext ==
    \/ \E r \in Readers :
          \/ \E key \in Keys : Hit(r, key) \/ Miss(r, key) \/ Join(r, key) \/ JoinLate(r, key)
          \/ ReadDone(r) \/ ReadFails(r) \/ Resume(r)
    \/ \E wr \in Writers : TakePage(wr) \/ ReturnPage(wr)

DiskReaderSpec == DiskReaderInit /\ [][DiskReaderNext]_readerVars

-----------------------------------------------------------------------------
(* Properties *)

\* The lists of the cache and its map agree, and every page is in exactly one
\* place: free, in the map, latched, or held by a writer.  None is given to a
\* reader while another one fills it.
PagesInOnePlace ==
    LET mapped == {cache.item[k] : k \in Cached(cache)}
        latched == {latch[k].page : k \in Latched}
        held == {dirty[wr] : wr \in Writers} \ {NoPage}
    IN /\ ListsMatchMap(cache) /\ PagesMatchMap(cache)
       /\ Pages = cache.free \cup mapped \cup latched \cup held
       /\ Cardinality(cache.free) + Cardinality(Cached(cache)) + Cardinality(Latched)
             + Cardinality({wr \in Writers : dirty[wr] # NoPage}) = Cardinality(Pages)

\* Whoever reads a page gets the data of that page: its memory is not reused
\* between the yield in the disk read, or the wait for another reader, and the
\* return of read().
ReadsOwnPage == \A r \in Readers : result[r][1] = result[r][2]

\* The entry of a latch, with its page, outlives everybody who came while the
\* page was read, and whoever still waits does so because it is not there yet:
\* the release reaches all of them.
NobodyMissesTheRelease ==
    \A r \in Readers : LET e == readers[r]
                        IN e.at \in {"waiting", "woken"} =>
                              /\ e.key \in Latched
                              /\ latch[e.key].page = e.page
                              /\ latch[e.key].released <=> e.at = "woken"
=============================================================================
