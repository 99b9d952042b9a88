------------------------------ MODULE DiskWriter ------------------------------
(***************************************************************************)
(* storage::disk_writer and file_writer: files are written page by page    *)
(* into memory pages of the cache.  Full pages wait to be flushed, by      *)
(* their owner at the end of the file, or by a flush thread that is        *)
(* started when there are too many dirty pages.  Flushed pages stay in the *)
(* cache under the file's cache id.                                        *)
(*                                                                         *)
(* Threads are cooperative: a step runs from one yield to the next.  Disk  *)
(* space comes from storage::disk, modelled in Disk; here an allocation    *)
(* gives the first free run, after a yield as when the disk grows.         *)
(***************************************************************************)
EXTENDS PageCache, FiniteSetsExt

CONSTANTS
    Writers,            \* threads that write a file each
    MaxDirty,           \* m_max_dirty_pages, 2^write_cache_bits
    DiskPages,          \* bound: pages of the disk, numbers
    MaxFiles,           \* bound: number of files
    MaxFilePages        \* bound: pages of a file

ASSUME DiskPagesAssumption == DiskPages \subseteq Nat

\* storage::engine asserts cache_bits > write_cache_bits.
ASSUME DirtyAssumption == MaxDirty \in Nat \ {0} /\ MaxDirty < Cardinality(Pages)

VARIABLES
    cache,              \* m_cache
    memory,             \* the file page whose data is in each memory page
    m_dirty_pages,      \* number of pages that are not on the disk
    m_states,           \* the writers with an open file, oldest first
    state,              \* disk_writer::state of each writer; sizes are in pages
    m_latch,            \* who flushes a writer's pages
    flushing,           \* the pages being flushed, and whether there is space for them
    owner,              \* where each writer's thread is
    flusher,            \* where the flush thread is
    disk,               \* the file page whose data is in each disk page
    disk_free,          \* free disk pages
    committed,          \* committed files
    next_cache_id,
    lost,               \* pages of dropped files: no file and no list has them
    stray               \* what may yet be written for dropped files: disk page, file page

writerVars == <<cache, memory, m_dirty_pages, m_states, state, m_latch, flushing, owner,
                flusher, disk, disk_free, committed, next_cache_id, lost, stray>>

Nothing == <<0, 0>>     \* no file page
NoState == [cache_id |-> 0, size |-> 0, mem_page |-> NoPage, cached_pages |-> <<>>, extents |-> <<>>]
NotFlushing == [pages |-> <<>>, allocated |-> FALSE]

\* The pages of the first n extents.
PagesUpTo(extents, n) ==
    LET sum[i \in 0 .. n] == IF i = 0 THEN 0 ELSE sum[i - 1] + extents[i].pages
    IN  sum[n]

SizeOf(extents) == PagesUpTo(extents, Len(extents))
DiskPagesOf(extents) == UNION {e.page .. e.page + e.pages - 1 : e \in ToSet(extents)}

DiskWriterInit ==
    /\ cache = EmptyCache
    /\ memory = [p \in Pages |-> Nothing]
    /\ m_dirty_pages = 0
    /\ m_states = <<>>
    /\ state = [wr \in Writers |-> NoState]
    /\ m_latch = [wr \in Writers |-> "free"]
    /\ flushing = [wr \in Writers |-> NotFlushing]
    /\ owner = [wr \in Writers |-> "closed"]
    /\ flusher = "off"
    /\ disk = [p \in DiskPages |-> Nothing]
    /\ disk_free = DiskPages
    /\ committed = {}
    /\ next_cache_id = 1
    /\ lost = {}
    /\ stray = {}

-----------------------------------------------------------------------------
(* file_writer: what the owner of a file does *)

\* disk_writer::allocate.
Open(wr) ==
    /\ owner[wr] = "closed" /\ next_cache_id <= MaxFiles
    /\ m_states' = Append(m_states, wr)
    /\ state' = [state EXCEPT ![wr] = [NoState EXCEPT !.cache_id = next_cache_id]]
    /\ owner' = [owner EXCEPT ![wr] = "idle"]
    /\ next_cache_id' = next_cache_id + 1
    /\ UNCHANGED <<cache, memory, m_dirty_pages, m_latch, flushing, flusher, disk, disk_free,
                   committed, lost, stray>>

\* Mutant: nobody is asked to flush.
start_global_flush_Not == flusher

start_global_flush == IF flusher = "off" THEN "created" ELSE flusher

\* disk_writer::allocate_page: wait while there are too many dirty pages.
AwaitPage(wr) ==
    /\ owner[wr] \in {"idle", "signalled"} /\ state[wr].mem_page = NoPage
    /\ state[wr].size < MaxFilePages
    /\ m_dirty_pages >= MaxDirty
    /\ flusher' = start_global_flush
    /\ owner' = [owner EXCEPT ![wr] = "awaits page"]
    /\ UNCHANGED <<cache, memory, m_dirty_pages, m_states, state, m_latch, flushing, disk,
                   disk_free, committed, next_cache_id, lost, stray>>

MayAllocate == m_dirty_pages < MaxDirty

\* The page is there and the data goes into it; the page may stay partly
\* filled, or the write goes on and fills it.
AllocatePage(wr) ==
    /\ owner[wr] \in {"idle", "signalled"} /\ state[wr].mem_page = NoPage
    /\ state[wr].size < MaxFilePages
    /\ MayAllocate
    /\ \E a \in CacheAllocate(cache) :
          /\ cache' = a.cache
          /\ memory' = [memory EXCEPT ![a.page] = <<state[wr].cache_id, state[wr].size>>]
          /\ state' = [state EXCEPT ![wr].mem_page = a.page, ![wr].size = @ + 1]
    /\ m_dirty_pages' = m_dirty_pages + 1
    /\ owner' = [owner EXCEPT ![wr] = "idle"]
    /\ UNCHANGED <<m_states, m_latch, flushing, flusher, disk, disk_free, committed,
                   next_cache_id, lost, stray>>

\* disk_writer::write_page, which yields.
PushPage(wr) ==
    state' = [state EXCEPT ![wr].cached_pages = Append(@, state[wr].mem_page),
                           ![wr].mem_page = NoPage]

WritePage(wr) ==
    /\ owner[wr] = "idle" /\ state[wr].mem_page # NoPage
    /\ PushPage(wr)
    /\ owner' = [owner EXCEPT ![wr] = "yields"]
    /\ UNCHANGED <<cache, memory, m_dirty_pages, m_states, m_latch, flushing, flusher, disk,
                   disk_free, committed, next_cache_id, lost, stray>>

RunAgain(wr) ==
    /\ owner[wr] = "yields"
    /\ owner' = [owner EXCEPT ![wr] = "idle"]
    /\ UNCHANGED <<cache, memory, m_dirty_pages, m_states, state, m_latch, flushing, flusher,
                   disk, disk_free, committed, next_cache_id, lost, stray>>

-----------------------------------------------------------------------------
(* flush_pages *)

\* The pages are taken from the state, and the state is latched.
Latched(by, wr, latch) == [latch EXCEPT ![wr] = by]
TakePages(wr, fl) == [fl EXCEPT ![wr] = [pages |-> state[wr].cached_pages, allocated |-> FALSE]]

\* file_writer::flush: the last page first, with its yield.
FlushLast(wr) ==
    /\ owner[wr] = "idle" /\ state[wr].mem_page # NoPage
    /\ PushPage(wr)
    /\ owner' = [owner EXCEPT ![wr] = "flushes"]
    /\ UNCHANGED <<cache, memory, m_dirty_pages, m_states, m_latch, flushing, flusher, disk,
                   disk_free, committed, next_cache_id, lost, stray>>

InFlush(wr) == owner[wr] = "flushes" \/ (owner[wr] = "idle" /\ state[wr].mem_page = NoPage)

\* The flush thread has some of the pages: the owner waits for it.
AwaitFlusher(wr) ==
    /\ InFlush(wr) /\ m_latch[wr] = "flusher"
    /\ owner' = [owner EXCEPT ![wr] = "awaits flusher"]
    /\ UNCHANGED <<cache, memory, m_dirty_pages, m_states, state, m_latch, flushing, flusher,
                   disk, disk_free, committed, next_cache_id, lost, stray>>

\* Mutant: the owner does not look whether the flush thread is at it.
MayFlush_NoLatch(wr) == InFlush(wr) \/ owner[wr] = "latch free"

\* After its wait the owner does not look at the latch again.
MayFlush(wr) == owner[wr] = "latch free" \/ (InFlush(wr) /\ m_latch[wr] = "free")

NothingToFlush(wr) ==
    /\ MayFlush(wr) /\ state[wr].cached_pages = <<>>
    /\ owner' = [owner EXCEPT ![wr] = "flushed"]
    /\ UNCHANGED <<cache, memory, m_dirty_pages, m_states, state, m_latch, flushing, flusher,
                   disk, disk_free, committed, next_cache_id, lost, stray>>

StartFlush(wr) ==
    /\ MayFlush(wr) /\ state[wr].cached_pages # <<>>
    /\ m_latch' = Latched("owner", wr, m_latch)
    /\ flushing' = TakePages(wr, flushing)
    /\ state' = [state EXCEPT ![wr].cached_pages = <<>>]
    /\ owner' = [owner EXCEPT ![wr] = "flushing"]
    /\ UNCHANGED <<cache, memory, m_dirty_pages, m_states, flusher, disk, disk_free, committed,
                   next_cache_id, lost, stray>>

\* disk::allocate has found the space; which one it takes is Allocator's affair.
AllocateSpace(wr) ==
    /\ flushing[wr].pages # <<>> /\ ~flushing[wr].allocated
    /\ LET pages == Len(flushing[wr].pages)
           runs == {p \in DiskPages : p .. p + pages - 1 \subseteq disk_free}
       IN /\ runs # {}
          /\ disk_free' = disk_free \ (Min(runs) .. Min(runs) + pages - 1)
          /\ state' = [state EXCEPT ![wr].extents =
                         Append(@, [page |-> Min(runs), pages |-> pages])]
    /\ flushing' = [flushing EXCEPT ![wr].allocated = TRUE]
    /\ UNCHANGED <<cache, memory, m_dirty_pages, m_states, m_latch, owner, flusher, disk,
                   committed, next_cache_id, lost, stray>>

\* The page of the file that the flush began with.
FirstPage(wr) == PagesUpTo(state[wr].extents, Len(state[wr].extents) - 1)

\* What the cache may be when the pages are added to it, under the keys of the
\* pages of a file from first on.
Added(c, cache_id, first, pages) ==
    LET added[i \in 0 .. Len(pages)] ==
          IF i = 0 THEN {c}
          ELSE UNION {CacheAdd(d, <<cache_id, first + i - 1>>, pages[i]) : d \in added[i - 1]}
    IN  added[Len(pages)]

\* Mutant: whoever waits for the flush thread is not signalled.
WokenBy_OnlyDirty(wr) ==
    [o \in Writers |-> IF owner[o] = "awaits page" THEN "signalled" ELSE owner[o]]

WokenBy(wr) ==
    [o \in Writers |-> IF owner[o] = "awaits page" THEN "signalled"
                       ELSE IF o = wr /\ owner[o] = "awaits flusher" THEN "latch free"
                       ELSE owner[o]]

\* Mutant: the pages stay dirty.
Undirtied_Not(n) == m_dirty_pages

Undirtied(n) == m_dirty_pages - n

\* disk::write has returned: the data is on the disk, the pages go into the
\* cache, and whoever waits is signalled.
Written(wr) ==
    /\ flushing[wr].allocated
    /\ LET pages == flushing[wr].pages
           page == Last(state[wr].extents).page
       IN /\ disk' = [p \in DiskPages |->
                        IF p \in page .. page + Len(pages) - 1
                        THEN memory[pages[p - page + 1]] ELSE disk[p]]
          /\ cache' \in Added(cache, state[wr].cache_id, FirstPage(wr), pages)
          /\ m_dirty_pages' = Undirtied(Len(pages))
    /\ UNCHANGED <<memory, m_states, disk_free, committed, next_cache_id, lost, stray>>

OwnerFlushed(wr) ==
    /\ m_latch[wr] = "owner" /\ Written(wr)
    /\ owner' = [WokenBy(wr) EXCEPT ![wr] = "flushed"]
    /\ m_latch' = [m_latch EXCEPT ![wr] = "free"]
    /\ flushing' = [flushing EXCEPT ![wr] = NotFlushing]
    /\ UNCHANGED <<state, flusher>>

\* flush_thread: on to the next file that has pages and that nobody flushes.
Sweep(todo, latch, fl) ==
    LET next == SelectInSeq(todo, LAMBDA s : latch[s] = "free" /\ state[s].cached_pages # <<>>)
    IN IF next = 0
       THEN /\ flusher' = "off"
            /\ m_latch' = latch /\ flushing' = fl /\ UNCHANGED state
       ELSE /\ flusher' = "busy"
            /\ m_latch' = Latched("flusher", todo[next], latch)
            /\ flushing' = TakePages(todo[next], fl)
            /\ state' = [state EXCEPT ![todo[next]].cached_pages = <<>>]

\* Mutant: a thread may run before one that was put into the run queue earlier.
FlusherTurn_AnyOrder == TRUE

\* The run queue is first in first out, and a flush thread is created after the
\* one before it ended: the owner that the last one signalled runs first.
FlusherTurn == \A wr \in Writers : owner[wr] # "latch free"

FlusherStarts ==
    /\ flusher = "created" /\ FlusherTurn
    /\ Sweep(m_states, m_latch, flushing)
    /\ UNCHANGED <<cache, memory, m_dirty_pages, m_states, owner, disk, disk_free, committed,
                   next_cache_id, lost, stray>>

FlusherFlushed(wr) ==
    /\ m_latch[wr] = "flusher" /\ Written(wr)
    /\ owner' = WokenBy(wr)
    /\ Sweep(SubSeq(m_states, SelectInSeq(m_states, LAMBDA s : s = wr) + 1, Len(m_states)),
             [m_latch EXCEPT ![wr] = "free"], [flushing EXCEPT ![wr] = NotFlushing])

-----------------------------------------------------------------------------
(* The end of a file *)

Close(wr) ==
    /\ m_states' = RemoveFirst(m_states, wr)
    /\ state' = [state EXCEPT ![wr] = NoState]

\* file_writer::commit and the destructor.
Commit(wr) ==
    /\ owner[wr] = "flushed"
    /\ committed' = committed \cup {[cache_id |-> state[wr].cache_id, size |-> state[wr].size,
                                     extents |-> state[wr].extents]}
    /\ owner' = [owner EXCEPT ![wr] = "closed"]
    /\ Close(wr)
    /\ UNCHANGED <<cache, memory, m_dirty_pages, m_latch, flushing, flusher, disk, disk_free,
                   next_cache_id, lost, stray>>

DirtyPages(wr) == Len(state[wr].cached_pages) + (IF state[wr].mem_page = NoPage THEN 0 ELSE 1)

\* The write in flight for a file: where its pages go, and what is in them.
InFlight(wr) ==
    {<<Last(state[wr].extents).page + i - 1, memory[flushing[wr].pages[i]]>> :
        i \in IF flushing[wr].allocated THEN DOMAIN flushing[wr].pages ELSE {}}

\* The destructor of a file that was not committed: disk_writer::remove.  Nobody
\* looks at m_latch.  If the flush thread has the file's pages, its request to
\* the disk goes on, with pages that nobody else refers to and into space that
\* is free again; what it does when it returns, to a state that was freed and
\* may be another file's by then, is undefined, and it has no further step here.
Abort(wr) ==
    /\ owner[wr] \in {"idle", "flushed"}
    /\ cache' = [cache EXCEPT !.free = @ \cup ToSet(state[wr].cached_pages)
                                        \cup ({state[wr].mem_page} \ {NoPage})]
    /\ disk_free' = disk_free \cup DiskPagesOf(state[wr].extents)
    /\ m_dirty_pages' = m_dirty_pages - DirtyPages(wr)
    /\ owner' = [o \in Writers |-> IF o = wr THEN "closed"
                                   ELSE IF owner[o] = "awaits page" THEN "signalled" ELSE owner[o]]
    /\ Close(wr)
    /\ lost' = lost \cup ToSet(flushing[wr].pages)
    /\ stray' = stray \cup InFlight(wr)
    /\ m_latch' = [m_latch EXCEPT ![wr] = "free"]
    /\ flushing' = [flushing EXCEPT ![wr] = NotFlushing]
    /\ UNCHANGED <<memory, flusher, disk, committed, next_cache_id>>

\* A page of a dropped file reaches the disk.  It stays in stray: to reach the
\* disk again leads to no state that to reach it only then would not lead to.
StrayLands ==
    /\ \E w \in stray : disk' = [disk EXCEPT ![w[1]] = w[2]]
    /\ UNCHANGED <<cache, memory, m_dirty_pages, m_states, state, m_latch, flushing, owner,
                   flusher, disk_free, committed, next_cache_id, lost, stray>>

\* file_reader::unlink, when a slice is destroyed.
Unlink(f) ==
    /\ committed' = committed \ {f}
    /\ disk_free' = disk_free \cup DiskPagesOf(f.extents)
    /\ UNCHANGED <<cache, memory, m_dirty_pages, m_states, state, m_latch, flushing, owner,
                   flusher, disk, next_cache_id, lost, stray>>

\* disk::allocate or disk::write throws in the owner's flush, after some of the
\* pages were written, and the owner drops the file: disk_writer::remove finds
\* the extents, the one just allocated too, and no pages.  The entry of m_latch
\* stays, under an id that is not used again.  The pages that flush_pages has
\* swapped out go with its stack frame and count as dirty for ever.  (In the flush thread nothing
\* catches the exception and the program ends.)
FlushFails(wr) ==
    /\ m_latch[wr] = "owner" /\ flushing[wr].pages # <<>>
    /\ \E n \in 0 .. (IF flushing[wr].allocated THEN Len(flushing[wr].pages) - 1 ELSE 0) :
          disk' = [p \in DiskPages |->
                     IF n > 0 /\ p - Last(state[wr].extents).page \in 0 .. n - 1
                     THEN memory[flushing[wr].pages[p - Last(state[wr].extents).page + 1]]
                     ELSE disk[p]]
    /\ lost' = lost \cup ToSet(flushing[wr].pages)
    /\ disk_free' = disk_free \cup DiskPagesOf(state[wr].extents)
    /\ flushing' = [flushing EXCEPT ![wr] = NotFlushing]
    /\ m_latch' = [m_latch EXCEPT ![wr] = "free"]
    /\ owner' = [o \in Writers |-> IF o = wr THEN "closed"
                                   ELSE IF owner[o] = "awaits page" THEN "signalled" ELSE owner[o]]
    /\ Close(wr)
    /\ UNCHANGED <<cache, memory, m_dirty_pages, flusher, committed, next_cache_id, stray>>

OwnerStep(wr) == RunAgain(wr) \/ AwaitFlusher(wr) \/ NothingToFlush(wr) \/ StartFlush(wr)
Flushing(wr) == AllocateSpace(wr) \/ OwnerFlushed(wr) \/ FlusherFlushed(wr)

DiskWriterNext ==
    \/ \E wr \in Writers :
          \/ Open(wr) \/ AwaitPage(wr) \/ AllocatePage(wr) \/ WritePage(wr) \/ FlushLast(wr)
          \/ OwnerStep(wr) \/ Flushing(wr) \/ Commit(wr) \/ Abort(wr)
          \/ FlushFails(wr)
    \/ FlusherStarts \/ StrayLands
    \/ \E f \in committed : Unlink(f)

\* Threads that are in the run queue run, and disk requests return.  A caller
\* that has a file open may do nothing with it for ever.
DiskWriterSpec ==
    /\ DiskWriterInit /\ [][DiskWriterNext]_writerVars
    /\ WF_writerVars(FlusherStarts)
    /\ \A wr \in Writers :
          /\ WF_writerVars(Flushing(wr))
          /\ WF_writerVars(owner[wr] # "idle" /\ OwnerStep(wr))
          /\ WF_writerVars(owner[wr] = "signalled" /\ (AwaitPage(wr) \/ AllocatePage(wr)))

-----------------------------------------------------------------------------
(* Properties *)

OpenPages(wr) == ToSet(state[wr].cached_pages) \cup ToSet(flushing[wr].pages)
                    \cup ({state[wr].mem_page} \ {NoPage})

DirtySet == lost \cup UNION {OpenPages(wr) : wr \in Writers}

\* Every memory page is free, in the cache, held by exactly one open file, or lost
\* in the flush of a file that was dropped; the dirty pages are the ones of the
\* last two kinds.
MemoryInOnePlace ==
    /\ ListsMatchMap(cache) /\ PagesMatchMap(cache)
    /\ Cardinality(cache.free) + Cardinality(Cached(cache)) + m_dirty_pages = Cardinality(Pages)
    /\ m_dirty_pages = Cardinality(DirtySet)
    /\ DirtySet \cap (cache.free \cup {cache.item[k] : k \in Cached(cache)}) = {}
    /\ \A wr \in Writers : OpenPages(wr) \cap lost = {}
    /\ \A wr, x \in Writers : wr # x => OpenPages(wr) \cap OpenPages(x) = {}

\* disk_reader::get_disk_page.
get_disk_page(file_page, extents) ==
    LET before(i) == PagesUpTo(extents, i - 1)
        i == Min({j \in 1..Len(extents) : before(j) + extents[j].pages > file_page})
    IN extents[i].page + file_page - before(i)

\* A reader finds every page of a committed file: on the disk where it looks for
\* it, since no page is lost between the owner and the flush thread, none is out
\* of order, and no other file was given its place, unless a write for a dropped
\* file came after it; and what the cache has under the key of a page is that page.
CommittedFilesReadable ==
    /\ \A k \in Cached(cache) : memory[cache.item[k]] = k
    /\ \A f \in committed :
          /\ SizeOf(f.extents) = f.size
          /\ \A n \in 0 .. f.size - 1 :
                LET p == get_disk_page(n, f.extents)
                IN disk[p] = <<f.cache_id, n>> \/ <<p, disk[p]>> \in stray

\* flush_thread goes on from the entry of the state that it has flushed, and
\* slabs.h:73 asserts that the entry was not freed meanwhile.  The run with
\* aborts at any time violates it.
FlushedStateIsOpen ==
    flusher = "busy" => \E wr \in ToSet(m_states) : m_latch[wr] = "flusher"

\* Only dropping a file takes its state from under the flush thread: an owner that
\* commits has waited for it, though it does not look at the latch again.
FlushedStateStaysOpen ==
    [][FlushedStateIsOpen => FlushedStateIsOpen' \/ \E wr \in Writers : Abort(wr)]_writerVars

\* A writer that waits for a page gets one, though the other writers may keep
\* partly filled pages for ever, if there can be as many dirty pages as writers.
\* The pages that were lost count against that limit.
PageWaitEnds ==
    \A wr \in Writers : owner[wr] = "awaits page" ~> owner[wr] = "idle" \/ lost # {}

\* A file whose owner began to flush it is flushed, or dropped when that fails;
\* the failures of others do not keep it waiting.
FlushEnds == \A wr \in Writers : owner[wr] = "flushes" ~> owner[wr] \in {"flushed", "closed"}
=============================================================================
