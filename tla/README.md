# A verification project for tyrdbs

TLA+ models of the core of tyrdbs, the TLC runs that check them on small
instances, and TLAPS proofs of the properties that matter most for every
instance. Line numbers refer to the repository's files; `PROJECT.json` maps
every definition to the lines it models.

## The system

tyrdbs is a framework for databases: one OS thread per core runs cooperative
green threads over io_uring, and a log-structured merge tree (a *ushard*) keeps
immutable sorted files (*slices*) in tiers.

| Component | State | Operations | Talks to |
| --- | --- | --- | --- |
| page allocator (`common/allocator`) | free extents in two orderings, capacity, pages handed out | allocate (best fit), free (coalesces), extend | disk |
| disk (`storage/disk`) | allocator, growth in progress, condition | allocate (retries), allocate_space (yields), remove | allocator, file, condition |
| disk writer (`storage/disk_writer`, `file_writer`) | dirty pages, a latch per file, list of open files | allocate_page (waits at the limit), flush_pages, flush_thread, remove | disk, page cache |
| disk reader and page cache (`storage/disk_reader`, `cache`, `latch`, `common/wtinylfu`) | memory pages, three lists of cached keys, latches with reference counts | read (loads once for all readers), allocate (evicts), add | disk |
| node cache (`tyrdbs/cache`) | decompressed nodes by slice and location, latches | set, get (loads) | slice, disk reader |
| slice (`tyrdbs/slice`, `slice_writer`, `node*`) | an immutable B+ tree in one file, reference count, unlink mark | add, flush, commit, range, begin, unlink | disk writer and reader, node cache |
| ushard (`tyrdbs/ushard`) | slices per tier | add, merge, compact, range, begin, drop | slices, callbacks `meta_callback` |
| merging iterator (`ushard_iterator`) | one iterator per slice, sorted | next | slices, async jobs |
| merge threads (`tests/db_server`, `tests/ushard_test`) | ring queue of requests, tier locks, condition | take a request, merge, compact | ushard |
| database server (`tests/db_server`) | open updates and readers by handle, `idx` | update_data, commit_update, rollback_update, fetch_data, abort_fetch | ushards |
| green threads (`gt/`) | run queue, counters, contexts; conditions, jobs, mutexes | yield, enqueue, create, end; wait, signal; run | everybody |
| io engine (`io/io_uring`, `queue_flow`) | slots, requests in flight | the requests, `io_uring_thread` | gt, kernel |
| ring queue, slabs and lists in them (`common/`) | slots, free chains, links | push, pop, allocate, free, erase | gt, disk writer, db_server |
| rpc (`net/rpc_*`, `io/channel`, `common/buffered_reader`) | a buffer at each end of a connection; the open connections | execute, wait, worker_thread; accept, terminate | db_server, clients |
| http (`net/http_*`, `common/buffered_writer`) | buffers for a request and for answers | load_line, parse, write, flush | a service |
| bit codecs (`tyrdbs/gorilla_*`, `common/bit_*`) | one word of bits, the last timestamp, step, value and window | write, flush, next | none |
| messages (`message/`, the generated `*.json.h`) | a buffer, offsets into it | add, set_offset, finalize; parse, next | rpc, db_server, its clients |

What is hard here: every call that may do I/O yields, so state read before it
can be stale after it; slices are captured, unlinked, read and freed by
different threads; memory pages pass between readers, writers, the flush thread
and the cache; requests for merges are dropped and signals wake one thread
only; updates commit out of order and over several ushards; values are split
over nodes, over answers and over requests; messages are cut up anywhere; a
timeout is a second request that waits for a slot of its own; the io thread sleeps
in the kernel when it believes that nobody can run; exceptions leave flags and
latches behind. The list, with the lines where each bites and the property that would catch it, is
`hazards` in `PROJECT.json`.

## Modules

- `Allocator` models `common/allocator`. `m_free_set` and `m_idx_set` hold
  extents; the packed `uint64_t` keys compare like the pairs of `OrderedBySize`
  and `OrderedByIdx`, and `BestFit`, `NextIt` and `PrevIt` are the `lower_bound`
  searches. `owned` is the caller's side: the pages handed out. `AllocatorInit`
  is the state after the constructor of `disk` has extended the empty allocator
  by the size of the file, which is 0 in every program of the repository: an
  extent of no pages is then in both sets for good. `free` gives back any run of owned pages, because
  `allocator_test` frees parts of what it allocated.
- `Disk` extends it with `storage/disk`: threads that ask for pages, one of
  which grows the file (the yield in `io::file::allocate` lies between
  `StartGrowth` and `EndGrowth` or `GrowthFails`) while the others wait on the
  condition, and that remove files. `running` is the thread between two yields.
- `Entries` has what an iterator makes of the entries of several slices
  (`Newest`, and `Live` without the deletions). `MergeIterator` models
  `ushard_iterator` itself, `cmp`, `next` and `advance`, with values in several
  parts, and is checked against `Newest`.
- `Store` is the abstract specification of a ushard: a set of committed updates
  of which a reader sees the newest entry of every key, and keeps what it saw.
- `Ushard` models `tyrdbs/ushard` with the callers around it: writers
  (`Begin`, `Commit`, `Rollback`), readers (`Open`, `Close`), merge threads
  (`MergeStart`, `MergeSkip`, `MergeWait`, `CompactStart`, `Finish`) and the
  owner (`Drop`). merge and compact capture their slices and unlink them, yield
  for a long time, and at the end swap the result in without a yield, hence two
  steps. `Referenced` and `Reap` are the shared_ptrs and `~slice`. An iterator
  holds all its slices until it is destroyed; the code lets go of an exhausted
  one sooner. `UshardInv` is the inductive invariant.
- `Fifo` and `RingQueue`: `common/ring_queue.h` as a refinement of a queue.
- `Gt` models `gt/engine`, `gt/condition`, `gt/async` and `io/io_uring` with
  `io/queue_flow`: the run queue, the counters, user threads that may do
  anything the interface allows, the io thread, and the kernel (external). A
  request of a channel first takes a resource of the channels' `queue_flow`
  (`AcquireChannel`), then a slot (`Request`), and, if it has a timeout, a second
  slot for that (`add_timeout_to`), with a possible yield at each of the three.
  `setting` has the queue sizes that a program chose in `main`. A timeout that is
  submitted with its request is armed and may expire; one that comes alone is
  refused by the kernel at once. Its length is left out (`add_timeout_to` hands
  the kernel the address of a local variable that is gone by the time of the
  submission).
- `Mutex` models `gt/mutex` on such a run queue.
- `Slice` models `slice_writer`, `index_writer`, `node_writer` and iteration over
  a `slice`. `Add` is the whole of `slice_writer::add`, with the loop
  that splits a value (`AddParts`); `FlushSlice` builds the index levels; `begin` is
  an operator on the finished tree. Node space is counted in units. `SliceRange`
  has the lookups of `node` and `slice`: `range` is evaluated by its properties for
  every pair of keys. Loops are functions of the number of passes: a level of the
  index each for `IndexAdd` and `IndexFlush`, and for `AddParts` one more pass than the
  value has bytes at most, besides the one that finds a full node.
- `WTinyLfu` has the operations of `common/wtinylfu` as operators on a cache;
  what the frequency sketch says of two keys is left open (`MoreFrequent`).
  `PageCache` makes `storage/cache` of it, with its memory pages.
- `DiskReader` models `disk_reader` and `latch`: hit, the first reader's load, the
  others' wait, the last one's insertion, and reads that throw. `DiskWriter`
  models `disk_writer` and `file_writer` on the same cache: the limit on dirty
  pages, the flush thread on the run queue, the owner's final flush, commit,
  rollback, and the later removal of the file. `Abort` drops a file at any time,
  also while the flush thread has its pages: its write goes on (`InFlight`), and
  `StrayLands` is any page of it that reaches the disk later, in space that may be
  another file's by then. What the flush thread does when that write returns is
  undefined (it goes on with a state that was freed), and it has no further step in
  the model. `FlushFails` is a write that
  fails, possibly after a part: the file is given up, its extents are freed, and
  the pages that were taken off it are `lost` and counted as dirty for good. In
  the flush thread nothing catches the exception, and the program ends, which
  the prefixes of the behaviours cover. `NodeCache` models `tyrdbs/cache`
  between slice writers, which put their nodes into it before they know where
  the next node will be, and readers.
- `Deque` and `SlabList`: `common/slabs.h` and `common/slab_list.h` as a
  refinement of a double-ended queue.
- `DbServer` models the updates of `tests/db_server`: clients with a connection
  each, handles, slices in several ushards, commit, rollback, the limit on
  slices, merges (by their effect; `Ushard` has the details). Each call runs to
  its next yield; the yields are in `update_entries` and in the wait for slices.
  The slices of a ushard are in the order of their commits, so that a merge replaces
  those that it captured (`Captured`) and leaves those that came in since
  (`CommittedSince`). First calls may overlap; `overlapped` remembers which did.
- `Fetch` models `fetch_data` and `abort_fetch` with the loop of
  `tests/db_fetch_client_seq` that puts values together again.
- `Rpc` models one connection between `rpc_client` and `rpc_server` down to the
  bytes that `send_all` and `buffered_reader` move.
- `Message` has `message/builder.h`, `parser.h` and `element.h` as operators on
  bytes: structs with their sizes and offsets, lists, integers and strings, and
  the errors of both sides. `Update` uses them as the generated code does, for
  the messages of an update: `fill_entries` of `tests/db_update_client_seq`,
  `update_data` and `commit_update` of `tests/db_server` with `update_entries`,
  `slice_writer::check`, and the answers.
- `Http` models a worker of `http_server` with `http::reader`, `http::request` and
  `buffered_writer`. A character is one of five kinds, which is what the regular
  expressions of lines tell apart.
- `Server` models the connections of `rpc_server` (`http_server` has the same
  code): accept, worker threads, clients that ask and leave, and `terminate`.
- `Gorilla` models the codecs bit by bit, on words of any width.
- `DiskProofs` (`Allocator`, `Disk` and `Slice`), `UshardProofs` (`Ushard` and
  `MergeIterator`), `GtProofs` (`Gt` and `SlabList`), `CacheProofs` (`DiskReader` and
  `NodeCache`), `DiskWriterProofs` and `CallProofs` (`DbServer`, `Rpc`, `RingQueue`,
  `Fetch` and `Http`) hold the theorems. `CacheTheorems` has the lemmas on `PageCache` and
  `WTinyLfu` that reader and writer share, `ListTheorems` those on lists, on least
  numbers and on recursive functions that most proofs share.
- `MCUshard` and `MCGt` give constants their values for TLC. `MCDisk`, `MCData`,
  `MCCaches` and `MCCalls` put parts that share no state into one run: the
  variable `part` picks one of them in the initial state, and the others rest.
  Their states add up instead of multiplying, and every behaviour is one of the
  part that was picked.

Operators named `X_Something` before a definition `X` are variants of it with a
plausible mistake; no specification uses them. With `X` replaced by its variant
the property named in `PROJECT.json` is violated, which shows that the property
depends on the code it is about.

## Runs

| Run | Instance | What it shows |
| --- | --- | --- |
| `disk` | space: 3 threads, so that two can wait; an empty file, growing by 2 pages up to 4; with and without preallocation; writers: 2, with 2 files of 2 pages, 3 memory pages, limit 2, writes that fail, files dropped at any time | no page lost, given twice or unbacked; free space is cut at page 0 only; every allocate returns unless the disk is full or a growth failed; memory owned once, committed files readable, the flush thread loses its file to an abort only, waits for a page and flushes end |
| `disk_empty_file` | 2 threads; an empty file, growing by 2 pages up to 4 | **violated**: the whole capacity cannot be allocated again |
| `flush_abort` | the writers of `disk` | **violated**: the flush thread goes on from a freed state |
| `ushard_merge` | 2 writers, 2 merge threads, 4 updates of one key, limit 1 per tier | slices are unlinked once, overfull tiers are scheduled and shrink, `Store` is implemented although updates commit out of order |
| `data` | ushard: 1 writer, 1 reader, 1 thread that merges and compacts, 4 updates of one or two keys; merge: 3 slices, 2 keys, values of up to 2 parts, begin and every range; slice: 5 adds of 5 keys with values of 0, 2 and 5 units, leaves of 4, 2 entries per index node; ring: 4 slots at first, up to 8 items; slabs: 2 of 3 entries; gorilla: 4 samples of 6 timestamps and 5 values, words of 8 bits | the newest committed data is visible, pages are freed in time, dropped deletions bring nothing back; the iterator yields the newest entries in order; an iteration over a slice puts every value together, and where no value is split a range is complete, but for a lower end between two leaves; the ring is a queue and the list a deque; samples are read back |
| `gt` | 3 user threads, the io thread; 2 slots, 1 channel request at a time, no timeouts; or 2 of the threads, 3 slots, timeouts | everybody is in one queue, slots are counted, the io thread sleeps only when it may, requests return although peers never answer, run() ends |
| `gt_timeouts` | 2 user threads, 2 slots, 2 channel requests at a time with timeouts | **violated**: a thread is enqueued twice |
| `slice_point` | 7 keys with values that are split | **violated**: a split value is not found by its key |
| `caches` | pages: 3 readers, 1 writer, 4 keys, 3 pages, failed reads; nodes: a slice of up to 4 nodes, 2 readers | no page in two places, own page read, everybody is released; cached nodes are linked as in the file |
| `db_server_overlap` | 2 clients that may leave, 2 ushards, 4 updates, limit 2 | **violated**: first calls overlap, and one update replaces another |
| `calls` | rpc: 3 calls, buffers of 6 and 5 bytes, every cut; fetch: 2 keys, values of 3 parts of 4, answers of 8; update: 1 to 4 keys over 2 ushards, buffers of every size from 63 to 150 bytes; db: 2 clients of which one may leave, 2 ushards, 3 updates whose first calls may overlap, limit 2; http: 3 of 8 requests, buffers of 9, answers of 0, 1 and 10; server: 2 connections | answers match calls and calls end; values arrive whole and fetches end; the entries of an update get into the slices of their ushards; updates that start alone are whole, those held back start; requests are answered in order; terminate ends the server |
| `mutex` | 3 threads | **violated**: a waiter finds the mutex locked |

Bounds. In `disk`, the file starts empty, as that of every program of the
repository does, and there is room to grow twice; free finds neighbours on both
sides, on one or on none, and the empty extent at page 0. With `MaxSlicesPerTier` 1 instead of 4 and a tier
per bit of the key count, four updates are the least with which a merge runs
while its tier fills up again, its result lands in the next tier, and a request
is dropped because the tier is locked: with three, a merge thread that forgets
the tier goes unnoticed. Two slots for three threads make one of them wait for a
slot. In `Slice` five adds give a tree of three levels and every way to fill,
split and leave its leaves. The lists of the cache hold one key each, with one
key more than pages, so that every list overflows into the next. `DiskWriter`
needs two writers, one at the limit of dirty pages while the other flushes or drops
its file; with two files of two pages one can be dropped in a flush, and the other
be given its space and be committed before the write for the first one lands. In
`DbServer` the limit of two slices is the number of ushards, so that what merges
leave is within it, and of three updates two can overlap and the third be alone. Words
of 8 bits with nibbles of 2 give windows of every start and length, and the small
timestamps reach every code on both sides of its limits. The buffers of `Rpc`
hold messages of more than one size, and the client's one more byte than the
server's, so that a request can be too big. An answer of `Fetch` has room for
one or two entries, so that values are cut at every place. The buffers of `Update`
go from the smallest in which a byte of a value fits beside a handle, 63 bytes,
to one for all four entries, so that every value is cut at every place and
messages end with an entry that just fits or just does not. The 9 characters of
`HttpBuffer` hold the longest of the good requests exactly; one of the bad ones
fills it with its line, another is longer, and three requests can be on their
way together. An answer of 10 is one more than `send_buffer` holds.

Some constants state what the repository's callers do, or keep a run to the case
that works: `WideSteps` is in the list of disagreements below; `Leavers` in `calls`
has one client only, because the states of two that leave at any place would be too
many (in `db_server_overlap` both may); `PartsFitAssumption` of
`Slice` leaves out single values of more than about 63 KB, for which `add` never
ends; the clients of `Fetch` ask for ranges that are not empty. Symmetry is used
only where no liveness is checked. Deadlock checking is off where the system may
stop: nobody has to call, and `run()` returns.

Fairness. The run queue is FIFO and the io thread reports every completion, so
a green thread that can run does: weak fairness of the OS thread's steps and of
the kernel in `Gt`, of every merge thread in `Ushard`, and strong fairness of
every thread in `Disk`, where a thread cannot step while another one is running.
The kernel of `Gt` completes what a file asks for and what has been cancelled, and
timeouts expire; what a channel asks for need never complete, because its peer
need never answer.
In `DiskWriter`, `Rpc`, `Fetch` and `Server` weak fairness is on what a thread does once
its I/O or its signal has come; `DiskWriter` keeps the order of the run queue
itself where it matters. In `DbServer` it is on the merges and on clients in an
update, which finish it unless they leave; `HeldBackUpdatesStart` excepts the
case that one has left, because then the server really may stop taking updates.
`Update`, `Http` and `Mutex` state no liveness. Elsewhere callers are never forced
to act.

## Disagreements with the repository's tests and assertions

With a run of their own:

- `slice_writer::add` (`tyrdbs/slice_writer.cpp:119`) loses the index entry of, or
  files under the wrong leaf, a value that is split over leaves. A range from its
  key, as `tests/ushard_test.cpp` makes for every key, does not find it
  (`slice_point`).
- `update_data` (`tests/db_server.cpp:162`) reads `idx` again after it has
  yielded. First calls that overlap share a handle, and one update is lost
  (`db_server_overlap`).
- An empty file is opened with `extend(0)` (`storage/disk.cpp:84`), which leaves
  the extent (0, 0) in both sets for good. A run that is freed at page 0 finds it as
  its right neighbour (`common/allocator.cpp:36`) and is not joined with the run that
  really follows, so a disk that is entirely free cannot serve a request for its
  whole capacity, as `tests/allocator_test.cpp:37` and `:54` expect of an allocator
  (`disk_empty_file`). It happens at page 0 only: `FreeSpaceIsCutOnlyAtItsStart`.
- A file that is rolled back while the flush thread is writing its pages
  (`storage/disk_writer.cpp:206`) is freed under it; the next step of the flush
  thread fails the assertion in `slabs.h:73` (`flush_abort`). Its space is free
  again while the write is under way, so that the write can land in a file that was
  given that space and committed since: `CommittedFilesReadable` excepts the pages
  on the disk that such a write has overwritten (`stray`), and without the
  exception TLC violates it, in 18 steps.
- `add_timeout_to` (`io/io_uring.cpp:155`) may yield for its slot when the request
  is already prepared. The request is then submitted without its timeout, and
  when it completes its thread is enqueued for the completion and again for the
  slots that became free, against the assertion of `engine::enqueue`
  (`gt/engine.cpp:122`). It takes as many requests as `io::initialize` has slots,
  4096 in the repository's programs, whose network queue depth is a parameter
  (`gt_timeouts`).
- `mutex::unlock` (`gt/mutex.cpp:27`) frees the mutex and only enqueues the
  waiter. Whoever runs before it can lock, and the waiter fails its assertion in
  line 18 (`mutex`). Nothing in the repository uses `gt::mutex`.

Left out of the runs by a constant, or allowed for by the property:

- The assertion against steps of more than 32 bits (`gorilla_writer.h:172`) masks
  with 0 and never fails; such timestamps are read back wrong. `SamplesReadBack`
  is violated with `WideSteps = TRUE` in `MCData.cfg`.
- `find_node_for` (`tyrdbs/slice.cpp:253`) gives up when `min_key` lies between
  two leaves, although the next leaf may be in the range, while the README
  promises existence tests for ranges (`src/README.md:93`). `RangesComplete` says
  that this is the only such case: from such a key a range comes back empty, and
  from every other, in the slice or not, it is complete.
- A read that throws (`storage/disk_reader.cpp:27`) keeps its latch and its page:
  later readers of the page wait for ever, and after enough failures
  `slabs::allocate` fails its assertion. `ReadFails` is part of `caches`, which
  therefore states no liveness.
- A growth of the file that fails (`storage/disk.cpp:121`) leaves
  `m_allocation_in_progress` set. `AllocateReturns` excepts it.
- `send_all` (`io/channel.cpp:112`) turns "no timeout" into 1 after a short send:
  `SendTimesOut`. `CallsEnd` lets a call end with an exception for that reason.
- A write that fails (`storage/disk_writer.cpp:164`) leaves its pages counted as
  dirty: `PageWaitEnds` excepts the case that pages were lost.
- `terminate` (`net/rpc_server.h:27`) does not reach a worker whose thread has not
  run yet, and one that is in `process_message` then sends on a socket that is
  shut down. `channel::send` (`io/channel.cpp:89`) makes a `runtime_error` of
  EPIPE, which `worker_thread` does not catch: the program ends. The same happens
  when a client closes its end before its answer is sent. `TerminateEndsServer`
  excepts both.
- An http client that is gone when an error is to be sent (`http_server.h:144`)
  ends the program too, and a disconnect during a flush leaves data in the buffer,
  against the assertion of `~buffered_writer` (`buffered_writer.h:127`).
  Both are steps of `Http`; `RequestsAnsweredInOrder` is about the clients that
  are there.
- `channel::recv` holds a resource of the channels' queue while it waits for its
  peer (`io/channel.cpp:28`). With as many silent connections as the queue is
  deep, nobody can send. `Gt` has such behaviours, and its liveness is about
  requests that have their resources.
- Seen in passing, without a model: the value of an http response header is cut
  to the length of a group that does not exist (`http_response.h:69`);
  `integral_type::parse` takes its offset in the type of the value
  (`element.h:38`), so an integer of 8 bits could only be read from the first 255
  bytes of a message.

## Proofs

All proofs hold for every value of the constants that satisfies the assumptions
named in the modules, and are checked to the last leaf.

`DiskProofs`, for the allocator. The inductive invariant `AccountingInv` is the conjunction of
the types, of `SetsMirror`, `PagesAccountedFor`, `SizeIsOwned` and of
`EmptyOnlyAtZero` (the only empty extent is the one of a fresh file).
`PagesAccountedFor` is not
inductive alone: allocate erases the same extent from both sets only if they
agree, and coalescing an empty extent elsewhere would join runs that do not
touch. Theorems: `AllocatorTypes`, `PageAccounting`, `FreshPages` and
`FreeSpaceStaysWhole`, for every size of the file when it is opened. The last one says
of a step that it leaves two free pages side by side in different extents only where
they were so before, or where a run at page 0 was given back while the empty extent
was there (`EmptyExtent`); on a file that was opened with pages, there never is one.
No bound on the number of such cuts follows: runs at page 0 of different lengths
can be taken and given back one after the other.

For one slice, `SliceReadsAll`. `PartsInv` says that between two `add`s the parts in
the leaves, with those of the node that is being filled, are what was added: the same
keys and deletions, for each key the same bytes, the parts of a record together and
records in order; `m_last_key` and `m_last_eor` are those of the last part, so that
`check` lets only a part through that may follow. Inside of `add` (`Adding`) the same
holds of the parts and of the rest of the value, and a record is not ended before its
rest is empty. The loop ends within its bound: every pass but the first finds an
empty node, and then copies a byte or is the last (`PartsFitAssumption`). Index nodes
that are stored meanwhile (`Kept`) change neither the parts nor the links, each node
being linked to the one behind it, and `flush` cuts the chain at the last leaf. What
the index says is not in the invariant: iteration from the beginning does not use it.

`UshardProofs`, for the slices. `SliceInv` says what a running merge may rely on: no slice is in
the tier map twice, what a merge captured is still the front of its tiers
(`CapturedInFront`: adds go to the back and nobody else removes from a locked
tier), a slice in the tier map is unlinked only while it is being merged, and
the freed slices are the unlinked ones that nobody references. From it:
`UshardTypes`, `NoSliceUnlinkedTwice`, `PagesFreedInTime`.

For the entries, `EntryInv` adds the data: key and idx determine an entry,
the slices hold committed entries only, and every committed entry is
`Accounted` for, by itself, by a newer one, or by a committed deletion that a
compaction dropped; with compactions, what a compaction did not capture is newer
than what it did. `ReadersSeeNewestCommitted` follows. The assumption
`CompactingAloneAssumption` (with compactions, one writer and one merge thread,
as in `ushard_test`) is what compact relies on without checking it.

`NoOverfullTierForgotten` adds to `SliceInv` that a tier is
locked exactly while a thread merges it: a request that is dropped because of
the lock is dropped while `Finish` has still to look at the tier again.

`UshardImplementsStore` is the refinement of `Store`. A commit maps to
`StoreCommit`, and every other step leaves `View` and the snapshots alone: a merge
because it captures the whole front of its tiers, a compaction because everything
it did not capture is newer, so that the deletions it drops hide nothing any
more. Readers keep their slices, whatever is unlinked.

For the iterator, `MergeYieldsNewestInOrder`. `MergeInv` says what is left in the
slices: runs of parts, no entry in two of them, everything of the range that is not
left at or before the last key, and what is wanted either yielded or left; and
where the iterator is: its elements in order of key and age, the current entry
yielded or, inside of the loop of `next`, an entry that a newer one hides. What the
sort returns is not computed: it is ordered and holds the same elements, which is
all that the proof uses. `From` gives each slice its part of the range complete;
when a slice gives nothing is the subject of `RangesComplete` of `SliceRange`.

`DiskProofs`, for the disk. `DiskImplementsAllocator` shows that the
disk takes only steps of `AllocatorSpec`, so that `DiskPagesAccountedFor` and
`DiskFreeSpaceStaysWhole` follow. `DiskInv` adds `OneGrows` (the thread that grows the
file is alone in it, so the capacity that it read before the yield is still the
capacity), `ExtentsDisjoint` and `OwnedInExtents` (the pages handed out are those
of the extents, and no two extents meet); `DiskPagesAreBacked` and
`DiskFilesOwnTheirPages` follow.

`CallProofs`, for the ring. The arithmetic of the mask (`NextSlot`, `Place`, `Count`) is done
once in lemmas; with `ItemsPlaced` a push appends and a pop takes the head, whether
the ring wraps, is full and reallocates, or does neither. `RingIsFifo` is the
refinement of `Fifo`.

`GtProofs`. `GtInv` says of every context where it is: `EngineInv` (the run queue
holds the WAITING contexts once each, the counters count), `PlaceInv` (a suspended
context is in exactly the queue that its program point names), `JobInv` (a job has
one owner, which sleeps only while the job is not done), `TimeoutInv` (a timeout
belongs to a request of a holder of a channel resource, and is prepared before
that is submitted), and the counts of slots. `OnePlaceEach` alone is not inductive:
that a completion finds its thread suspended depends on which requests can
have a timeout and on when it is submitted. The theorems `GtNobodyLost`,
`GtSlotsAccountedFor` and `GtSleepsOnlyWhenIdle` assume `RoomForTimeouts`: programs
that use timeouts have slots for one request of every thread and one timeout of
every channel resource. Without it `gt_timeouts` is a counterexample. The settings
of the run `gt` satisfy it, and so does a program of the repository with its 4096
slots as long as its threads and its network queue depth are below that.

`GtProofs`, for the slabs. `SlabListIsDeque` is the refinement of `Deque`. `SlabInv` says
that there is a sequence without repetition which `front`, `back` and the links spell
out in both directions (`Deque`'s sequence is found by following the links, so the
proof shows that it is the only one), and that the pool is sound: the free entries
of every slab form its free list, the partial slabs are those with a free entry,
and the handles in use are the entries of the sequence. The second half is what
makes the first inductive: an entry that `allocate` gives out is not in the list.

`CacheProofs`, for the reader. `ReaderInv` is the conjunction of the types, of
`PagePlaces` (lists and map of wtinylfu agree, every page is free, cached, latched
or held by a writer), of `DataInPlace` (a cached page holds what its key says),
of `ReadersHoldLatches` (the reference count of a latch is the number of readers
that have it, and its page is theirs until the last one lets go) and of
`ReadsOwnPage`. The lemmas on `WTinyLfu` show what `Set`, `get` and `evict` do with
the three lists, whatever the sketch says of two keys, and `PagesCounted` turns
the disjoint union into the sum of `PagesInOnePlace`. For the nodes, `NodeInv` says
that what is cached of a slice is linked as its file is, but for the last node of
a slice that is still written, and that readers read committed slices only.

`DiskWriterProofs`, in which files may be dropped at any time.
`WriterFlushedStateStaysOpen` says that nothing else closes a file under the flush
thread; that dropping it does is the run `flush_abort`. What else could is its owner,
which waits for the latch and does not look at it again when it is woken
(`MayFlush`). `FlushInv`
therefore says who holds which latch, that a file whose owner has flushed it has no
pages left for the flush thread to take (`NothingLeft`), that there is one flush
thread with one latch, and `SweptPast`: the owners that it has signalled and that
have not run yet are before it in the list, so that it does not take their latch
again. That a new flush thread runs only after them is the run queue being first
in first out (`FlusherTurn`). The lemmas on the order of the list say that opening
and closing other files keeps it.

`WriterMemoryInOnePlace` and `WriterCommittedFilesReadable` rest on `WriterInv`, which adds
to `FlushInv` what is known of the data. What a writer
has and what a flush has taken from it make up the pages of its file (`StatesOK`).
Every file has a cache id of its own (`IdsOK`), and the pages of a file that are
not on the disk hold its next pages, in order (`PendingOK`). Those pages and the
ones that were lost are the dirty ones, which are counted, and all others belong
to the cache (`PagesOK`), where a page holds what its key says (`CachedOK`). A disk
page has one number in one file and the data of that page, or what a write for a
dropped file has put over it (`DiskOK`): so whoever
flushes, and whichever write fails in between, a committed file is on the disk,
every page under its number. The write-back of a flush puts its pages one by one
into a cache that evicts others; lemmas carry `CachedOK` through this recursion.

`CallProofs`, for `DbServer`. `DbUpdatesAreWhole` assumes nothing of the clients: first
calls of `update_data` may overlap, and `UpdatesStartedAloneAreWhole` is about the
others, which must not suffer from them (`db_server_overlap` is the counterexample for
those that do overlap). It needs to know what a commit will add. `HandlesNameUpdates`:
a handle is one more than the newest idx when it was given out; if that update
started alone, the handle names it, with entries in exactly the ushards it was sent
to and not committed, and if not, a writer with entries of overlapped updates
only. `ClientsOwnUpdates`: no two clients have the same update; a client whose update
started alone has the handle of it, any other has one that names no such update
(`HandleOf`); and while a first call is served alone its update is the newest and its
handle is free (`FirstCall`). And a merge replaces slices which are still there
(`MergingSlices`).

`CallProofs`, for `Rpc`. `RpcAnswersMatchCalls` is about bytes: those that an end was
sent and has not used are in its message, in its buffer or on the wire
(`Inbound`). `RpcInv` says that together with what is left to send they are
nothing, exactly the frame of the last request, or exactly the frame of the
last answer, whatever the sizes of the buffers and wherever the bytes are cut; or
the client is gone and nobody waits.

`CallProofs`, for `Fetch`. A place in the range is a number of values and a number of
bytes of the next one. A piece `Leads` from a place to another if it holds just the
bytes between them and is marked as the end of a value exactly if it is one.
`FetchInv` says that the client is at such a place (`ClientAt`), that the entries of
the answer lead on from there, and that what the server has left leads from where they end
to the end of the range (`OnTheWay`); and who has which of it at what stage. A step
cuts such a chain in two (`LeadSplit`, and `LeadsCut` in the middle of a part), or moves its
front to the client (`EntriesLead`). `FetchedValuesReassembled` follows, with the
space for the handle from the bytes that the loop counts (`TurnSends`).

`CallProofs`, for `Http`. `RequestsServedInOrder` assumes of the requests what makes
them requests, good ones or bad ones (`RequestsAssumption`): each of their lines ends
at its first `\r\n`, and the empty line is the last and only the last. `HttpInv` divides
what was sent into the requests that were served and the others, and says that the
stream holds just the rest of the others behind the lines that were read (`Unread`),
which are good and fit in the buffer. `AfterLine` is the step: what `load_line` takes
next is the line that completes a well-formed request, or a good line before it, or
the request is not well formed, because of this line or for want of room. On the way
back, what the client has got, with the buffer and the part that is not written
yet, is the sequence of all answers, until an error cuts the last one short
(`AnswersInOrder`).

What a recursive function computes (sums over extents or parts, the additions to a cache, a
walk along links, the entries that a client takes one by one) is proved by least
counterexamples: `LeastNatural` gives the first place at which a claim about it
would be wrong, and the place before it refutes that. `Recursion` gives the function in
the first place. This needs no induction over an operator.

Assumptions on constants, besides those on sizes: sets of threads are finite,
`NoItem` is no page, `NoThread` no thread, `CompactingAloneAssumption`,
`RequestsAssumption` and `PartsFitAssumption`.

Only model-checked:

- all liveness, which together with ENABLED is out of the prover's reach;
- `SamplesReadBack`, `RangesComplete` and `EntriesArrive`: `Gorilla`, `SliceRange`
  and `Update` (with `Message`) are written with RECURSIVE operators, and
  `Gorilla` with the operators on bits, which the prover does not take. `RangesComplete`
  also needs what the index says of the leaves, which `PartsInv` leaves open.

## Not modelled

Text (logging, command line, uri), generated code other than the messages of an
update, vendored code, raw file and socket calls, connect and listen, and
`http::response`, which no server uses. 32-bit page numbers are not wrapped: 2^32
pages are 16 TB. `Disk` stops growing at a bound where a
real disk reports that it is full; without preallocation the code never finds
out, and the bound is then the model's only. Compression and checksums of nodes
are left out, and so is `collection`, a map without behaviour. `Rpc` has no malformed
messages (`rpc_server.h:152`), which end a connection as its loss does. `DbServer`
has merges by their effect on one ushard, all of whose slices become one, where the
code merges a tier and leaves up to four slices in each (`ushard.cpp:263`): the limit
on slices must be above what merges leave, which the default is and a small
`--max-slices` need not be; and an update gets its writers when its call begins,
where `update_entries` makes them one by one between its yields. The files'
own `queue_flow` (`io/file.cpp:47`), a limit on their requests as that of the
channels, is not in `Gt`.
The frequency
sketch is any comparison. `Update` has one client and one update, and `Rpc` does
not look into what it carries; `snapshot` and the start of `db_server` are left
out.

## Plan

The order so far: pages, slices and green threads first, because everything
rests on them; then caches, writers and the server; then codecs and transport.
What is left:

1. The wait for channel resources with a bound on the connections, as a property of
   `Gt`; messages of `fetch_data` in `Fetch` as those of `Update`.
2. A composition of `DbServer` with `Store` for every ushard, so that merges and
   compactions of `Ushard` are covered through the refinement.
3. Proofs: the order of the entries of index nodes and the leaves they stand for, so
   that `RangesComplete` can be proved, with functions in `SliceRange` in place of its
   RECURSIVE operators.
