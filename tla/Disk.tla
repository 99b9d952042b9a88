--------------------------------- MODULE Disk ---------------------------------
(***************************************************************************)
(* storage::disk: the page space of one data file, shared by the green     *)
(* threads that flush files (disk::allocate) and drop them (disk::remove). *)
(* The free pages are an Allocator; this module adds growing the file.     *)
(*                                                                         *)
(* Green threads are cooperative: code runs undisturbed until it blocks.   *)
(* The variable running names the thread that is in the middle of such a   *)
(* stretch; everybody else waits for it to yield.                          *)
(***************************************************************************)
EXTENDS Allocator, Sequences

CONSTANTS
    Threads,        \* green threads that write and drop files
    NoThread,       \* nobody is in the middle of a stretch
    MaxExtents      \* bound: extents of one file

ASSUME NoThreadAssumption == NoThread \notin Threads
ASSUME MaxExtentsAssumption == MaxExtents \in Nat \ {0}

VARIABLES
    m_preallocate_space,        \* constructor argument; FALSE on block devices
    m_allocation_in_progress,   \* some thread is growing the file
    file_pages,                 \* pages of the file the kernel has allocated
    pc,                         \* where each thread is
    need,                       \* pages each thread asked for
    offset,                     \* capacity each growing thread has read
    extents,                    \* extents of the file each thread writes
    running,                    \* the thread between two yields
    failed                      \* ghost: the kernel refused to grow the file

diskOnlyVars == <<m_preallocate_space, m_allocation_in_progress, file_pages,
                  pc, need, offset, extents, running, failed>>
diskVars == <<allocatorVars, diskOnlyVars>>

DiskInit ==
    /\ AllocatorInit
    /\ m_preallocate_space \in BOOLEAN
    /\ m_allocation_in_progress = FALSE
    /\ file_pages = InitialPages
    /\ pc = [t \in Threads |-> "idle"]
    /\ need = [t \in Threads |-> 0]
    /\ offset = [t \in Threads |-> 0]
    /\ extents = [t \in Threads |-> <<>>]
    /\ running = NoThread
    /\ failed = FALSE

\* t yields, or returns to code outside this module, and is then at label.
Yield(t, label) ==
    /\ pc' = [pc EXCEPT ![t] = label]
    /\ running' = NoThread

\* t goes on to label without yielding.
GoOn(t, label) ==
    /\ pc' = [pc EXCEPT ![t] = label]
    /\ running' = t

-----------------------------------------------------------------------------
(* disk::allocate and disk::allocate_space *)

\* A thread asks for n pages.
Call(t, n) ==
    /\ running = NoThread /\ pc[t] = "idle"
    /\ Len(extents[t]) < MaxExtents
    /\ need' = [need EXCEPT ![t] = n]
    /\ GoOn(t, "allocate")
    /\ UNCHANGED <<allocatorVars, m_preallocate_space, m_allocation_in_progress,
                   file_pages, offset, extents, failed>>

\* m_blocks.allocate succeeds and disk::allocate returns the extent.
Allocated(t) ==
    /\ running = t /\ pc[t] = "allocate"
    /\ \E idx \in 0 .. m_max_idx :
          /\ allocate(need[t], idx)
          /\ extents' = [extents EXCEPT
                ![t] = Append(@, [idx |-> idx, size |-> need[t]])]
    /\ need' = [need EXCEPT ![t] = 0]
    /\ Yield(t, "idle")
    /\ UNCHANGED <<m_preallocate_space, m_allocation_in_progress, file_pages,
                   offset, failed>>

\* allocate_space while another thread is growing the file: condition wait.
AwaitGrowth(t) ==
    /\ running = t /\ pc[t] = "allocate" /\ allocateFails(need[t])
    /\ m_allocation_in_progress
    /\ Yield(t, "waiting")
    /\ UNCHANGED <<allocatorVars, m_preallocate_space, m_allocation_in_progress,
                   file_pages, need, offset, extents, failed>>

\* allocate_space asks the kernel for more pages (io::file::allocate yields).
StartGrowth_Unguarded(t) ==
    /\ running = t /\ pc[t] = "allocate" /\ allocateFails(need[t])
    /\ m_preallocate_space
    /\ m_allocation_in_progress' = TRUE
    /\ offset' = [offset EXCEPT ![t] = m_max_idx]
    /\ Yield(t, "growing")
    /\ UNCHANGED <<allocatorVars, m_preallocate_space, file_pages, need, extents,
                   failed>>

StartGrowth(t) ==
    /\ running = t /\ pc[t] = "allocate" /\ allocateFails(need[t])
    /\ ~m_allocation_in_progress
    /\ m_preallocate_space
    /\ m_allocation_in_progress' = TRUE
    /\ offset' = [offset EXCEPT ![t] = m_max_idx]
    /\ Yield(t, "growing")
    /\ UNCHANGED <<allocatorVars, m_preallocate_space, file_pages, need, extents,
                   failed>>

\* m_allocation_cond.signal_all() by thread t, which itself goes on to label.
SignalAll_SignalOne(t, label) ==
    \/ \E w \in Threads :
          /\ pc[w] = "waiting"
          /\ pc' = [pc EXCEPT ![t] = label, ![w] = "ready"]
    \/ /\ \A w \in Threads : pc[w] # "waiting"
       /\ pc' = [pc EXCEPT ![t] = label]

SignalAll(t, label) ==
    pc' = [w \in Threads |-> IF w = t THEN label
                             ELSE IF pc[w] = "waiting" THEN "ready" ELSE pc[w]]

\* The kernel has allocated the pages after the capacity that was read then.
EndGrowth(t) ==
    /\ running = NoThread /\ pc[t] = "growing"
    /\ offset[t] + ExtendPages <= MaxPages
    /\ file_pages' = IF file_pages < offset[t] + ExtendPages
                     THEN offset[t] + ExtendPages
                     ELSE file_pages
    /\ offset' = [offset EXCEPT ![t] = 0]
    /\ extend(ExtendPages)
    /\ m_allocation_in_progress' = FALSE
    /\ SignalAll(t, "allocate")
    /\ running' = t
    /\ UNCHANGED <<m_preallocate_space, need, extents, failed>>

\* The kernel refuses: io::file::allocate throws out of allocate_space, and
\* m_allocation_in_progress is never reset.
GrowthFails(t) ==
    /\ running = NoThread /\ pc[t] = "growing"
    /\ offset[t] + ExtendPages > MaxPages
    /\ need' = [need EXCEPT ![t] = 0]
    /\ offset' = [offset EXCEPT ![t] = 0]
    /\ Yield(t, "idle")
    /\ failed' = TRUE
    /\ UNCHANGED <<allocatorVars, m_preallocate_space, m_allocation_in_progress,
                   file_pages, extents>>

\* Without preallocation allocate_space does not yield.
GrowAtOnce(t) ==
    /\ running = t /\ pc[t] = "allocate" /\ allocateFails(need[t])
    /\ ~m_allocation_in_progress
    /\ ~m_preallocate_space
    /\ m_max_idx + ExtendPages <= MaxPages
    /\ extend(ExtendPages)
    /\ SignalAll(t, "allocate")
    /\ UNCHANGED <<m_preallocate_space, m_allocation_in_progress, file_pages,
                   need, offset, extents, running, failed>>

\* A signalled thread runs again and retries.
Resume(t) ==
    /\ running = NoThread /\ pc[t] = "ready"
    /\ GoOn(t, "allocate")
    /\ UNCHANGED <<allocatorVars, m_preallocate_space, m_allocation_in_progress,
                   file_pages, need, offset, extents, failed>>

-----------------------------------------------------------------------------
(* disk::remove *)

\* The file is dropped: its extents are freed one after the other, no yield.
RemoveFile(t) ==
    /\ running = NoThread /\ pc[t] = "idle" /\ extents[t] # <<>>
    /\ GoOn(t, "remove")
    /\ UNCHANGED <<allocatorVars, m_preallocate_space, m_allocation_in_progress,
                   file_pages, need, offset, extents, failed>>

RemoveExtent_NotForgotten(t) ==
    /\ running = t /\ pc[t] = "remove" /\ extents[t] # <<>>
    /\ free(Head(extents[t]).idx, Head(extents[t]).size)
    /\ Yield(t, "idle")
    /\ UNCHANGED <<m_preallocate_space, m_allocation_in_progress, file_pages,
                   need, offset, extents, failed>>

RemoveExtent(t) ==
    /\ running = t /\ pc[t] = "remove" /\ extents[t] # <<>>
    /\ free(Head(extents[t]).idx, Head(extents[t]).size)
    /\ extents' = [extents EXCEPT ![t] = Tail(@)]
    /\ IF Len(extents[t]) > 1 THEN GoOn(t, "remove") ELSE Yield(t, "idle")
    /\ UNCHANGED <<m_preallocate_space, m_allocation_in_progress, file_pages,
                   need, offset, failed>>

-----------------------------------------------------------------------------

Step(t) ==
    \/ Allocated(t) \/ AwaitGrowth(t) \/ StartGrowth(t) \/ GrowAtOnce(t)
    \/ EndGrowth(t) \/ GrowthFails(t) \/ Resume(t) \/ RemoveExtent(t)

DiskNext ==
    \E t \in Threads :
        \/ \E n \in 1 .. MaxRequest : Call(t, n)
        \/ RemoveFile(t)
        \/ Step(t)

\* The run queue is FIFO and the io thread reports every completion, so a
\* thread that can go on gets its turn however often the others run before it
\* (strong fairness: it cannot step while another thread is running); nobody
\* has to call.
DiskSpec ==
    /\ DiskInit
    /\ [][DiskNext]_diskVars
    /\ \A t \in Threads : SF_diskVars(Step(t))

-----------------------------------------------------------------------------
(* Properties. *)

\* Pages in the extents of a file.
FilePages(t) ==
    UNION {PagesOf(extents[t][i].idx, extents[t][i].size) : i \in DOMAIN extents[t]}

\* Two files never share a page, and the allocator counts as handed out exactly
\* the pages that are in some file's extents: no leak and no double use.
FilesOwnTheirPages ==
    /\ \A t, u \in Threads : t # u => FilePages(t) \cap FilePages(u) = {}
    /\ owned = UNION {FilePages(t) : t \in Threads}

\* With preallocation, a page the allocator may hand out is backed by the file:
\* the capacity never gets ahead of the kernel.
PagesAreBacked == m_preallocate_space => m_max_idx <= file_pages

\* The space ran out: the kernel refused, or the bound on the file was reached.
OutOfSpace == failed \/ (~m_preallocate_space /\ m_max_idx + ExtendPages > MaxPages)

\* Every disk::allocate returns, however many threads compete for the new
\* pages, unless the file can no longer grow.
AllocateReturns ==
    \A t \in Threads :
        pc[t] \in {"allocate", "waiting", "ready", "growing"}
            ~> (pc[t] = "idle" \/ OutOfSpace)

=============================================================================
