------------------------------ MODULE Allocator ------------------------------
(***************************************************************************)
(* The extent allocator of common/allocator.{h,cpp}: the free pages of a   *)
(* data file (storage::disk::m_blocks) as a set of extents, kept in two    *)
(* std::sets of packed 64-bit words, one ordered by (size, idx) for the    *)
(* best-fit search and one ordered by (idx, size) for coalescing.          *)
(*                                                                         *)
(* An extent is a record; the packing order is what OrderedBySize and      *)
(* OrderedByIdx say.  The ghost variable owned holds the pages the callers *)
(* have been given and have not given back.                                *)
(***************************************************************************)
EXTENDS Integers, FiniteSets

CONSTANTS
    InitialPages,   \* pages of the data file when storage::disk opens it
    ExtendPages,    \* growth step of storage::disk::allocate_space, 32768
    MaxRequest,     \* bound: largest request of a caller, in pages
    MaxPages        \* bound: the file never grows past this many pages

ASSUME InitialPagesAssumption == InitialPages \in Nat
ASSUME ExtendPagesAssumption == ExtendPages \in Nat \ {0}
ASSUME MaxRequestAssumption == MaxRequest \in Nat \ {0}
ASSUME MaxPagesAssumption == MaxPages \in Nat /\ InitialPages <= MaxPages

VARIABLES
    m_free_set,     \* free extents, ordered by (size, idx)
    m_idx_set,      \* free extents, ordered by (idx, size)
    m_max_idx,      \* capacity in pages
    m_size,         \* number of pages handed out
    owned           \* ghost: the pages handed out

allocatorVars == <<m_free_set, m_idx_set, m_max_idx, m_size, owned>>

Extent == [idx : Nat, size : Nat]

\* The pages of the extent that starts at page idx and is size pages long.
PagesOf(idx, size) == idx .. (idx + size - 1)

-----------------------------------------------------------------------------
(* The searches: lower_bound on either set. *)

\* (size << 32) | idx compares like the pair (size, idx).
OrderedBySize(e, f) == e.size < f.size \/ (e.size = f.size /\ e.idx <= f.idx)

\* (idx << 32) | size compares like the pair (idx, size).
OrderedByIdx(e, f) == e.idx < f.idx \/ (e.idx = f.idx /\ e.size <= f.size)

BestFit(size) ==
    {e \in m_free_set : /\ e.size >= size
                        /\ \A f \in m_free_set :
                              f.size >= size => OrderedBySize(e, f)}

\* next_it of free(): m_idx_set.lower_bound(idx << 32).
NextIt_End(idx) == {}

NextIt(idx) ==
    {e \in m_idx_set : /\ e.idx >= idx
                       /\ \A f \in m_idx_set : f.idx >= idx => OrderedByIdx(e, f)}

\* prev_it of free(): the element before next_it, or the last element.
PrevIt(idx) ==
    {e \in m_idx_set : /\ e.idx < idx
                       /\ \A f \in m_idx_set : f.idx < idx => OrderedByIdx(f, e)}

-----------------------------------------------------------------------------
(* The operations. *)

\* What is left of extent e after size pages are cut from its start.
Remainder(e, size) ==
    IF e.size > size
    THEN {[idx |-> e.idx + size, size |-> e.size - size]}
    ELSE {}

\* allocate(size) that finds an extent and returns its first page.
allocate(size, idx) ==
    \E e \in BestFit(size) :
        /\ idx = e.idx
        /\ m_free_set' = (m_free_set \ {e}) \cup Remainder(e, size)
        /\ m_idx_set' = (m_idx_set \ {e}) \cup Remainder(e, size)
        /\ m_size' = m_size + size
        /\ owned' = owned \cup PagesOf(idx, size)
        /\ UNCHANGED m_max_idx

\* allocate(size) that returns -1 changes nothing.
allocateFails(size) == BestFit(size) = {}

\* The free neighbours that free(idx, size) coalesces with, ...
LeftOf(idx) == {e \in PrevIt(idx) : e.idx + e.size = idx}
RightOf(idx, size) == {e \in NextIt(idx) : idx + size = e.idx}

\* ... and the extent that takes their place.
Coalesced(idx, size) ==
    LET first == IF LeftOf(idx) = {}
                 THEN idx
                 ELSE (CHOOSE e \in LeftOf(idx) : TRUE).idx
        end   == IF RightOf(idx, size) = {}
                 THEN idx + size
                 ELSE LET r == CHOOSE e \in RightOf(idx, size) : TRUE
                      IN  idx + size + r.size
    IN  [idx |-> first, size |-> end - first]

Release(idx, size) ==
    LET merged == LeftOf(idx) \cup RightOf(idx, size)
    IN  /\ m_free_set' = (m_free_set \ merged) \cup {Coalesced(idx, size)}
        /\ m_idx_set' = (m_idx_set \ merged) \cup {Coalesced(idx, size)}

free(idx, size) ==
    /\ Release(idx, size)
    /\ m_size' = m_size - size
    /\ owned' = owned \ PagesOf(idx, size)
    /\ UNCHANGED m_max_idx

\* extend adds to m_size what free() takes off again.
extend_Overlapping(size) ==
    /\ Release(m_max_idx - 1, size)
    /\ m_max_idx' = m_max_idx + size
    /\ UNCHANGED <<m_size, owned>>

extend(size) ==
    /\ Release(m_max_idx, size)
    /\ m_max_idx' = m_max_idx + size
    /\ UNCHANGED <<m_size, owned>>

\* The disk constructor calls extend(InitialPages) on an empty allocator.
AllocatorInit ==
    /\ m_free_set = {[idx |-> 0, size |-> InitialPages]}
    /\ m_idx_set = {[idx |-> 0, size |-> InitialPages]}
    /\ m_max_idx = InitialPages
    /\ m_size = 0
    /\ owned = {}

Allocate == \E size \in 1 .. MaxRequest : \E idx \in 0 .. m_max_idx : allocate(size, idx)

Free ==
    \E idx \in owned : \E size \in 1 .. m_max_idx :
        /\ PagesOf(idx, size) \subseteq owned
        /\ free(idx, size)

\* A caller whose request failed grows the space (storage::disk); pages may have
\* been freed since it failed.
Extend ==
    /\ m_max_idx + ExtendPages <= MaxPages
    /\ extend(ExtendPages)

AllocatorNext == Allocate \/ Free \/ Extend

AllocatorSpec == AllocatorInit /\ [][AllocatorNext]_allocatorVars

-----------------------------------------------------------------------------
(* Properties. *)

\* The types of the state of class allocator: extents in both sets, a capacity
\* and a size that are page counts, and owned pages below the capacity.
AllocatorTypeOK ==
    /\ m_free_set \subseteq Extent
    /\ m_idx_set \subseteq Extent
    /\ m_max_idx \in Nat
    /\ m_size \in Nat
    /\ owned \subseteq 0 .. (m_max_idx - 1)

\* The two orderings of the free list never drift apart: an extent that one of
\* allocate, free or extend erases from one set is erased from the other.
SetsMirror == m_free_set = m_idx_set

Covers(e, page) == e.idx <= page /\ page < e.idx + e.size

Apart(e, f) == e.idx + e.size <= f.idx \/ f.idx + f.size <= e.idx

\* Every page of the file is accounted for exactly once: it is in one free
\* extent or it is owned, extents do not overlap, none reaches past the
\* capacity.  A violation is a page given to two slices, or a page lost.
PagesAccountedFor ==
    /\ \A e \in m_free_set : e.idx + e.size <= m_max_idx
    /\ \A e, f \in m_free_set : e # f => Apart(e, f)
    /\ \A e \in m_free_set, page \in owned : ~Covers(e, page)
    /\ \A page \in 0 .. (m_max_idx - 1) :
          page \in owned \/ \E e \in m_free_set : Covers(e, page)

\* The only empty extent there can be is the one that opening an empty file
\* leaves at page 0 (extend(0) in the disk constructor).
EmptyOnlyAtZero == \A e \in m_free_set : e.size = 0 => e.idx = 0

\* m_size, which size() reports and free() asserts against
\* (m_size >= size), is the number of pages handed out.
SizeIsOwned == m_size = Cardinality(owned)

\* Pages p - 1 and p are both free, but in different extents: no request that
\* needs both can be served from them.
CutAt(p) ==
    \E e, f \in m_free_set :
        /\ e.size > 0 /\ e.idx + e.size = p
        /\ f.size > 0 /\ f.idx = p

\* What opening an empty file leaves in both sets: extend(0) inserts it.
EmptyExtent == [idx |-> 0, size |-> 0]

\* Whatever order the pages come back in, free merges them with the free pages
\* on both sides, and allocate and extend part nothing. The one exception is a
\* run given back at page 0 of a file that was empty when it was opened: there
\* lower_bound(0) finds the empty extent instead of the right neighbour.
FreeSpaceIsCutOnlyAtItsStart ==
    [][\A p \in 1 .. m_max_idx' :
          CutAt(p)' => \/ CutAt(p)
                       \/ /\ EmptyExtent \in m_free_set
                          /\ [idx |-> 0, size |-> p] \in m_free_set' \ m_free_set
      ]_allocatorVars

\* What allocator_test checks at the end of its first two subcases: once
\* everything is given back, a request for the whole capacity is served at 0.
\* The run that starts from an empty file violates it.
WholeSpaceReusable ==
    owned = {} /\ m_max_idx > 0 =>
        BestFit(m_max_idx) = {[idx |-> 0, size |-> m_max_idx]}

\* allocate never hands out a page that somebody still owns, and takes exactly
\* the requested number of pages, all below the capacity.
HandsOutFreshPages ==
    [][m_size' > m_size =>
          /\ Cardinality(owned' \ owned) = m_size' - m_size
          /\ owned \subseteq owned'
          /\ \A page \in owned' \ owned : page < m_max_idx]_allocatorVars

=============================================================================
