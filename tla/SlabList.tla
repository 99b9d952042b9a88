------------------------------- MODULE SlabList -------------------------------
(***************************************************************************)
(* slabs, a pool of entries in slabs of fixed size that is extended when   *)
(* it has no free entry, and slab_list, the doubly linked list on top of   *)
(* it.  The lists of gt (the threads that run, wait or have ended) and the *)
(* open files of disk_writer are slab_lists.                               *)
(*                                                                         *)
(* A handle is the number of a slab and the place of an entry in it, both  *)
(* from 1; 0 stands for an index of -1.                                    *)
(***************************************************************************)
EXTENDS Integers, FiniteSets, Sequences, SequencesExt

CONSTANTS
    SlabSize,       \* extend_size
    MaxSlabs        \* bound: number of slabs, 2^16 in the code

ASSUME SlabAssumption == SlabSize \in Nat \ {0} /\ MaxSlabs \in Nat \ {0}

Handles == (1..MaxSlabs) \X (1..SlabSize)
Nil == <<0, 0>>     \* invalid_handle
NoLinks == [prev |-> Nil, next |-> Nil]

VARIABLES
    m_slabs,        \* m_alloc_table, m_next and m_size of each slab
    m_partial,      \* slabs with free entries
    m_full,         \* slabs without
    links,          \* prev and next of each entry
    m_front,
    m_back,
    m_size

slabVars == <<m_slabs, m_partial, m_full, links, m_front, m_back, m_size>>

NewSlab == [table |-> [i \in 1..SlabSize |-> IF i < SlabSize THEN i + 1 ELSE 0],
            next |-> 1, size |-> 0]

SlabListInit ==
    /\ m_slabs = <<>> /\ m_partial = <<>> /\ m_full = <<>>
    /\ links = [e \in Handles |-> NoLinks]
    /\ m_front = Nil /\ m_back = Nil /\ m_size = 0

-----------------------------------------------------------------------------
(* slabs *)

\* slab::allocate.
SlabAllocate(s) == [table |-> [s.table EXCEPT ![s.next] = 0], next |-> s.table[s.next],
                    size |-> s.size + 1]

\* slab::free.
SlabFree(s, ndx) ==
    [table |-> IF s.next = 0 THEN s.table ELSE [s.table EXCEPT ![ndx] = s.next],
     next |-> ndx, size |-> s.size - 1]

\* slab_list::allocate_entry: the pool is extended when it is full.
Extended ==
    IF m_partial # <<>> THEN [slabs |-> m_slabs, partial |-> m_partial]
    ELSE [slabs |-> Append(m_slabs, NewSlab), partial |-> <<Len(m_slabs) + 1>>]

NextHandle == <<Head(Extended.partial), Extended.slabs[Head(Extended.partial)].next>>

\* std::remove takes every ndx out of its list, where it is only once.
move_to_full(ndx) == m_partial' = RemoveFirst(Extended.partial, ndx) /\ m_full' = Append(m_full, ndx)

move_to_partial(ndx) == m_full' = RemoveFirst(m_full, ndx) /\ m_partial' = Append(m_partial, ndx)

\* slabs::allocate.
AllocateEntry ==
    LET ndx == Head(Extended.partial)
        slab == SlabAllocate(Extended.slabs[ndx])
    IN /\ Len(Extended.slabs) <= MaxSlabs
       /\ m_slabs' = [Extended.slabs EXCEPT ![ndx] = slab]
       /\ IF slab.size = SlabSize
          THEN move_to_full(ndx)
          ELSE m_partial' = Extended.partial /\ m_full' = m_full

\* slabs::free.
FreeEntry(e) ==
    /\ m_slabs' = [m_slabs EXCEPT ![e[1]] = SlabFree(@, e[2])]
    /\ IF m_slabs[e[1]].size = SlabSize
       THEN move_to_partial(e[1])
       ELSE UNCHANGED <<m_full, m_partial>>

-----------------------------------------------------------------------------
(* slab_list *)

\* insert_before(m_front).
push_front ==
    LET e == NextHandle
    IN /\ AllocateEntry
       /\ links' = IF m_front = Nil THEN [links EXCEPT ![e] = NoLinks]
                   ELSE [links EXCEPT ![e] = [prev |-> links[m_front].prev, next |-> m_front],
                                      ![m_front].prev = e]
       /\ m_front' = e
       /\ m_back' = IF m_front = Nil THEN e ELSE m_back
       /\ m_size' = m_size + 1

\* insert_after(m_back).
push_back ==
    LET e == NextHandle
    IN /\ AllocateEntry
       /\ links' = IF m_front = Nil THEN [links EXCEPT ![e] = NoLinks]
                   ELSE [links EXCEPT ![e] = [prev |-> m_back, next |-> links[m_back].next],
                                      ![m_back].next = e]
       /\ m_back' = e
       /\ m_front' = IF m_front = Nil THEN e ELSE m_front
       /\ m_size' = m_size + 1

\* Mutant: the entry before the last does not become the last.
BackAfterErase_Kept(e) == m_back

BackAfterErase(e) == IF m_back = e THEN links[e].prev ELSE m_back

\* What is left in a free entry is written over before it is read again.
Unlinked(e) ==
    [f \in Handles |->
        IF f = e THEN NoLinks
        ELSE [prev |-> IF f = links[e].next THEN links[e].prev ELSE links[f].prev,
              next |-> IF f = links[e].prev THEN links[e].next ELSE links[f].next]]

erase(e) ==
    /\ links' = Unlinked(e)
    /\ m_front' = IF m_front = e THEN links[e].next ELSE m_front
    /\ m_back' = BackAfterErase(e)
    /\ FreeEntry(e)
    /\ m_size' = m_size - 1

\* The entries from front on, as next() leads through them up to the last one.
Forward(front, lks) ==
    LET steps == MaxSlabs * SlabSize
        at[n \in 1..steps + 1] ==
            IF n = 1 THEN front ELSE LET e == at[n - 1] IN IF e = Nil THEN Nil ELSE lks[e].next
        size == CHOOSE n \in 0..steps : \A i \in 1..n + 1 : at[i] = Nil <=> i = n + 1
    IN  [n \in 1..size |-> at[n]]

Entries == Forward(m_front, links)

SlabListNext ==
    \/ push_front
    \/ push_back
    \/ \E e \in ToSet(Entries) : erase(e)

SlabListSpec == SlabListInit /\ [][SlabListNext]_slabVars

-----------------------------------------------------------------------------
(* Properties *)

List == INSTANCE Deque WITH entries <- Entries

\* The list is a sequence that grows at its ends and shrinks anywhere.
RefinesDeque == List!DequeSpec
=============================================================================
