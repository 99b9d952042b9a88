------------------------------- MODULE RingQueue -------------------------------
(***************************************************************************)
(* common/ring_queue.h, the queue of the merge requests of db_server: a    *)
(* ring of a power of two slots, one of which is always free, that doubles *)
(* when it is full.                                                        *)
(***************************************************************************)
EXTENDS Integers, Sequences

CONSTANTS
    Items,          \* what is queued
    Free,           \* what is in a slot whose item was moved out
    InitialSize,    \* slots of a new queue, 4
    MaxItems        \* bound: items in the queue

ASSUME FreeAssumption == Free \notin Items
ASSUME InitialSizeAssumption == InitialSize \in Nat \ {0, 1}
ASSUME MaxItemsAssumption == MaxItems \in Nat

VARIABLES
    m_queue,        \* the slots, from 0
    m_head,         \* where the next item goes
    m_tail          \* the first item

ringVars == <<m_queue, m_head, m_tail>>

RingSize(slots) == Len(slots)

\* (i + 1) & m_mask, m_mask being the size minus one and the size a power of two.
NextSlot(slots, i) == (i + 1) % RingSize(slots)

\* m_queue[i]: slots are numbered from 0.
SlotAt(slots, i) == slots[i + 1]

\* The items from tail to head, first to last.
ItemsOf(slots, head, tail) ==
    [i \in 1 .. ((head - tail) % RingSize(slots)) |->
        SlotAt(slots, (tail + i - 1) % RingSize(slots))]

RingInit ==
    /\ m_queue = [i \in 1 .. InitialSize |-> Free]
    /\ m_head = 0 /\ m_tail = 0

\* reallocate(): twice the slots; what lies between m_tail and the old end
\* moves to the new end, if it is not the whole ring.
reallocate_InPlace(slots, tail) ==
    [slots |-> slots \o [i \in 1 .. RingSize(slots) |-> Free], tail |-> tail]

reallocate(slots, tail) ==
    LET size == RingSize(slots)
        wraps == tail = m_head + 1
    IN  [slots |-> [i \in 1 .. (2 * size) |->
                       IF wraps
                       THEN IF i <= tail THEN slots[i]
                            ELSE IF i > size + tail THEN slots[i - size] ELSE Free
                       ELSE IF i <= size THEN slots[i] ELSE Free],
         tail |-> IF wraps THEN tail + size ELSE tail]

push(item) ==
    /\ (m_head - m_tail) % RingSize(m_queue) < MaxItems
    /\ LET stored == [m_queue EXCEPT ![m_head + 1] = item]
           ring == IF NextSlot(stored, m_head) = m_tail
                   THEN reallocate(stored, m_tail)
                   ELSE [slots |-> stored, tail |-> m_tail]
       IN  /\ m_queue' = ring.slots
           /\ m_tail' = ring.tail
           /\ m_head' = NextSlot(ring.slots, m_head)

pop ==
    /\ m_head # m_tail
    /\ m_queue' = [m_queue EXCEPT ![m_tail + 1] = Free]
    /\ m_tail' = NextSlot(m_queue, m_tail)
    /\ UNCHANGED m_head

RingNext == pop \/ \E item \in Items : push(item)

RingSpec == RingInit /\ [][RingNext]_ringVars

-----------------------------------------------------------------------------
(* Properties. *)

\* The ring is a queue: items come out in the order they went in, each once,
\* however often it wraps around and grows.
Queue == INSTANCE Fifo WITH queue <- ItemsOf(m_queue, m_head, m_tail)
RefinesFifo == Queue!FifoSpec

=============================================================================
