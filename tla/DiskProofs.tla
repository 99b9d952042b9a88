------------------------------ MODULE DiskProofs ------------------------------
(***************************************************************************)
(* Proofs about Allocator and Disk for every file size, growth step,       *)
(* request bound and number of threads, and about Slice for every node     *)
(* size, fanout and sequence of add()s. Page accounting is inductive, and  *)
(* free space is parted only by what is given back at page 0 of a file     *)
(* that was empty at first. The disk uses its allocator as the allocator's *)
(* specification allows, so the same holds on the disk; files own exactly  *)
(* the pages that are handed out; and the capacity stays within what the   *)
(* kernel has allocated although growing the file yields. A slice holds    *)
(* the parts of what was added between two add()s, however they are spread *)
(* over nodes, and its data nodes stay linked past the index nodes.        *)
(***************************************************************************)
EXTENDS Disk, Slice, ListTheorems

\* The strengthening that is inductive: PagesAccountedFor alone is not, since
\* free() looks for its neighbours in m_idx_set and edits m_free_set, and an
\* empty extent in the middle of the file would break the merge.
AccountingInv ==
    /\ AllocatorTypeOK
    /\ SetsMirror
    /\ PagesAccountedFor
    /\ EmptyOnlyAtZero
    /\ SizeIsOwned

-----------------------------------------------------------------------------
(* What the searches and the merge of free() compute. *)

\* lower_bound and its predecessor name at most one extent each.
LEMMA NeighboursUnique ==
    ASSUME AllocatorTypeOK, NEW idx \in Nat
    PROVE  /\ \A e, f \in PrevIt(idx) : e = f
           /\ \A e, f \in NextIt(idx) : e = f
    <1>1. \A e, f \in Extent : e.idx = f.idx /\ e.size = f.size => e = f
        BY DEF Extent
    <1>2. \A e, f \in m_idx_set :
             OrderedByIdx(e, f) /\ OrderedByIdx(f, e) => e = f
        <2> SUFFICES ASSUME NEW e \in m_idx_set, NEW f \in m_idx_set,
                            OrderedByIdx(e, f), OrderedByIdx(f, e)
                     PROVE  e = f
            OBVIOUS
        <2>1. e \in Extent /\ f \in Extent
            BY DEF AllocatorTypeOK
        <2>2. e.idx = f.idx /\ e.size = f.size
            BY <2>1 DEF OrderedByIdx, Extent
        <2> QED BY <1>1, <2>1, <2>2
    <1> QED BY <1>2 DEF PrevIt, NextIt

\* The extent that free() inserts runs from the start of its left neighbour,
\* if it merges with one, to the end of its right neighbour, if it does.
LEMMA CoalescedShape ==
    ASSUME AllocatorTypeOK, NEW idx \in Nat, NEW size \in Nat
    PROVE  LET c == Coalesced(idx, size)
           IN  /\ c \in Extent
               /\ c.idx <= idx
               /\ idx + size <= c.idx + c.size
               /\ LeftOf(idx) = {} => c.idx = idx
               /\ \A l \in LeftOf(idx) : l.idx + l.size = idx /\ c.idx = l.idx
               /\ RightOf(idx, size) = {} => c.idx + c.size = idx + size
               /\ \A r \in RightOf(idx, size) :
                     r.idx = idx + size /\ c.idx + c.size = r.idx + r.size
    <1> DEFINE left == LeftOf(idx)
               right == RightOf(idx, size)
               l0 == CHOOSE e \in left : TRUE
               r0 == CHOOSE e \in right : TRUE
               first == IF left = {} THEN idx ELSE l0.idx
               end == IF right = {} THEN idx + size ELSE idx + size + r0.size
               c == [idx |-> first, size |-> end - first]
    <1>1. Coalesced(idx, size) = c
        BY Zenon DEF Coalesced
    <1>2. /\ left \subseteq Extent
          /\ \A l \in left : l = l0 /\ l.idx + l.size = idx
        BY NeighboursUnique DEF LeftOf, PrevIt, AllocatorTypeOK
    <1>3. /\ right \subseteq Extent
          /\ \A r \in right : r = r0 /\ r.idx = idx + size
        BY NeighboursUnique DEF RightOf, NextIt, AllocatorTypeOK
    <1>4. /\ first \in Nat /\ first <= idx
          /\ left = {} => first = idx
          /\ \A l \in left : first = l.idx
        <2>1. CASE left = {}
            BY <2>1
        <2>2. CASE left # {}
            <3>1. PICK l \in left : l \in Extent /\ l = l0 /\ l.idx + l.size = idx
                BY <1>2, <2>2
            <3>2. first = l.idx /\ l.idx \in Nat /\ l.size \in Nat
                BY <2>2, <3>1 DEF Extent
            <3>3. \A e \in left : e = l
                BY <1>2, <3>1
            <3> HIDE DEF first, left, l0
            <3> QED BY <2>2, <3>1, <3>2, <3>3
        <2> QED BY <2>1, <2>2
    <1>5. /\ end \in Nat /\ end >= idx + size
          /\ right = {} => end = idx + size
          /\ \A r \in right : end = r.idx + r.size
        <2>1. CASE right = {}
            BY <2>1
        <2>2. CASE right # {}
            <3>1. PICK r \in right : r \in Extent /\ r = r0 /\ r.idx = idx + size
                BY <1>3, <2>2
            <3>2. end = r.idx + r.size /\ r.idx \in Nat /\ r.size \in Nat
                BY <2>2, <3>1 DEF Extent
            <3>3. \A e \in right : e = r
                BY <1>3, <3>1
            <3> HIDE DEF end, right, r0
            <3> QED BY <2>2, <3>1, <3>2, <3>3
        <2> QED BY <2>1, <2>2
    <1> HIDE DEF first, end
    <1>6. c \in Extent /\ c.idx = first /\ c.idx + c.size = end
        BY <1>4, <1>5 DEF Extent
    <1> QED BY <1>1, <1>2, <1>3, <1>4, <1>5, <1>6

-----------------------------------------------------------------------------
(* free() and extend() insert a run of pages that no free extent overlaps. *)

\* The run of size pages at idx lies outside every free extent.
Unlisted(idx, size) ==
    \A e \in m_free_set : e.idx + e.size <= idx \/ idx + size <= e.idx

\* The coalesced extent stays clear of the extents that remain.
LEMMA CoalescedApart ==
    ASSUME AllocatorTypeOK, SetsMirror, EmptyOnlyAtZero,
           \A e, f \in m_free_set : e # f => Apart(e, f),
           NEW idx \in Nat, NEW size \in Nat \ {0}, Unlisted(idx, size),
           NEW e \in m_free_set, e \notin LeftOf(idx), e \notin RightOf(idx, size)
    PROVE  Apart(e, Coalesced(idx, size))
    <1> DEFINE c == Coalesced(idx, size)
    <1>1. e \in Extent /\ c \in Extent
        BY CoalescedShape DEF AllocatorTypeOK
    <1>2. ASSUME e.idx + e.size <= idx
          PROVE  e.idx + e.size <= c.idx \/ c.idx + c.size <= e.idx
        <2>1. CASE LeftOf(idx) = {}
            BY <1>2, <2>1, CoalescedShape
        <2>2. CASE LeftOf(idx) # {}
            <3>1. PICK l \in LeftOf(idx) : l.idx + l.size = idx /\ c.idx = l.idx
                BY <2>2, CoalescedShape
            <3>2. l \in m_free_set /\ l \in Extent /\ l # e /\ l.idx < idx
                BY <3>1 DEF LeftOf, PrevIt, SetsMirror, AllocatorTypeOK
            <3>3. e.idx + e.size <= l.idx \/ l.idx + l.size <= e.idx
                BY <3>2 DEF Apart
            <3>4. e.size = 0 => e.idx = 0
                BY DEF EmptyOnlyAtZero
            <3> HIDE DEF c
            <3> QED BY <1>1, <1>2, <3>1, <3>2, <3>3, <3>4 DEF Extent
        <2> QED BY <2>1, <2>2
    <1>3. ASSUME idx + size <= e.idx
          PROVE  c.idx + c.size <= e.idx
        <2>1. CASE RightOf(idx, size) = {}
            BY <1>3, <2>1, CoalescedShape, ZenonT(40)
        <2>2. CASE RightOf(idx, size) # {}
            <3>1. PICK r \in RightOf(idx, size) :
                     r.idx = idx + size /\ c.idx + c.size = r.idx + r.size
                BY <2>2, CoalescedShape
            <3>2. r \in m_free_set /\ r \in Extent /\ r # e
                BY <3>1 DEF RightOf, NextIt, SetsMirror, AllocatorTypeOK
            <3>3. e.idx + e.size <= r.idx \/ r.idx + r.size <= e.idx
                BY <3>2 DEF Apart
            <3>4. e.size = 0 => e.idx = 0
                BY DEF EmptyOnlyAtZero
            <3> HIDE DEF c
            <3> QED BY <1>1, <1>3, <3>1, <3>2, <3>3, <3>4 DEF Extent
        <2> QED BY <2>1, <2>2
    <1> QED BY <1>2, <1>3 DEF Unlisted, Apart

\* It covers the run and the neighbours it replaces, and nothing else.
LEMMA CoalescedCovers ==
    ASSUME AllocatorTypeOK, NEW idx \in Nat, NEW size \in Nat \ {0}, NEW page \in Int
    PROVE  Covers(Coalesced(idx, size), page) <=>
             \/ idx <= page /\ page < idx + size
             \/ \E e \in LeftOf(idx) \cup RightOf(idx, size) : Covers(e, page)
    <1> DEFINE c == Coalesced(idx, size)
    <1>1. /\ c \in Extent
          /\ c.idx <= idx
          /\ idx + size <= c.idx + c.size
          /\ LeftOf(idx) = {} => c.idx = idx
          /\ \A l \in LeftOf(idx) : l.idx + l.size = idx /\ c.idx = l.idx
          /\ RightOf(idx, size) = {} => c.idx + c.size = idx + size
          /\ \A r \in RightOf(idx, size) :
                r.idx = idx + size /\ c.idx + c.size = r.idx + r.size
        BY CoalescedShape, ZenonT(40)
    <1>2. LeftOf(idx) \subseteq Extent /\ RightOf(idx, size) \subseteq Extent
        BY DEF LeftOf, RightOf, PrevIt, NextIt, AllocatorTypeOK
    <1> HIDE DEF c
    <1>3. ASSUME c.idx <= page, page < idx
          PROVE  \E e \in LeftOf(idx) : Covers(e, page)
        <2>1. LeftOf(idx) # {}
            BY <1>1, <1>3 DEF Extent
        <2> QED BY <1>1, <1>3, <2>1 DEF Covers
    <1>4. ASSUME idx + size <= page, page < c.idx + c.size
          PROVE  \E e \in RightOf(idx, size) : Covers(e, page)
        <2>1. RightOf(idx, size) # {}
            BY <1>1, <1>4 DEF Extent
        <2> QED BY <1>1, <1>4, <2>1 DEF Covers
    <1>5. ASSUME NEW e \in LeftOf(idx) \cup RightOf(idx, size), Covers(e, page)
          PROVE  c.idx <= page /\ page < c.idx + c.size
        <2>1. CASE e \in LeftOf(idx)
            BY <1>1, <1>2, <1>5, <2>1 DEF Covers, Extent
        <2>2. CASE e \in RightOf(idx, size)
            BY <1>1, <1>2, <1>5, <2>2 DEF Covers, Extent
        <2> QED BY <1>5, <2>1, <2>2
    <1>6. Covers(c, page) <=> c.idx <= page /\ page < c.idx + c.size
        BY DEF Covers
    <1>7. ASSUME idx <= page, page < idx + size
          PROVE  c.idx <= page /\ page < c.idx + c.size
        BY <1>1, <1>7 DEF Extent
    <1>8. c.idx \in Nat /\ c.size \in Nat
        BY <1>1 DEF Extent
    <1>9. ASSUME c.idx <= page, page < c.idx + c.size
          PROVE  \/ idx <= page /\ page < idx + size
                 \/ \E e \in LeftOf(idx) \cup RightOf(idx, size) : Covers(e, page)
        BY <1>3, <1>4, <1>8, <1>9
    <1> QED BY <1>5, <1>6, <1>7, <1>9 DEF c

\* What one Release does to the free list: it stays a list of disjoint extents,
\* in both orders, that covers the released run on top of what it covered.
LEMMA ReleaseKeepsList ==
    ASSUME AllocatorTypeOK, SetsMirror, EmptyOnlyAtZero,
           \A e, f \in m_free_set : e # f => Apart(e, f),
           NEW idx \in Nat, NEW size \in Nat \ {0}, Unlisted(idx, size),
           Release(idx, size)
    PROVE  /\ m_free_set' \subseteq Extent
           /\ SetsMirror'
           /\ EmptyOnlyAtZero'
           /\ \A e, f \in m_free_set' : e # f => Apart(e, f)
           /\ \A page \in Int :
                 (\E e \in m_free_set' : Covers(e, page)) <=>
                     \/ idx <= page /\ page < idx + size
                     \/ \E e \in m_free_set : Covers(e, page)
           /\ \A limit \in Nat :
                 /\ idx + size <= limit
                 /\ \A e \in m_free_set : e.idx + e.size <= limit
                 => \A e \in m_free_set' : e.idx + e.size <= limit
    <1> DEFINE c == Coalesced(idx, size)
               merged == LeftOf(idx) \cup RightOf(idx, size)
    <1>1. m_free_set' = (m_free_set \ merged) \cup {c} /\ SetsMirror'
        BY DEF Release, SetsMirror
    <1>2. c \in Extent /\ m_free_set \subseteq Extent
        BY CoalescedShape DEF AllocatorTypeOK
    <1>3. merged \subseteq m_free_set
        BY DEF LeftOf, RightOf, PrevIt, NextIt, SetsMirror
    <1>4. c.size > 0
        <2>1. c \in Extent /\ c.idx <= idx /\ idx + size <= c.idx + c.size
            BY CoalescedShape
        <2> HIDE DEF c
        <2> QED BY <2>1 DEF Extent
    <1>5. \A e \in m_free_set \ merged : Apart(e, c) /\ Apart(c, e)
        BY CoalescedApart DEF Apart
    <1>6. \A page \in Int :
             Covers(c, page) <=>
                 \/ idx <= page /\ page < idx + size
                 \/ \E e \in merged : Covers(e, page)
        BY CoalescedCovers
    <1>7. ASSUME NEW limit \in Nat, idx + size <= limit,
                 \A e \in m_free_set : e.idx + e.size <= limit
          PROVE  c.idx + c.size <= limit
        <2>1. CASE RightOf(idx, size) = {}
            BY <1>7, <2>1, CoalescedShape, ZenonT(40)
        <2>2. CASE RightOf(idx, size) # {}
            <3>1. PICK r \in RightOf(idx, size) : c.idx + c.size = r.idx + r.size
                BY <2>2, CoalescedShape
            <3> QED BY <1>3, <1>7, <3>1
        <2> QED BY <2>1, <2>2
    <1> HIDE DEF c, merged
    <1>8. m_free_set' \subseteq Extent
        BY <1>1, <1>2
    <1>9. EmptyOnlyAtZero'
        BY <1>1, <1>4, <1>2 DEF EmptyOnlyAtZero, Extent
    <1>10. \A e, f \in m_free_set' : e # f => Apart(e, f)
        BY <1>1, <1>5
    <1>11. \A page \in Int :
              (\E e \in m_free_set' : Covers(e, page)) <=>
                  \/ idx <= page /\ page < idx + size
                  \/ \E e \in m_free_set : Covers(e, page)
        BY <1>1, <1>3, <1>6
    <1>12. \A limit \in Nat :
              /\ idx + size <= limit
              /\ \A e \in m_free_set : e.idx + e.size <= limit
              => \A e \in m_free_set' : e.idx + e.size <= limit
        BY <1>1, <1>7
    <1> QED BY <1>1, <1>8, <1>9, <1>10, <1>11, <1>12

-----------------------------------------------------------------------------
(* Page accounting. *)

\* Sets of pages are finite, and disjoint ones add up.
LEMMA PageArithmetic ==
    ASSUME NEW n \in Nat, NEW S, S \subseteq 0 .. (n - 1),
           NEW idx \in Nat, NEW size \in Nat
    PROVE  /\ IsFiniteSet(S) /\ Cardinality(S) \in Nat
           /\ PagesOf(idx, size) \subseteq S =>
                 Cardinality(S \ PagesOf(idx, size)) = Cardinality(S) - size
           /\ PagesOf(idx, size) \cap S = {} =>
                 Cardinality(S \cup PagesOf(idx, size)) = Cardinality(S) + size
    <1> DEFINE P == PagesOf(idx, size)
    <1>1. IsFiniteSet(S) /\ Cardinality(S) \in Nat
        <2>1. IsFiniteSet(0 .. (n - 1))
            BY FS_Interval
        <2> QED BY <2>1, FS_Subset, FS_CardinalityType
    <1>2. IsFiniteSet(P) /\ Cardinality(P) = size
        BY FS_Interval DEF PagesOf
    <1> HIDE DEF P
    <1>3. ASSUME P \subseteq S
          PROVE  Cardinality(S \ P) = Cardinality(S) - size
        <2>1. Cardinality(S \ P) = Cardinality(S) - Cardinality(S \cap P)
            BY <1>1, FS_Difference
        <2>2. S \cap P = P
            BY <1>3
        <2> QED BY <1>2, <2>1, <2>2
    <1>4. ASSUME P \cap S = {}
          PROVE  Cardinality(S \cup P) = Cardinality(S) + size
        <2>1. Cardinality(S \cup P)
                 = Cardinality(S) + Cardinality(P) - Cardinality(S \cap P)
            BY <1>1, <1>2, FS_Union
        <2>2. S \cap P = {} /\ Cardinality({}) = 0
            BY <1>4, FS_EmptySet
        <2> QED BY <1>1, <1>2, <2>1, <2>2
    <1> QED BY <1>1, <1>3, <1>4 DEF P

\* The disk constructor's extend(InitialPages) establishes the accounting.
LEMMA AccountingInit == AllocatorInit => AccountingInv
    <1> SUFFICES ASSUME AllocatorInit PROVE AccountingInv
        OBVIOUS
    <1> USE InitialPagesAssumption
    <1>1. AllocatorTypeOK /\ SetsMirror /\ EmptyOnlyAtZero
        BY DEF AllocatorInit, AllocatorTypeOK, SetsMirror, EmptyOnlyAtZero, Extent
    <1>2. PagesAccountedFor
        BY DEF AllocatorInit, PagesAccountedFor, Covers, Apart
    <1>3. SizeIsOwned
        BY FS_EmptySet DEF AllocatorInit, SizeIsOwned
    <1> QED BY <1>1, <1>2, <1>3 DEF AccountingInv

\* allocate cuts the requested pages from the start of one free extent.
LEMMA AllocateKeepsAccounting ==
    ASSUME AccountingInv, NEW size \in Nat \ {0}, NEW idx \in Nat, allocate(size, idx)
    PROVE  /\ AccountingInv'
           /\ owned \cap PagesOf(idx, size) = {}
           /\ idx + size <= m_max_idx
    <1> USE DEF AccountingInv
    <1>1. PICK e \in m_free_set :
             /\ e.size >= size
             /\ idx = e.idx
             /\ m_free_set' = (m_free_set \ {e}) \cup Remainder(e, size)
             /\ m_idx_set' = (m_idx_set \ {e}) \cup Remainder(e, size)
             /\ m_size' = m_size + size
             /\ owned' = owned \cup PagesOf(idx, size)
             /\ m_max_idx' = m_max_idx
        BY DEF allocate, BestFit
    <1>2. /\ e \in Extent /\ m_free_set \subseteq Extent
          /\ m_max_idx \in Nat /\ owned \subseteq 0 .. (m_max_idx - 1)
          /\ e.idx + e.size <= m_max_idx
        BY DEF AllocatorTypeOK, PagesAccountedFor
    <1>3. \A g \in Remainder(e, size) :
             /\ g \in Extent /\ g.size > 0
             /\ g.idx = e.idx + size /\ g.idx + g.size = e.idx + e.size
        BY <1>1, <1>2 DEF Remainder, Extent
    <1>4. owned \cap PagesOf(idx, size) = {}
        BY <1>1, <1>2 DEF PagesAccountedFor, Covers, PagesOf, Extent
    <1>5. AllocatorTypeOK'
        <2>1. Remainder(e, size) \subseteq Extent
            BY <1>3
        <2>2. owned' \subseteq 0 .. (m_max_idx' - 1)
            <3>1. PagesOf(idx, size) \subseteq 0 .. (m_max_idx - 1)
                <4>1. idx + size <= m_max_idx
                    BY <1>1, <1>2 DEF Extent
                <4> QED BY <1>2, <4>1 DEF PagesOf
            <3> QED BY <1>1, <1>2, <3>1
        <2> QED BY <1>1, <2>1, <2>2 DEF AllocatorTypeOK
    <1>6. SetsMirror'
        BY <1>1 DEF SetsMirror
    <1>7. EmptyOnlyAtZero'
        BY <1>1, <1>2, <1>3 DEF EmptyOnlyAtZero, Extent
    <1>8. SizeIsOwned'
        <2>1. Cardinality(owned \cup PagesOf(idx, size)) = Cardinality(owned) + size
            <3>1. PagesOf(idx, size) \cap owned = {}
                BY <1>4
            <3> QED BY <1>2, <3>1, PageArithmetic, ZenonT(40)
        <2> QED BY <1>1, <2>1 DEF SizeIsOwned
    <1>9. PagesAccountedFor'
        <2>1. \A g \in m_free_set' : g.idx + g.size <= m_max_idx'
            BY <1>1, <1>2, <1>3 DEF PagesAccountedFor
        <2>2. \A f, g \in m_free_set' : f # g => Apart(f, g)
            <3>1. \A f \in m_free_set \ {e}, g \in Remainder(e, size) :
                     Apart(f, g) /\ Apart(g, f)
                BY <1>1, <1>2, <1>3 DEF PagesAccountedFor, Apart, Extent
            <3>2. \A f, g \in Remainder(e, size) : f = g
                BY DEF Remainder
            <3>3. \A f, g \in m_free_set \ {e} : f # g => Apart(f, g)
                BY DEF PagesAccountedFor
            <3> QED BY <1>1, <3>1, <3>2, <3>3
        <2>3. \A g \in m_free_set', page \in owned' : ~Covers(g, page)
            <3>1. \A g \in m_free_set, page \in owned : ~Covers(g, page)
                BY DEF PagesAccountedFor
            <3>2. \A g \in Remainder(e, size), page \in owned' : ~Covers(g, page)
                BY <1>1, <1>2, <1>3, <3>1 DEF Covers, PagesOf, Extent
            <3>3. ASSUME NEW g \in m_free_set \ {e}, NEW page \in PagesOf(idx, size)
                  PROVE  ~Covers(g, page)
                <4>1. Apart(e, g)
                    BY DEF PagesAccountedFor
                <4> QED BY <1>1, <1>2, <4>1 DEF Covers, Apart, PagesOf, Extent
            <3> QED BY <1>1, <3>1, <3>2, <3>3
        <2>4. ASSUME NEW page \in 0 .. (m_max_idx' - 1)
              PROVE  page \in owned' \/ \E g \in m_free_set' : Covers(g, page)
            <3>1. CASE page \in owned
                BY <1>1, <3>1
            <3>2. CASE Covers(e, page)
                <4>1. CASE page < idx + size
                    BY <1>1, <1>2, <3>2, <4>1 DEF Covers, PagesOf, Extent
                <4>2. CASE page >= idx + size
                    <5> DEFINE g == [idx |-> e.idx + size, size |-> e.size - size]
                    <5>1. e.size > size
                        BY <1>1, <1>2, <3>2, <4>2 DEF Covers, Extent
                    <5>2. g \in m_free_set' /\ Covers(g, page)
                        BY <1>1, <1>2, <3>2, <4>2, <5>1 DEF Remainder, Covers, Extent
                    <5> QED BY <5>2
                <4> QED BY <1>1, <1>2, <4>1, <4>2 DEF Extent
            <3>3. CASE \E g \in m_free_set \ {e} : Covers(g, page)
                BY <1>1, <3>3
            <3> QED BY <1>1, <3>1, <3>2, <3>3 DEF PagesAccountedFor
        <2> QED BY <2>1, <2>2, <2>3, <2>4 DEF PagesAccountedFor
    <1> QED BY <1>1, <1>2, <1>4, <1>5, <1>6, <1>7, <1>8, <1>9 DEF Extent

\* A run of pages the caller owns lies outside every free extent.
LEMMA OwnedIsUnlisted ==
    ASSUME AccountingInv, NEW idx \in Nat, NEW size \in Nat \ {0},
           PagesOf(idx, size) \subseteq owned
    PROVE  Unlisted(idx, size) /\ idx + size <= m_max_idx
    <1>1. idx + size - 1 \in owned
        BY DEF PagesOf
    <1>2. idx + size <= m_max_idx
        BY <1>1 DEF AccountingInv, AllocatorTypeOK
    <1>3. ASSUME NEW e \in m_free_set, e.idx + e.size > idx, idx + size > e.idx
          PROVE  FALSE
        <2>1. /\ e \in Extent
              /\ e.size = 0 => e.idx = 0
              /\ \A page \in owned : ~Covers(e, page)
            BY DEF AccountingInv, AllocatorTypeOK, EmptyOnlyAtZero, PagesAccountedFor
        <2>2. CASE e.idx <= idx
            BY <1>3, <2>1, <2>2 DEF Covers, PagesOf, Extent
        <2>3. CASE e.idx > idx
            <3>1. e.idx \in owned
                BY <1>3, <2>1, <2>3 DEF PagesOf, Extent
            <3> QED BY <1>3, <2>1, <2>3, <3>1 DEF Covers, Extent
        <2> QED BY <2>1, <2>2, <2>3 DEF Extent
    <1> QED BY <1>2, <1>3 DEF Unlisted, AccountingInv, AllocatorTypeOK, Extent

\* free gives back a run of owned pages.
LEMMA FreeKeepsAccounting ==
    ASSUME AccountingInv, NEW idx \in Nat, NEW size \in Nat \ {0},
           PagesOf(idx, size) \subseteq owned, free(idx, size)
    PROVE  AccountingInv'
    <1> USE DEF AccountingInv
    <1>1. /\ Release(idx, size)
          /\ m_size' = m_size - size
          /\ owned' = owned \ PagesOf(idx, size)
          /\ m_max_idx' = m_max_idx
        BY DEF free
    <1>2. Unlisted(idx, size) /\ idx + size <= m_max_idx
        BY OwnedIsUnlisted
    <1>3. /\ m_free_set' \subseteq Extent
          /\ SetsMirror'
          /\ EmptyOnlyAtZero'
          /\ \A e, f \in m_free_set' : e # f => Apart(e, f)
          /\ \A page \in Int :
                (\E e \in m_free_set' : Covers(e, page)) <=>
                    \/ idx <= page /\ page < idx + size
                    \/ \E e \in m_free_set : Covers(e, page)
          /\ \A limit \in Nat :
                /\ idx + size <= limit
                /\ \A e \in m_free_set : e.idx + e.size <= limit
                => \A e \in m_free_set' : e.idx + e.size <= limit
        BY <1>1, <1>2, ReleaseKeepsList DEF PagesAccountedFor
    <1>4. m_max_idx \in Nat /\ owned \subseteq 0 .. (m_max_idx - 1)
        BY DEF AllocatorTypeOK
    <1>5. SizeIsOwned' /\ m_size' \in Nat
        <2>1. Cardinality(owned') = Cardinality(owned) - size
            BY <1>1, <1>4, PageArithmetic
        <2>2. Cardinality(owned') \in Nat
            <3>1. owned' \subseteq 0 .. (m_max_idx - 1)
                BY <1>1, <1>4
            <3> QED BY <1>4, <3>1, PageArithmetic
        <2> QED BY <1>1, <2>1, <2>2 DEF SizeIsOwned
    <1>6. AllocatorTypeOK'
        BY <1>1, <1>3, <1>4, <1>5 DEF AllocatorTypeOK, SetsMirror
    <1>7. PagesAccountedFor'
        <2>1. \A e \in m_free_set' : e.idx + e.size <= m_max_idx'
            BY <1>1, <1>2, <1>3, <1>4 DEF PagesAccountedFor
        <2>2. \A e \in m_free_set', page \in owned' : ~Covers(e, page)
            BY <1>1, <1>3, <1>4 DEF PagesAccountedFor, PagesOf
        <2>3. \A page \in 0 .. (m_max_idx' - 1) :
                 page \in owned' \/ \E e \in m_free_set' : Covers(e, page)
            BY <1>1, <1>3, <1>4 DEF PagesAccountedFor, PagesOf
        <2> QED BY <1>3, <2>1, <2>2, <2>3 DEF PagesAccountedFor
    <1> QED BY <1>3, <1>5, <1>6, <1>7

\* extend adds the pages after the capacity.
LEMMA ExtendKeepsAccounting ==
    ASSUME AccountingInv, NEW size \in Nat \ {0}, extend(size)
    PROVE  AccountingInv'
    <1> USE DEF AccountingInv
    <1>1. /\ Release(m_max_idx, size)
          /\ m_size' = m_size /\ owned' = owned
          /\ m_max_idx' = m_max_idx + size
        BY DEF extend
    <1>2. /\ m_max_idx \in Nat /\ owned \subseteq 0 .. (m_max_idx - 1)
          /\ Unlisted(m_max_idx, size)
        BY DEF AllocatorTypeOK, PagesAccountedFor, Unlisted
    <1>3. /\ m_free_set' \subseteq Extent
          /\ SetsMirror'
          /\ EmptyOnlyAtZero'
          /\ \A e, f \in m_free_set' : e # f => Apart(e, f)
          /\ \A page \in Int :
                (\E e \in m_free_set' : Covers(e, page)) <=>
                    \/ m_max_idx <= page /\ page < m_max_idx + size
                    \/ \E e \in m_free_set : Covers(e, page)
          /\ \A limit \in Nat :
                /\ m_max_idx + size <= limit
                /\ \A e \in m_free_set : e.idx + e.size <= limit
                => \A e \in m_free_set' : e.idx + e.size <= limit
        BY <1>1, <1>2, ReleaseKeepsList DEF PagesAccountedFor
    <1>4. AllocatorTypeOK' /\ SizeIsOwned'
        BY <1>1, <1>2, <1>3 DEF AllocatorTypeOK, SizeIsOwned, SetsMirror
    <1>5. PagesAccountedFor'
        <2>1. \A e \in m_free_set' : e.idx + e.size <= m_max_idx'
            <3>1. \A e \in m_free_set : e.idx + e.size <= m_max_idx + size
                BY <1>2 DEF PagesAccountedFor, AllocatorTypeOK, Extent
            <3>2. m_max_idx + size \in Nat /\ m_max_idx + size <= m_max_idx + size
                BY <1>2
            <3> QED BY <1>1, <1>3, <3>1, <3>2
        <2>2. \A e \in m_free_set', page \in owned' : ~Covers(e, page)
            BY <1>1, <1>2, <1>3 DEF PagesAccountedFor
        <2>3. \A page \in 0 .. (m_max_idx' - 1) :
                 page \in owned' \/ \E e \in m_free_set' : Covers(e, page)
            BY <1>1, <1>2, <1>3 DEF PagesAccountedFor
        <2> QED BY <1>3, <2>1, <2>2, <2>3 DEF PagesAccountedFor
    <1> QED BY <1>3, <1>4, <1>5

\* Every step of the allocator keeps the accounting.
LEMMA AccountingStep == AccountingInv /\ [AllocatorNext]_allocatorVars => AccountingInv'
    <1> SUFFICES ASSUME AccountingInv, [AllocatorNext]_allocatorVars
                 PROVE  AccountingInv'
        OBVIOUS
    <1>1. m_max_idx \in Nat /\ owned \subseteq Nat
        BY DEF AccountingInv, AllocatorTypeOK
    <1>2. CASE Allocate
        BY <1>1, <1>2, AllocateKeepsAccounting, MaxRequestAssumption DEF Allocate
    <1>3. CASE Free
        <2>1. PICK idx \in owned, size \in 1 .. m_max_idx :
                 PagesOf(idx, size) \subseteq owned /\ free(idx, size)
            BY <1>3 DEF Free
        <2> QED BY <1>1, <2>1, FreeKeepsAccounting
    <1>4. CASE Extend
        BY <1>4, ExtendKeepsAccounting, ExtendPagesAssumption DEF Extend
    <1>5. CASE UNCHANGED allocatorVars
        BY <1>5 DEF allocatorVars, AccountingInv, AllocatorTypeOK, SetsMirror,
                    PagesAccountedFor, EmptyOnlyAtZero, SizeIsOwned
    <1> QED BY <1>2, <1>3, <1>4, <1>5 DEF AllocatorNext

\* Type correctness of the allocator's state.
THEOREM AllocatorTypes == AllocatorSpec => []AllocatorTypeOK
    <1>1. AccountingInv => AllocatorTypeOK
        BY DEF AccountingInv
    <1> QED BY <1>1, AccountingInit, AccountingStep, PTL DEF AllocatorSpec

\* Every page of the data file is in exactly one free extent or handed out, for
\* every file size, growth step and request bound; empty files included.
THEOREM PageAccounting ==
    AllocatorSpec => [](PagesAccountedFor /\ SetsMirror /\ SizeIsOwned)
    <1>1. AccountingInv => PagesAccountedFor /\ SetsMirror /\ SizeIsOwned
        BY DEF AccountingInv
    <1> QED BY <1>1, AccountingInit, AccountingStep, PTL DEF AllocatorSpec

-----------------------------------------------------------------------------
(* Coalescing. *)

\* A run of pages that is given back is cut off from its free neighbours only
\* at page 0, and there only behind the empty extent.
LEMMA ReleaseCuts ==
    ASSUME AccountingInv,
           NEW idx \in Nat, NEW size \in Nat \ {0}, Unlisted(idx, size),
           Release(idx, size), NEW p, CutAt(p)'
    PROVE  \/ CutAt(p)
           \/ /\ EmptyExtent \in m_free_set
              /\ [idx |-> 0, size |-> p] \in m_free_set' \ m_free_set
    <1> DEFINE c == Coalesced(idx, size)
               merged == LeftOf(idx) \cup RightOf(idx, size)
    <1>1. m_free_set' = (m_free_set \ merged) \cup {c}
        BY DEF Release
    <1>2. /\ AllocatorTypeOK /\ m_idx_set = m_free_set
          /\ merged \subseteq m_free_set /\ m_free_set \subseteq Extent
          /\ \A g \in m_free_set : g.size = 0 => g.idx = 0
          /\ \A g, h \in m_free_set : g # h => Apart(g, h)
          /\ \A g \in m_free_set : g.idx + g.size <= idx \/ idx + size <= g.idx
        BY DEF AccountingInv, LeftOf, RightOf, PrevIt, NextIt, SetsMirror,
               AllocatorTypeOK, EmptyOnlyAtZero, PagesAccountedFor, Unlisted
    <1>3. /\ c \in Extent
          /\ c.idx <= idx
          /\ idx + size <= c.idx + c.size
          /\ LeftOf(idx) = {} => c.idx = idx
          /\ \A l \in LeftOf(idx) : l.idx + l.size = idx /\ c.idx = l.idx
          /\ RightOf(idx, size) = {} => c.idx + c.size = idx + size
          /\ \A r \in RightOf(idx, size) :
                r.idx = idx + size /\ c.idx + c.size = r.idx + r.size
        BY <1>2, CoalescedShape, ZenonT(40)
    <1> HIDE DEF c
    <1>4. PICK e \in m_free_set', f \in m_free_set' :
             e.size > 0 /\ e.idx + e.size = p /\ f.size > 0 /\ f.idx = p
        BY DEF CutAt
    <1>5. CASE e # c /\ f # c
        BY <1>1, <1>4, <1>5 DEF CutAt
    <1>6. CASE f = c /\ e # c
        <2>1. e \in m_free_set \ merged /\ e \in Extent /\ e.idx + e.size = c.idx
            BY <1>1, <1>2, <1>4, <1>6
        <2>2. CASE LeftOf(idx) = {}
            <3>1. e.idx + e.size = idx /\ e.idx < idx
                BY <1>3, <1>4, <2>1, <2>2 DEF Extent
            <3>2. \A g \in m_idx_set : g.idx < idx => OrderedByIdx(g, e)
                BY <1>2, <1>4, <2>1, <3>1 DEF OrderedByIdx, Apart, Extent
            <3> QED BY <1>2, <2>1, <2>2, <3>1, <3>2 DEF LeftOf, PrevIt
        <2>3. CASE LeftOf(idx) # {}
            <3>1. PICK l \in LeftOf(idx) : l.idx + l.size = idx /\ c.idx = l.idx
                BY <1>3, <2>3
            <3>2. l \in m_free_set /\ l \in Extent /\ l.idx < idx
                BY <1>2, <3>1 DEF LeftOf, PrevIt
            <3>3. l.size > 0
                BY <3>1, <3>2 DEF Extent
            <3> QED BY <1>4, <2>1, <3>1, <3>2, <3>3, <1>6 DEF CutAt
        <2> QED BY <2>2, <2>3
    <1>7. CASE e = c /\ f # c
        <2>1. f \in m_free_set \ merged /\ f \in Extent /\ f.idx = c.idx + c.size
            BY <1>1, <1>2, <1>4, <1>7
        <2>2. CASE RightOf(idx, size) = {}
            <3>1. f.idx = idx + size
                BY <1>3, <2>1, <2>2
            <3>2. PICK g \in m_free_set : g.idx >= idx /\ ~OrderedByIdx(f, g)
                BY <1>2, <2>1, <2>2, <3>1 DEF RightOf, NextIt, Extent
            <3>3. g \in Extent /\ g # f /\ Apart(g, f)
                BY <1>2, <2>1, <3>2 DEF OrderedByIdx, Extent
            <3>4. g.size = 0
                <4>1. g.idx < f.idx \/ (g.idx = f.idx /\ g.size < f.size)
                    BY <2>1, <3>2, <3>3 DEF OrderedByIdx, Extent
                <4>2. g.idx + g.size <= idx \/ idx + size <= g.idx
                    BY <1>2
                <4> QED BY <1>4, <2>1, <3>1, <3>2, <3>3, <4>1, <4>2 DEF Apart, Extent
            <3>5. g.idx = 0 /\ idx = 0
                BY <1>2, <3>2, <3>3, <3>4 DEF Extent
            <3>6. g = EmptyExtent
                BY <3>3, <3>4, <3>5 DEF Extent, EmptyExtent
            <3>7. c = [idx |-> 0, size |-> p]
                <4>1. c.idx = 0 /\ c.size = p
                    BY <1>3, <1>4, <1>7, <2>1, <3>5 DEF Extent
                <4> QED BY <1>3, <4>1 DEF Extent
            <3>8. c \notin m_free_set
                BY <1>2, <1>3, <3>5 DEF Extent
            <3> QED BY <1>1, <3>6, <3>7, <3>8
        <2>3. CASE RightOf(idx, size) # {}
            <3>1. PICK r \in RightOf(idx, size) :
                     r.idx = idx + size /\ c.idx + c.size = r.idx + r.size
                BY <1>3, <2>3
            <3>2. r \in m_free_set /\ r \in Extent /\ r.idx > 0
                BY <1>2, <3>1 DEF RightOf, NextIt
            <3>3. r.size > 0
                BY <1>2, <3>2 DEF Extent
            <3> QED BY <1>4, <2>1, <3>1, <3>2, <3>3, <1>7 DEF CutAt
        <2> QED BY <2>2, <2>3
    <1>8. CASE e = c /\ f = c
        BY <1>3, <1>4, <1>8 DEF Extent
    <1> QED BY <1>5, <1>6, <1>7, <1>8

\* Cutting a request from the start of an extent parts nothing that is free.
LEMMA AllocateCuts ==
    ASSUME AccountingInv, Allocate, NEW p, CutAt(p)'
    PROVE  CutAt(p)
    <1>1. PICK size \in 1 .. MaxRequest, g \in m_free_set :
             m_free_set' = (m_free_set \ {g}) \cup Remainder(g, size)
        BY DEF Allocate, allocate, BestFit
    <1>2. /\ m_free_set \subseteq Extent
          /\ \A h, k \in m_free_set : h # k => Apart(h, k)
        BY DEF AccountingInv, AllocatorTypeOK, PagesAccountedFor
    <1>3. g \in Extent /\ size \in Nat \ {0}
        BY <1>1, <1>2, MaxRequestAssumption
    <1>4. \A h \in Remainder(g, size) :
             /\ h.idx = g.idx + size /\ h.idx + h.size = g.idx + g.size
             /\ h.idx \in Nat /\ h.size \in Nat \ {0} /\ g.size > size
        BY <1>3 DEF Remainder, Extent
    <1>5. PICK e \in m_free_set', f \in m_free_set' :
             e.size > 0 /\ e.idx + e.size = p /\ f.size > 0 /\ f.idx = p
        BY DEF CutAt
    <1>6. CASE e \in m_free_set /\ f \in m_free_set
        BY <1>5, <1>6 DEF CutAt
    <1>7. CASE e \in Remainder(g, size) /\ f \in m_free_set
        BY <1>3, <1>4, <1>5, <1>7 DEF CutAt, Extent
    <1>8. CASE e \in m_free_set /\ e # g /\ f \in Remainder(g, size)
        BY <1>2, <1>3, <1>4, <1>5, <1>8 DEF Apart, Extent
    <1>9. CASE e \in Remainder(g, size) /\ f \in Remainder(g, size)
        BY <1>4, <1>5, <1>9
    <1> QED BY <1>1, <1>5, <1>6, <1>7, <1>8, <1>9

\* Free space is parted only by what is given back at page 0 of a file that was
\* empty when it was opened, for every file size and every history.
THEOREM FreeSpaceStaysWhole == AllocatorSpec => FreeSpaceIsCutOnlyAtItsStart
    <1> DEFINE Fresh(p) == \/ CutAt(p)
                           \/ /\ EmptyExtent \in m_free_set
                              /\ [idx |-> 0, size |-> p] \in m_free_set' \ m_free_set
               Cuts == \A p \in 1 .. m_max_idx' : CutAt(p)' => Fresh(p)
    <1>1. ASSUME AccountingInv, [AllocatorNext]_allocatorVars
          PROVE  [Cuts]_allocatorVars
        <2> SUFFICES ASSUME AllocatorNext, NEW p, CutAt(p)'
                     PROVE  Fresh(p)
            BY <1>1
        <2>1. /\ m_max_idx \in Nat /\ owned \subseteq Nat
              /\ Unlisted(m_max_idx, ExtendPages)
            BY <1>1, ExtendPagesAssumption
               DEF AccountingInv, AllocatorTypeOK, PagesAccountedFor, Unlisted
        <2>2. CASE Allocate
            BY <1>1, <2>2, AllocateCuts
        <2>3. CASE Free
            <3>1. PICK idx \in owned, size \in 1 .. m_max_idx :
                     PagesOf(idx, size) \subseteq owned /\ free(idx, size)
                BY <2>3 DEF Free
            <3>2. Unlisted(idx, size) /\ Release(idx, size)
                BY <1>1, <2>1, <3>1, OwnedIsUnlisted DEF free
            <3> QED BY <1>1, <2>1, <3>2, ReleaseCuts
        <2>4. CASE Extend
            BY <1>1, <2>1, <2>4, ExtendPagesAssumption, ReleaseCuts DEF Extend, extend
        <2> QED BY <2>2, <2>3, <2>4 DEF AllocatorNext
    <1> QED BY <1>1, AccountingInit, AccountingStep, PTL
            DEF AllocatorSpec, FreeSpaceIsCutOnlyAtItsStart

\* allocate hands out exactly the requested number of pages, none of them owned.
THEOREM FreshPages == AllocatorSpec => HandsOutFreshPages
    <1> DEFINE Fresh == m_size' > m_size =>
                           /\ Cardinality(owned' \ owned) = m_size' - m_size
                           /\ owned \subseteq owned'
                           /\ \A page \in owned' \ owned : page < m_max_idx
    <1>1. ASSUME AccountingInv, [AllocatorNext]_allocatorVars
          PROVE  [Fresh]_allocatorVars
        <2>1. /\ m_size \in Nat /\ m_max_idx \in Nat /\ owned \subseteq Nat
              /\ owned \subseteq 0 .. (m_max_idx - 1)
            BY <1>1 DEF AccountingInv, AllocatorTypeOK
        <2>2. CASE Allocate
            <3>1. PICK size \in 1 .. MaxRequest, idx \in 0 .. m_max_idx : allocate(size, idx)
                BY <2>2 DEF Allocate
            <3>2. size \in Nat \ {0} /\ idx \in Nat
                BY <2>1, MaxRequestAssumption
            <3>3. owned \cap PagesOf(idx, size) = {} /\ idx + size <= m_max_idx
                BY <1>1, <3>1, <3>2, AllocateKeepsAccounting
            <3>4. owned' = owned \cup PagesOf(idx, size) /\ m_size' = m_size + size
                BY <3>1 DEF allocate
            <3>5. owned' \ owned = PagesOf(idx, size)
                BY <3>3, <3>4
            <3>6. Cardinality(PagesOf(idx, size)) = size
                BY <3>2, FS_Interval DEF PagesOf
            <3>7. \A page \in PagesOf(idx, size) : page < m_max_idx
                BY <2>1, <3>2, <3>3 DEF PagesOf
            <3>8. m_size' - m_size = size
                BY <2>1, <3>2, <3>4
            <3>9. owned \subseteq owned'
                BY <3>4
            <3> QED BY <3>5, <3>6, <3>7, <3>8, <3>9
        <2>3. CASE Free
            <3>1. PICK size \in 1 .. m_max_idx : m_size' = m_size - size
                BY <2>3 DEF Free, free
            <3> QED BY <2>1, <3>1
        <2>4. CASE Extend
            BY <2>1, <2>4 DEF Extend, extend
        <2>5. CASE UNCHANGED allocatorVars
            BY <2>5
        <2> QED BY <1>1, <2>2, <2>3, <2>4, <2>5 DEF AllocatorNext
    <1> QED BY <1>1, AccountingInit, AccountingStep, PTL DEF AllocatorSpec, HandsOutFreshPages


(***************************************************************************)
(* The disk.                                                               *)
(***************************************************************************)

FileExtent == [idx : Nat, size : Nat \ {0}]

Labels == {"idle", "allocate", "waiting", "growing", "ready", "remove"}

\* The types of what Disk adds to the allocator.
DiskTypeOK ==
    /\ m_preallocate_space \in BOOLEAN
    /\ m_allocation_in_progress \in BOOLEAN
    /\ file_pages \in Nat
    /\ pc \in [Threads -> Labels]
    /\ need \in [Threads -> Nat]
    /\ offset \in [Threads -> Nat]
    /\ extents \in [Threads -> Seq(FileExtent)]
    /\ running \in Threads \cup {NoThread}
    /\ failed \in BOOLEAN

\* A thread that has called disk::allocate knows how many pages it wants.
RequestsKnown ==
    \A t \in Threads :
        pc[t] \in {"allocate", "waiting", "growing", "ready"} => need[t] \in 1 .. MaxRequest

\* m_allocation_in_progress keeps everybody else from growing the file, so the
\* capacity that the growing thread has read is still the capacity.
OneGrows ==
    /\ \A t \in Threads : pc[t] = "growing" =>
          m_allocation_in_progress /\ m_preallocate_space /\ offset[t] = m_max_idx
    /\ \A t, u \in Threads : pc[t] = "growing" /\ pc[u] = "growing" => t = u

ExtentPages(t, i) == PagesOf(extents[t][i].idx, extents[t][i].size)

\* No page is in two extents, whether of one file or of two.
ExtentsDisjoint ==
    \A t, u \in Threads : \A i \in DOMAIN extents[t], j \in DOMAIN extents[u] :
        ExtentPages(t, i) \cap ExtentPages(u, j) # {} => t = u /\ i = j

\* Owned are the pages of the extents.
OwnedInExtents ==
    \A page \in Int :
        page \in owned <=> \E t \in Threads : \E i \in DOMAIN extents[t] : page \in ExtentPages(t, i)

DiskInv ==
    /\ AccountingInv
    /\ DiskTypeOK
    /\ RequestsKnown
    /\ OneGrows
    /\ PagesAreBacked
    /\ ExtentsDisjoint
    /\ OwnedInExtents

-----------------------------------------------------------------------------
(* The disk as a user of its allocator. *)

\* What disk::remove frees next is owned and lies below the capacity.
LEMMA HeadIsOwned ==
    ASSUME DiskInv, NEW t \in Threads, extents[t] # <<>>
    PROVE  LET e == Head(extents[t])
           IN  /\ e = extents[t][1] /\ 1 \in DOMAIN extents[t]
               /\ e \in FileExtent
               /\ PagesOf(e.idx, e.size) \subseteq owned
               /\ e.idx \in owned /\ e.size \in 1 .. m_max_idx
    <1> DEFINE e == Head(extents[t])
    <1>1. extents[t] \in Seq(FileExtent)
        BY DEF DiskInv, DiskTypeOK
    <1>2. e = extents[t][1] /\ 1 \in DOMAIN extents[t] /\ e \in FileExtent
        BY <1>1
    <1>3. e.idx \in Nat /\ e.size \in Nat \ {0}
        BY <1>2 DEF FileExtent
    <1>4. PagesOf(e.idx, e.size) \subseteq owned
        BY <1>2, <1>3 DEF DiskInv, OwnedInExtents, ExtentPages, PagesOf
    <1>5. e.idx \in owned /\ e.idx + e.size - 1 \in owned
        BY <1>3, <1>4 DEF PagesOf
    <1>6. owned \subseteq 0 .. (m_max_idx - 1) /\ m_max_idx \in Nat
        BY DEF DiskInv, AccountingInv, AllocatorTypeOK
    <1> QED BY <1>2, <1>3, <1>4, <1>5, <1>6

\* Every step of the disk is a step of the allocator, or leaves it alone.
LEMMA UsesAllocator == DiskInv /\ [DiskNext]_diskVars => [AllocatorNext]_allocatorVars
    <1> SUFFICES ASSUME DiskInv, [DiskNext]_diskVars
                 PROVE  [AllocatorNext]_allocatorVars
        OBVIOUS
    <1>1. CASE UNCHANGED diskVars
        BY <1>1 DEF diskVars
    <1>2. ASSUME NEW t \in Threads, NEW n \in 1 .. MaxRequest, Call(t, n)
          PROVE  UNCHANGED allocatorVars
        BY <1>2 DEF Call
    <1>3. ASSUME NEW t \in Threads,
                 RemoveFile(t) \/ AwaitGrowth(t) \/ StartGrowth(t) \/ GrowthFails(t) \/ Resume(t)
          PROVE  UNCHANGED allocatorVars
        BY <1>3 DEF RemoveFile, AwaitGrowth, StartGrowth, GrowthFails, Resume
    <1>4. ASSUME NEW t \in Threads, Allocated(t)
          PROVE  Allocate
        <2>1. need[t] \in 1 .. MaxRequest
            BY <1>4 DEF Allocated, DiskInv, RequestsKnown
        <2> QED BY <1>4, <2>1 DEF Allocated, Allocate
    <1>5. ASSUME NEW t \in Threads, GrowAtOnce(t) \/ EndGrowth(t)
          PROVE  Extend
        BY <1>5 DEF GrowAtOnce, EndGrowth, Extend, DiskInv, OneGrows
    <1>6. ASSUME NEW t \in Threads, RemoveExtent(t)
          PROVE  Free
        BY <1>6, HeadIsOwned DEF RemoveExtent, Free
    <1> QED BY <1>1, <1>2, <1>3, <1>4, <1>5, <1>6 DEF DiskNext, Step, AllocatorNext

-----------------------------------------------------------------------------
(* Growing the file. *)

\* Extending the allocator moves its capacity; allocating and freeing do not.
LEMMA CapacitySteps ==
    ASSUME NEW t \in Threads
    PROVE  /\ Allocated(t) \/ RemoveExtent(t) => UNCHANGED m_max_idx
           /\ GrowAtOnce(t) \/ EndGrowth(t) => m_max_idx' = m_max_idx + ExtendPages
    BY DEF Allocated, RemoveExtent, GrowAtOnce, EndGrowth, allocate, free, extend

\* The types are kept.
LEMMA DiskTypeStep == DiskInv /\ [DiskNext]_diskVars => DiskTypeOK'
    <1> SUFFICES ASSUME DiskInv, [DiskNext]_diskVars
                 PROVE  DiskTypeOK'
        OBVIOUS
    <1> USE DEF DiskTypeOK, Labels
    <1>0. DiskTypeOK /\ m_max_idx \in Nat
        BY DEF DiskInv, AccountingInv, AllocatorTypeOK
    <1>1. CASE UNCHANGED diskVars
        BY <1>0, <1>1 DEF diskVars, diskOnlyVars
    <1>2. ASSUME NEW t \in Threads, NEW n \in 1 .. MaxRequest, Call(t, n)
          PROVE  DiskTypeOK'
        BY <1>0, <1>2, MaxRequestAssumption DEF Call, GoOn
    <1>3. ASSUME NEW t \in Threads, RemoveFile(t) \/ Resume(t)
          PROVE  DiskTypeOK'
        BY <1>0, <1>3 DEF RemoveFile, Resume, GoOn
    <1>4. ASSUME NEW t \in Threads, AwaitGrowth(t) \/ StartGrowth(t) \/ GrowthFails(t)
          PROVE  DiskTypeOK'
        <2>1. CASE AwaitGrowth(t)
            BY <1>0, <2>1 DEF AwaitGrowth, Yield
        <2>2. CASE StartGrowth(t)
            BY <1>0, <2>2 DEF StartGrowth, Yield
        <2>3. CASE GrowthFails(t)
            BY <1>0, <2>3 DEF GrowthFails, Yield
        <2> QED BY <1>4, <2>1, <2>2, <2>3
    <1>5. ASSUME NEW t \in Threads, GrowAtOnce(t)
          PROVE  DiskTypeOK'
        BY <1>0, <1>5 DEF GrowAtOnce, SignalAll
    <1>6. ASSUME NEW t \in Threads, EndGrowth(t)
          PROVE  DiskTypeOK'
        <2>1. file_pages' \in Nat
            BY <1>0, <1>6, ExtendPagesAssumption DEF EndGrowth
        <2> QED BY <1>0, <1>6, <2>1 DEF EndGrowth, SignalAll
    <1>7. ASSUME NEW t \in Threads, Allocated(t)
          PROVE  DiskTypeOK'
        <2>1. PICK i \in 0 .. m_max_idx :
                 extents' = [extents EXCEPT ![t] = Append(@, [idx |-> i, size |-> need[t]])]
            BY <1>7 DEF Allocated
        <2>2. need[t] \in Nat \ {0}
            BY <1>7, MaxRequestAssumption DEF Allocated, DiskInv, RequestsKnown
        <2>3. [idx |-> i, size |-> need[t]] \in FileExtent
            BY <1>0, <2>2 DEF FileExtent
        <2>4. extents' \in [Threads -> Seq(FileExtent)]
            BY <1>0, <2>1, <2>3
        <2> QED BY <1>0, <1>7, <2>4 DEF Allocated, Yield
    <1>8. ASSUME NEW t \in Threads, RemoveExtent(t)
          PROVE  DiskTypeOK'
        <2>1. extents' \in [Threads -> Seq(FileExtent)]
            BY <1>0, <1>8 DEF RemoveExtent
        <2> QED BY <1>0, <1>8, <2>1 DEF RemoveExtent, Yield, GoOn
    <1> QED BY <1>1, <1>2, <1>3, <1>4, <1>5, <1>6, <1>7, <1>8 DEF DiskNext, Step

\* Only the thread that set m_allocation_in_progress grows the file.
LEMMA GrowthStep ==
    DiskInv /\ [DiskNext]_diskVars => RequestsKnown' /\ OneGrows' /\ PagesAreBacked'
    <1> DEFINE Goal == RequestsKnown' /\ OneGrows' /\ PagesAreBacked'
    <1> SUFFICES ASSUME DiskInv, [DiskNext]_diskVars
                 PROVE  Goal
        OBVIOUS
    <1> USE DEF RequestsKnown, OneGrows, PagesAreBacked
    <1>0. /\ DiskTypeOK /\ RequestsKnown /\ OneGrows /\ PagesAreBacked
          /\ m_max_idx \in Nat /\ ExtendPages \in Nat \ {0} /\ MaxRequest \in Nat
        BY ExtendPagesAssumption, MaxRequestAssumption
           DEF DiskInv, AccountingInv, AllocatorTypeOK
    <1>1. CASE UNCHANGED diskVars
        BY <1>0, <1>1 DEF diskVars, diskOnlyVars, allocatorVars
    <1>2. ASSUME NEW t \in Threads, NEW n \in 1 .. MaxRequest, Call(t, n)
          PROVE  Goal
        BY <1>0, <1>2 DEF Call, GoOn, allocatorVars, DiskTypeOK
    <1>3. ASSUME NEW t \in Threads, RemoveFile(t) \/ Resume(t)
          PROVE  Goal
        BY <1>0, <1>3 DEF RemoveFile, Resume, GoOn, allocatorVars, DiskTypeOK
    <1>4. ASSUME NEW t \in Threads, AwaitGrowth(t) \/ StartGrowth(t) \/ GrowthFails(t)
          PROVE  Goal
        <2>1. CASE AwaitGrowth(t)
            BY <1>0, <2>1 DEF AwaitGrowth, Yield, allocatorVars, DiskTypeOK
        <2>2. CASE StartGrowth(t)
            BY <1>0, <2>2 DEF StartGrowth, Yield, allocatorVars, DiskTypeOK
        <2>3. CASE GrowthFails(t)
            BY <1>0, <2>3 DEF GrowthFails, Yield, allocatorVars, DiskTypeOK
        <2> QED BY <1>4, <2>1, <2>2, <2>3
    <1>5. ASSUME NEW t \in Threads, GrowAtOnce(t)
          PROVE  Goal
        BY <1>0, <1>5, CapacitySteps DEF GrowAtOnce, SignalAll, DiskTypeOK
    <1>6. ASSUME NEW t \in Threads, EndGrowth(t)
          PROVE  Goal
        <2>1. offset[t] = m_max_idx /\ m_max_idx' = m_max_idx + ExtendPages
            BY <1>0, <1>6, CapacitySteps DEF EndGrowth
        <2>2. PagesAreBacked'
            BY <1>0, <1>6, <2>1 DEF EndGrowth, DiskTypeOK
        <2>3. \A u \in Threads : pc'[u] # "growing"
            BY <1>0, <1>6 DEF EndGrowth, SignalAll, DiskTypeOK
        <2> QED BY <1>0, <1>6, <2>2, <2>3 DEF EndGrowth, SignalAll, DiskTypeOK
    <1>7. ASSUME NEW t \in Threads, Allocated(t)
          PROVE  Goal
        BY <1>0, <1>7, CapacitySteps DEF Allocated, Yield, DiskTypeOK
    <1>8. ASSUME NEW t \in Threads, RemoveExtent(t)
          PROVE  Goal
        BY <1>0, <1>8, CapacitySteps DEF RemoveExtent, Yield, GoOn, DiskTypeOK
    <1> QED BY <1>1, <1>2, <1>3, <1>4, <1>5, <1>6, <1>7, <1>8 DEF DiskNext, Step

-----------------------------------------------------------------------------
(* Files and their pages. *)

\* disk::allocate gives a file an extent of pages that no extent has.
LEMMA AllocatedKeepsExtents ==
    ASSUME DiskInv, NEW t \in Threads, Allocated(t)
    PROVE  ExtentsDisjoint' /\ OwnedInExtents'
    <1>1. PICK i \in 0 .. m_max_idx :
             /\ allocate(need[t], i)
             /\ extents' = [extents EXCEPT ![t] = Append(@, [idx |-> i, size |-> need[t]])]
        BY DEF Allocated
    <1>2. need[t] \in Nat \ {0} /\ i \in Nat /\ extents \in [Threads -> Seq(FileExtent)]
        BY MaxRequestAssumption
           DEF Allocated, DiskInv, RequestsKnown, DiskTypeOK, AccountingInv, AllocatorTypeOK
    <1> DEFINE new == PagesOf(i, need[t])
    <1>n. PICK n \in Nat : n = Len(extents[t]) + 1
        BY <1>2
    <1>3. owned' = owned \cup new /\ owned \cap new = {} /\ new \subseteq Int
        <2>1. AccountingInv
            BY DEF DiskInv
        <2>2. owned \cap new = {}
            BY <1>1, <1>2, <2>1, AllocateKeepsAccounting
        <2>3. owned' = owned \cup new
            BY <1>1 DEF allocate
        <2> QED BY <2>2, <2>3 DEF PagesOf
    <1>4. n \notin DOMAIN extents[t] /\ DOMAIN extents'[t] = DOMAIN extents[t] \cup {n}
        BY <1>1, <1>2, <1>n
    <1>5. ExtentPages(t, n)' = new
        <2>1. extents'[t][n] = [idx |-> i, size |-> need[t]]
            BY <1>1, <1>2, <1>n
        <2> QED BY <2>1 DEF ExtentPages
    <1>6. \A j \in DOMAIN extents[t] : extents'[t][j] = extents[t][j]
        BY <1>1, <1>2
    <1>7. \A u \in Threads \ {t} : extents'[u] = extents[u]
        BY <1>1, <1>2
    <1>8. \A u \in Threads : \A j \in DOMAIN extents[u] :
             /\ j \in DOMAIN extents'[u] /\ ExtentPages(u, j)' = ExtentPages(u, j)
             /\ ExtentPages(u, j) \subseteq owned
        <2> SUFFICES ASSUME NEW u \in Threads, NEW j \in DOMAIN extents[u]
                     PROVE  /\ j \in DOMAIN extents'[u] /\ ExtentPages(u, j)' = ExtentPages(u, j)
                            /\ ExtentPages(u, j) \subseteq owned
            OBVIOUS
        <2>1. j \in DOMAIN extents'[u] /\ extents'[u][j] = extents[u][j]
            BY <1>4, <1>6, <1>7
        <2>2. ExtentPages(u, j) \subseteq Int
            BY DEF ExtentPages, PagesOf
        <2>3. ExtentPages(u, j) \subseteq owned
            BY <2>2 DEF DiskInv, OwnedInExtents
        <2> QED BY <2>1, <2>3 DEF ExtentPages
    <1> HIDE DEF new
    <1>9. \A u \in Threads : \A j \in DOMAIN extents'[u] :
             j \in DOMAIN extents[u] \/ (u = t /\ j = n)
        BY <1>4, <1>7
    <1>10. ExtentsDisjoint'
        <2> SUFFICES ASSUME NEW u \in Threads, NEW v \in Threads,
                            NEW j \in DOMAIN extents'[u], NEW k \in DOMAIN extents'[v],
                            ExtentPages(u, j)' \cap ExtentPages(v, k)' # {}
                     PROVE  u = v /\ j = k
            BY DEF ExtentsDisjoint, ExtentPages
        <2>1. CASE j \in DOMAIN extents[u] /\ k \in DOMAIN extents[v]
            BY <1>8, <2>1 DEF DiskInv, ExtentsDisjoint
        <2>2. CASE j \in DOMAIN extents[u] /\ v = t /\ k = n
            BY <1>3, <1>5, <1>8, <2>2
        <2>3. CASE k \in DOMAIN extents[v] /\ u = t /\ j = n
            BY <1>3, <1>5, <1>8, <2>3
        <2> QED BY <1>9, <2>1, <2>2, <2>3
    <1>11. OwnedInExtents'
        <2> SUFFICES ASSUME NEW page \in Int
                     PROVE  page \in owned' <=>
                               \E u \in Threads : \E j \in DOMAIN extents'[u] :
                                   page \in ExtentPages(u, j)'
            BY DEF OwnedInExtents, ExtentPages
        <2>1. page \in owned <=>
                 \E u \in Threads : \E j \in DOMAIN extents[u] : page \in ExtentPages(u, j)
            BY DEF DiskInv, OwnedInExtents
        <2> QED BY <1>3, <1>4, <1>5, <1>8, <1>9, <2>1
    <1> QED BY <1>10, <1>11

\* disk::remove takes the first extent off a file and gives back just its pages.
LEMMA RemovedKeepsExtents ==
    ASSUME DiskInv, NEW t \in Threads, RemoveExtent(t)
    PROVE  ExtentsDisjoint' /\ OwnedInExtents'
    <1> DEFINE gone == ExtentPages(t, 1)
    <1>1. extents[t] # <<>> /\ extents' = [extents EXCEPT ![t] = Tail(@)]
          /\ extents \in [Threads -> Seq(FileExtent)]
        BY DEF RemoveExtent, DiskInv, DiskTypeOK
    <1>2. 1 \in DOMAIN extents[t] /\ owned' = owned \ gone
        <2>1. Head(extents[t]) = extents[t][1] /\ 1 \in DOMAIN extents[t]
            BY <1>1
        <2> QED BY <2>1 DEF RemoveExtent, free, ExtentPages
    <1>3. \A j \in DOMAIN extents'[t] :
             j \in Nat \ {0} /\ j + 1 \in DOMAIN extents[t] /\ extents'[t][j] = extents[t][j + 1]
        BY <1>1
    <1>4. \A j \in DOMAIN extents[t] : j # 1 =>
             j \in Nat /\ j - 1 \in DOMAIN extents'[t] /\ extents'[t][j - 1] = extents[t][j]
        BY <1>1
    <1>5. \A u \in Threads \ {t} : extents'[u] = extents[u]
        BY <1>1
    <1> HIDE DEF gone
    <1> DEFINE old(u, j) == IF u = t THEN j + 1 ELSE j
    <1>6. \A u \in Threads : \A j \in DOMAIN extents'[u] :
             /\ old(u, j) \in DOMAIN extents[u]
             /\ ExtentPages(u, j)' = ExtentPages(u, old(u, j))
             /\ ~(u = t /\ old(u, j) = 1)
        BY <1>3, <1>5 DEF ExtentPages
    <1>7. \A u, v \in Threads : \A j \in DOMAIN extents'[u], k \in DOMAIN extents'[v] :
             u = v /\ old(u, j) = old(v, k) => j = k
        BY <1>3
    <1>8. \A u \in Threads : \A j \in DOMAIN extents[u] :
             \/ u = t /\ j = 1
             \/ \E k \in DOMAIN extents'[u] : ExtentPages(u, k)' = ExtentPages(u, j)
        <2> SUFFICES ASSUME NEW u \in Threads, NEW j \in DOMAIN extents[u], ~(u = t /\ j = 1)
                     PROVE  \E k \in DOMAIN extents'[u] : ExtentPages(u, k)' = ExtentPages(u, j)
            OBVIOUS
        <2>1. CASE u = t
            <3>1. j - 1 \in DOMAIN extents'[u] /\ extents'[u][j - 1] = extents[u][j]
                BY <1>4, <2>1
            <3> QED BY <3>1 DEF ExtentPages
        <2>2. CASE u # t
            BY <1>5, <2>2 DEF ExtentPages
        <2> QED BY <2>1, <2>2
    <1> HIDE DEF old
    <1>9. ExtentsDisjoint'
        <2> SUFFICES ASSUME NEW u \in Threads, NEW v \in Threads,
                            NEW j \in DOMAIN extents'[u], NEW k \in DOMAIN extents'[v],
                            ExtentPages(u, j)' \cap ExtentPages(v, k)' # {}
                     PROVE  u = v /\ j = k
            BY DEF ExtentsDisjoint, ExtentPages
        <2>1. u = v /\ old(u, j) = old(v, k)
            BY <1>6 DEF DiskInv, ExtentsDisjoint
        <2> QED BY <1>7, <2>1
    <1>10. OwnedInExtents'
        <2> SUFFICES ASSUME NEW page \in Int
                     PROVE  page \in owned' <=>
                               \E u \in Threads : \E j \in DOMAIN extents'[u] :
                                   page \in ExtentPages(u, j)'
            BY DEF OwnedInExtents, ExtentPages
        <2>1. page \in owned <=>
                 \E u \in Threads : \E j \in DOMAIN extents[u] : page \in ExtentPages(u, j)
            BY DEF DiskInv, OwnedInExtents
        <2>2. \A u \in Threads : \A j \in DOMAIN extents[u] :
                 page \in ExtentPages(u, j) /\ page \in gone => u = t /\ j = 1
            BY <1>2 DEF DiskInv, ExtentsDisjoint, gone
        <2>3. ASSUME NEW u \in Threads, NEW j \in DOMAIN extents'[u], page \in ExtentPages(u, j)'
              PROVE  page \in owned'
            BY <1>2, <1>6, <2>1, <2>2, <2>3
        <2>4. ASSUME page \in owned'
              PROVE  \E u \in Threads : \E j \in DOMAIN extents'[u] : page \in ExtentPages(u, j)'
            <3>0. PICK u \in Threads : \E j \in DOMAIN extents[u] : page \in ExtentPages(u, j)
                BY <1>2, <2>1, <2>4
            <3>1. PICK j \in DOMAIN extents[u] : page \in ExtentPages(u, j)
                BY <3>0
            <3>2. ~(u = t /\ j = 1)
                BY <1>2, <2>4, <3>1 DEF gone
            <3> QED BY <1>8, <3>1, <3>2
        <2> QED BY <2>3, <2>4
    <1> QED BY <1>9, <1>10

\* No other step touches an extent or what is handed out.
LEMMA ExtentsStep == DiskInv /\ [DiskNext]_diskVars => ExtentsDisjoint' /\ OwnedInExtents'
    <1> SUFFICES ASSUME DiskInv, [DiskNext]_diskVars
                 PROVE  ExtentsDisjoint' /\ OwnedInExtents'
        OBVIOUS
    <1>1. CASE UNCHANGED <<extents, owned>>
        BY <1>1, SMTT(30) DEF DiskInv, ExtentsDisjoint, OwnedInExtents, ExtentPages
    <1>2. ASSUME NEW t \in Threads, NEW n \in 1 .. MaxRequest, Call(t, n)
          PROVE  UNCHANGED <<extents, owned>>
        BY <1>2 DEF Call, allocatorVars
    <1>3. ASSUME NEW t \in Threads,
                 RemoveFile(t) \/ AwaitGrowth(t) \/ StartGrowth(t) \/ GrowthFails(t) \/ Resume(t)
          PROVE  UNCHANGED <<extents, owned>>
        BY <1>3 DEF RemoveFile, AwaitGrowth, StartGrowth, GrowthFails, Resume, allocatorVars
    <1>4. ASSUME NEW t \in Threads, GrowAtOnce(t) \/ EndGrowth(t)
          PROVE  UNCHANGED <<extents, owned>>
        BY <1>4 DEF GrowAtOnce, EndGrowth, extend
    <1>5. CASE UNCHANGED diskVars
        BY <1>1, <1>5 DEF diskVars, diskOnlyVars, allocatorVars
    <1> QED BY <1>1, <1>2, <1>3, <1>4, <1>5, AllocatedKeepsExtents, RemovedKeepsExtents
            DEF DiskNext, Step

-----------------------------------------------------------------------------
(* The theorems. *)

\* storage::disk starts in the invariant.
LEMMA DiskInvInit == DiskInit => DiskInv
    <1> SUFFICES ASSUME DiskInit PROVE DiskInv
        OBVIOUS
    <1>1. AccountingInv
        BY AccountingInit DEF DiskInit
    <1>2. DiskTypeOK
        <2>1. <<>> \in Seq(FileExtent)
            OBVIOUS
        <2> QED BY <2>1, InitialPagesAssumption DEF DiskInit, DiskTypeOK, Labels
    <1>3. RequestsKnown /\ OneGrows
        BY DEF DiskInit, RequestsKnown, OneGrows
    <1>4. PagesAreBacked
        BY InitialPagesAssumption DEF DiskInit, AllocatorInit, PagesAreBacked
    <1>5. ExtentsDisjoint /\ OwnedInExtents
        BY DEF DiskInit, AllocatorInit, ExtentsDisjoint, OwnedInExtents
    <1> QED BY <1>1, <1>2, <1>3, <1>4, <1>5 DEF DiskInv

\* ... and stays in it.
LEMMA DiskInvStep == DiskInv /\ [DiskNext]_diskVars => DiskInv'
    BY UsesAllocator, AccountingStep, DiskTypeStep, GrowthStep, ExtentsStep DEF DiskInv

LEMMA DiskInvariant == DiskSpec => []DiskInv
    BY DiskInvInit, DiskInvStep, PTL DEF DiskSpec

\* disk calls its allocator as the allocator's specification says: with requests
\* of at least one page, freeing only what was handed out, and growing by steps
\* of 32768 pages although the capacity was read before a yield.
THEOREM DiskImplementsAllocator == DiskSpec => AllocatorSpec
    <1>1. DiskInit => AllocatorInit
        BY DEF DiskInit
    <1> QED BY <1>1, UsesAllocator, DiskInvariant, PTL DEF DiskSpec, AllocatorSpec

\* Files share no page, and the pages handed out are the pages of the files:
\* disk::allocate and disk::remove lose nothing, whoever yields in between.
THEOREM DiskFilesOwnTheirPages == DiskSpec => []FilesOwnTheirPages
    <1>1. DiskInv => FilesOwnTheirPages
        <2> SUFFICES ASSUME DiskInv PROVE FilesOwnTheirPages
            OBVIOUS
        <2>1. \A t \in Threads : \A page :
                 page \in FilePages(t) <=> \E i \in DOMAIN extents[t] : page \in ExtentPages(t, i)
            BY DEF FilePages, ExtentPages
        <2>2. \A t, u \in Threads : t # u => FilePages(t) \cap FilePages(u) = {}
            BY <2>1 DEF DiskInv, ExtentsDisjoint
        <2>3. \A t \in Threads : \A i \in DOMAIN extents[t] : ExtentPages(t, i) \subseteq Int
            BY DEF ExtentPages, PagesOf
        <2>4. owned \subseteq Int
            BY DEF DiskInv, AccountingInv, AllocatorTypeOK
        <2>5. owned = UNION {FilePages(t) : t \in Threads}
            BY <2>1, <2>3, <2>4 DEF DiskInv, OwnedInExtents
        <2> QED BY <2>2, <2>5 DEF FilesOwnTheirPages
    <1> QED BY <1>1, DiskInvariant, PTL

\* With preallocation the allocator never hands out a page that the kernel has
\* not allocated, although allocate_space reads the capacity before it yields to
\* the kernel and extends it after.
THEOREM DiskPagesAreBacked == DiskSpec => []PagesAreBacked
    BY DiskInvariant, PTL DEF DiskInv

\* On the disk every page is owned or in one free extent, ...
THEOREM DiskPagesAccountedFor == DiskSpec => []PagesAccountedFor
    BY DiskImplementsAllocator, PageAccounting, PTL

\* ... and the threads that drop files never part free space, except at page 0.
THEOREM DiskFreeSpaceStaysWhole == DiskSpec => FreeSpaceIsCutOnlyAtItsStart
    BY DiskImplementsAllocator, FreeSpaceStaysWhole, PTL

-----------------------------------------------------------------------------
(* The slice writer: types. *)

Bytes == Nat \X Nat
Part == [key : Nat, bytes : Seq(Bytes), eor : BOOLEAN, deleted : BOOLEAN]
IndexEntry == [key : Nat, max : Nat, location : Nat]
DataNode == [leaf : {TRUE}, entries : Seq(Part), next : Nat]
IndexNode == [leaf : {FALSE}, entries : Seq(IndexEntry), next : Nat]
Files == Seq(DataNode \cup IndexNode)
IndexWriter == [node : Seq(IndexEntry), first : Nat, last : Nat]
Writers ==
    [node : Seq(Part), first_key : Nat, last_key : Nat, last_eor : BOOLEAN,
     file : Files, index : Seq(IndexWriter), root : Nat]

\* The parts in the data nodes of a file.
PartsIn(node) == IF node.leaf THEN node.entries ELSE <<>>
LeafParts(file) == FlattenSeq([i \in 1 .. Len(file) |-> PartsIn(file[i])])

\* Every node is linked to the one behind it.
Linked(file) == \A i \in 1 .. Len(file) : file[i].next = IF i = Len(file) THEN Invalid ELSE i + 1

SameNodes(f, g) ==
    /\ Len(f) <= Len(g)
    /\ \A i \in 1 .. Len(f) : g[i].leaf = f[i].leaf /\ g[i].entries = f[i].entries

LEMMA LeavesType ==
    ASSUME NEW file \in Files
    PROVE  /\ Len(file) \in Nat
           /\ \A i \in 1 .. Len(file) : file[i] \in DataNode \cup IndexNode /\ PartsIn(file[i]) \in Seq(Part)
           /\ [i \in 1 .. Len(file) |-> PartsIn(file[i])] \in Seq(Seq(Part))
           /\ LeafParts(file) \in Seq(Part)
    <1>1. Len(file) \in Nat /\ \A i \in 1 .. Len(file) : file[i] \in DataNode \cup IndexNode
        BY LenProperties, ElementOfSeq DEF Files
    <1>2. ASSUME NEW n \in DataNode \cup IndexNode PROVE PartsIn(n) \in Seq(Part)
        BY EmptySeq DEF PartsIn, DataNode, IndexNode
    <1>3. \A i \in 1 .. Len(file) : PartsIn(file[i]) \in Seq(Part)
        BY <1>1, <1>2
    <1> DEFINE s == [i \in 1 .. Len(file) |-> PartsIn(file[i])]
               P == Seq(Part)
    <1>4. s \in Seq(P)
        <2> HIDE DEF P
        <2> QED BY <1>1, <1>3 DEF P
    <1> HIDE DEF s
    <1>5. FlattenSeq(s) \in Seq(Part)
        BY <1>4, FlattenType
    <1> QED BY <1>1, <1>3, <1>4, <1>5 DEF s, LeafParts

LEMMA RelinkedNode ==
    ASSUME NEW x \in DataNode \cup IndexNode, NEW m \in Nat
    PROVE  LET e == [x EXCEPT !.next = m]
           IN  /\ e \in DataNode \cup IndexNode
               /\ e.leaf = x.leaf /\ e.entries = x.entries /\ e.next = m
    <1>1. CASE x \in DataNode
        BY <1>1 DEF DataNode
    <1>2. CASE x \in IndexNode
        BY <1>2 DEF IndexNode
    <1> QED BY <1>1, <1>2

\* slice_writer::store: g is file with one node more.
StoredAs(g, file, node, leaf) ==
    /\ g \in Files /\ Len(g) = Len(file) + 1
    /\ SameNodes(file, g)
    /\ g[Len(g)].leaf = leaf /\ g[Len(g)].entries = node
    /\ LeafParts(g) = LeafParts(file) \o (IF leaf THEN node ELSE <<>>)
    /\ Linked(file) => Linked(g)

LEMMA StoreIs ==
    ASSUME NEW file \in Files, NEW leaf \in BOOLEAN, NEW node,
           leaf => node \in Seq(Part), ~leaf => node \in Seq(IndexEntry)
    PROVE  StoredAs(store(file, node, leaf), file, node, leaf)
    <1> DEFINE n == Len(file)
               linked == IF file = <<>> THEN file ELSE [file EXCEPT ![Len(file)].next = Len(file) + 1]
               last == [leaf |-> leaf, entries |-> node, next |-> Invalid]
               N == DataNode \cup IndexNode
               g == Append(linked, last)
               own == IF leaf THEN node ELSE <<>>
    <1>1. store(file, node, leaf) = g
        BY DEF store
    <1>2. n \in Nat /\ file \in Seq(N) /\ (n = 0 <=> file = <<>>)
          /\ \A i \in 1 .. n : file[i] \in N
        BY LeavesType, EmptySeq DEF Files
    <1>3. last \in N /\ last.leaf = leaf /\ last.entries = node /\ last.next = Invalid
        BY DEF DataNode, IndexNode, Invalid
    <1>4. /\ linked \in Seq(N) /\ Len(linked) = n
          /\ \A i \in 1 .. n : /\ linked[i].leaf = file[i].leaf /\ linked[i].entries = file[i].entries
                               /\ linked[i].next = IF i = n THEN n + 1 ELSE file[i].next
        <2>1. CASE file = <<>>
            <3>1. n = 0 /\ linked = file
                BY <1>2, <2>1
            <3>2. 1 .. n = {}
                BY <3>1
            <3> QED BY <1>2, <3>1, <3>2
        <2>2. CASE file # <<>>
            <3> DEFINE e == [file[n] EXCEPT !.next = n + 1]
            <3>1. n \in 1 .. n /\ file[n] \in N
                BY <1>2, <2>2
            <3>2. e \in N /\ e.leaf = file[n].leaf /\ e.entries = file[n].entries /\ e.next = n + 1
                <4>1. n + 1 \in Nat
                    BY <1>2
                <4> QED BY <3>1, <4>1, RelinkedNode
            <3>3. linked = [file EXCEPT ![n] = e]
                BY <2>2
            <3> HIDE DEF e, N, linked
            <3>4. /\ linked \in Seq(N) /\ Len(linked) = n
                  /\ \A i \in 1 .. n : linked[i] = IF i = n THEN e ELSE file[i]
                BY <1>2, <3>1, <3>2, <3>3, ExceptSeq
            <3> QED BY <3>2, <3>4
        <2> QED BY <2>1, <2>2
    <1> HIDE DEF linked, last, N, n
    <1>5. /\ g \in Seq(N) /\ Len(g) = n + 1 /\ g[n + 1] = last
          /\ \A i \in 1 .. n : g[i] = linked[i]
        BY <1>3, <1>4, AppendProperties
    <1> HIDE DEF g
    <1>6. SameNodes(file, g)
        <2>1. n <= n + 1
            BY <1>2
        <2> QED BY <1>4, <1>5, <2>1 DEF SameNodes, n
    <1>7. LeafParts(g) = LeafParts(file) \o own
        <2> DEFINE a == [i \in 1 .. Len(g) |-> PartsIn(g[i])]
                   b == [i \in 1 .. Len(file) |-> PartsIn(file[i])]
                   P == Seq(Part)
                   c == Append(b, own)
        <2>1. g \in Files
            BY <1>5 DEF Files, N
        <2>2. a \in Seq(P) /\ b \in Seq(P)
            BY <2>1, LeavesType
        <2>3. own \in P
            BY EmptySeq
        <2>4. Len(a) = n + 1 /\ Len(b) = n
            BY <1>2, <1>5 DEF n
        <2>5. \A i \in 1 .. n : a[i] = b[i]
            <3>1. \A i \in 1 .. n : i \in 1 .. n + 1
                BY <1>2
            <3> QED BY <1>4, <1>5, <3>1 DEF PartsIn, n
        <2>6. a[n + 1] = own
            <3>1. n + 1 \in 1 .. n + 1
                BY <1>2
            <3> QED BY <1>3, <1>5, <3>1 DEF PartsIn
        <2> HIDE DEF a, b, P, own
        <2>7. c \in Seq(P) /\ Len(c) = n + 1 /\ c[n + 1] = own /\ \A i \in 1 .. n : c[i] = b[i]
            BY <2>2, <2>3, <2>4, AppendProperties
        <2>8. ASSUME NEW i \in 1 .. n + 1 PROVE a[i] = c[i]
            <3>1. i = n + 1 \/ i \in 1 .. n
                BY <1>2
            <3> QED BY <2>5, <2>6, <2>7, <3>1
        <2> HIDE DEF c
        <2>9. a = c
            BY <2>2, <2>4, <2>7, <2>8, SeqEqual
        <2>10. FlattenSeq(c) = FlattenSeq(b) \o own
            BY <2>2, <2>3, FlattenAppend DEF P, c
        <2> QED BY <2>9, <2>10 DEF LeafParts, a, b
    <1>8. ASSUME Linked(file) PROVE Linked(g)
        <2> SUFFICES ASSUME NEW i \in 1 .. n + 1
                     PROVE  g[i].next = IF i = n + 1 THEN Invalid ELSE i + 1
            BY <1>5 DEF Linked
        <2>1. CASE i = n + 1
            BY <1>3, <1>5, <2>1
        <2>2. CASE i # n + 1
            <3>1. i \in 1 .. n
                BY <1>2, <2>2
            <3>2. g[i].next = IF i = n THEN n + 1 ELSE file[i].next
                BY <1>4, <1>5, <3>1
            <3>3. i # n => file[i].next = i + 1
                BY <1>8, <3>1 DEF Linked, n
            <3> QED BY <2>2, <3>2, <3>3
        <2> QED BY <2>1, <2>2
    <1>9. g[Len(g)].leaf = leaf /\ g[Len(g)].entries = node
        BY <1>3, <1>5
    <1>10. g \in Files
        BY <1>5 DEF Files, N
    <1> QED BY <1>1, <1>5, <1>6, <1>7, <1>8, <1>9, <1>10 DEF n, StoredAs

(* The index nodes. *)

\* Writers that have the same parts as wr, in the same data nodes and in the node
\* that is being filled.
Kept(wr) ==
    {x \in Writers :
        /\ x.node = wr.node /\ x.first_key = wr.first_key
        /\ x.last_key = wr.last_key /\ x.last_eor = wr.last_eor
        /\ Len(wr.index) <= Len(x.index)
        /\ SameNodes(wr.file, x.file) /\ LeafParts(x.file) = LeafParts(wr.file)
        /\ Linked(wr.file) => Linked(x.file)}

LEMMA WriterIs ==
    ASSUME NEW wr \in Writers
    PROVE  /\ wr.node \in Seq(Part) /\ wr.first_key \in Nat /\ wr.last_key \in Nat
           /\ wr.last_eor \in BOOLEAN /\ wr.file \in Files /\ wr.root \in Nat
           /\ wr.index \in Seq(IndexWriter) /\ Len(wr.index) \in Nat
           /\ Len(wr.file) \in Nat /\ LeafParts(wr.file) \in Seq(Part)
           /\ \A i \in 1 .. Len(wr.index) : wr.index[i] \in IndexWriter
    <1>1. /\ wr.node \in Seq(Part) /\ wr.first_key \in Nat /\ wr.last_key \in Nat
          /\ wr.last_eor \in BOOLEAN /\ wr.file \in Files /\ wr.root \in Nat
          /\ wr.index \in Seq(IndexWriter)
        BY DEF Writers
    <1> QED BY <1>1, LeavesType, LenProperties, ElementOfSeq

LEMMA KeptSelf ==
    ASSUME NEW wr \in Writers
    PROVE  wr \in Kept(wr)
    <1>1. Len(wr.index) \in Nat /\ Len(wr.file) \in Nat
        BY WriterIs
    <1> QED BY <1>1 DEF Kept, SameNodes

LEMMA KeptTrans ==
    ASSUME NEW wr \in Writers, NEW x \in Kept(wr), NEW y \in Kept(x)
    PROVE  y \in Kept(wr)
    <1>1. x \in Writers /\ y \in Writers
        BY DEF Kept
    <1>2. /\ Len(wr.index) \in Nat /\ Len(x.index) \in Nat /\ Len(y.index) \in Nat
          /\ Len(wr.file) \in Nat /\ Len(x.file) \in Nat /\ Len(y.file) \in Nat
        BY <1>1, WriterIs
    <1>3. Len(wr.index) <= Len(y.index)
        <2>1. Len(wr.index) <= Len(x.index) /\ Len(x.index) <= Len(y.index)
            BY DEF Kept
        <2> QED BY <1>2, <2>1
    <1>4. SameNodes(wr.file, y.file)
        <2>1. SameNodes(wr.file, x.file) /\ SameNodes(x.file, y.file)
            BY DEF Kept
        <2>2. \A i \in 1 .. Len(wr.file) : i \in 1 .. Len(x.file)
            BY <1>2, <2>1 DEF SameNodes
        <2>3. Len(wr.file) <= Len(y.file)
            BY <1>2, <2>1 DEF SameNodes
        <2> QED BY <2>1, <2>2, <2>3 DEF SameNodes
    <1> QED BY <1>1, <1>3, <1>4 DEF Kept

\* An index node is stored.
LEMMA KeptStored ==
    ASSUME NEW wr \in Writers, NEW node \in Seq(IndexEntry), NEW x \in Writers,
           x.node = wr.node, x.first_key = wr.first_key,
           x.last_key = wr.last_key, x.last_eor = wr.last_eor,
           Len(wr.index) <= Len(x.index), x.file = store(wr.file, node, FALSE)
    PROVE  x \in Kept(wr)
    <1> DEFINE g == store(wr.file, node, FALSE)
    <1>1. wr.file \in Files /\ LeafParts(wr.file) \in Seq(Part)
        BY WriterIs
    <1>2. /\ SameNodes(wr.file, g) /\ LeafParts(g) = LeafParts(wr.file) \o <<>>
          /\ Linked(wr.file) => Linked(g)
        <2>1. StoredAs(g, wr.file, node, FALSE)
            BY <1>1, StoreIs
        <2> HIDE DEF g
        <2> QED BY <2>1 DEF StoredAs
    <1>3. LeafParts(wr.file) \o <<>> = LeafParts(wr.file)
        BY <1>1, ConcatEmptySeq
    <1> HIDE DEF g
    <1>4. x.file = g
        BY DEF g
    <1> QED BY <1>2, <1>3, <1>4 DEF Kept

Climbers == [writer : Writers, level : Nat, entry : IndexEntry, done : BOOLEAN]

LEMMA ClimbKeeps ==
    ASSUME NEW wr \in Writers, NEW c \in Climbers, c.writer \in Kept(wr),
           c.level \in 1 .. Len(c.writer.index)
    PROVE  /\ Climb(c) \in Climbers /\ Climb(c).writer \in Kept(wr)
           /\ Climb(c).level \in 1 .. Len(Climb(c).writer.index)
    <1> DEFINE v == c.writer
               e == c.entry
               l == v.index[c.level]
               first == IF l.first = NoKey THEN e.key ELSE l.first
               file == store(v.file, l.node, FALSE)
               fresh == [node |-> <<e>>, first |-> e.key, last |-> e.max]
               more == [node |-> Append(l.node, e), first |-> first, last |-> e.max]
               index == [v.index EXCEPT ![c.level] = fresh]
               levels == IF c.level = Len(index) THEN Append(index, NewIndexWriter) ELSE index
               up == [key |-> first, max |-> l.last, location |-> Len(file)]
               n == Len(v.index)
    <1>1. v \in Writers /\ e \in IndexEntry /\ c.level \in 1 .. n /\ c.done \in BOOLEAN
        BY DEF Climbers
    <1>2. /\ v.index \in Seq(IndexWriter) /\ n \in Nat /\ v.file \in Files /\ l \in IndexWriter
        BY <1>1, WriterIs
    <1>3. e.key \in Nat /\ e.max \in Nat /\ l.first \in Nat /\ l.last \in Nat /\ l.node \in Seq(IndexEntry)
        BY <1>1, <1>2 DEF IndexEntry, IndexWriter
    <1>4. fresh \in IndexWriter
        BY <1>1, <1>3 DEF IndexWriter
    <1>5. more \in IndexWriter
        <2>1. Append(l.node, e) \in Seq(IndexEntry)
            BY <1>1, <1>3, AppendProperties
        <2> QED BY <1>3, <2>1 DEF IndexWriter
    <1>6. CASE c.done
        <2>1. Climb(c) = c
            BY <1>6 DEF Climb
        <2> QED BY <2>1
    <1>7. CASE ~c.done /\ Len(l.node) < IndexFanout
        <2> DEFINE changed == [v.index EXCEPT ![c.level] = more]
                   x == [v EXCEPT !.index = changed]
                   d == [c EXCEPT !.done = TRUE, !.writer = x]
        <2>1. Climb(c) = d
            BY <1>7 DEF Climb
        <2>2. changed \in Seq(IndexWriter) /\ Len(changed) = n
            BY <1>1, <1>2, <1>5, ExceptSeq
        <2> HIDE DEF changed
        <2>3. x \in Writers /\ x.index = changed /\ x.file = v.file
              /\ x.node = v.node /\ x.first_key = v.first_key /\ x.last_key = v.last_key
              /\ x.last_eor = v.last_eor
            BY <1>1, <2>2 DEF Writers
        <2>4. d \in Climbers /\ d.writer = x /\ d.level = c.level
            <3> HIDE DEF x
            <3> QED BY <2>3 DEF Climbers
        <2>5. x \in Kept(v)
            <3> HIDE DEF x, v
            <3>1. Len(x.index) = n /\ Len(v.file) \in Nat
                BY <1>1, <2>2, <2>3, WriterIs
            <3>2. n <= Len(x.index)
                BY <1>2, <3>1
            <3>3. SameNodes(v.file, v.file)
                BY <3>1 DEF SameNodes
            <3> QED BY <2>3, <3>2, <3>3 DEF Kept
        <2>6. x \in Kept(wr)
            <3> HIDE DEF x
            <3> QED BY <2>5, KeptTrans
        <2> HIDE DEF x, d
        <2>7. Len(x.index) = n
            BY <2>2, <2>3
        <2> QED BY <1>1, <2>1, <2>4, <2>6, <2>7
    <1>8. CASE ~c.done /\ ~(Len(l.node) < IndexFanout)
        <2> DEFINE x == [v EXCEPT !.file = file, !.index = levels]
                   d == [writer |-> x, level |-> c.level + 1, entry |-> up, done |-> FALSE]
        <2>1. Climb(c) = d
            BY <1>8 DEF Climb
        <2>2. file \in Files /\ Len(file) \in Nat
            <3>1. file \in Files
                <4>1. StoredAs(file, v.file, l.node, FALSE)
                    BY <1>2, <1>3, StoreIs
                <4> QED BY <4>1 DEF StoredAs
            <3> QED BY <3>1, LeavesType
        <2>3. index \in Seq(IndexWriter) /\ Len(index) = n
            BY <1>1, <1>2, <1>4, ExceptSeq
        <2>4. NewIndexWriter \in IndexWriter
            BY DEF NewIndexWriter, IndexWriter, NoKey
        <2>5. levels \in Seq(IndexWriter) /\ n <= Len(levels) /\ c.level + 1 \in 1 .. Len(levels)
            <3> HIDE DEF index
            <3>1. Append(index, NewIndexWriter) \in Seq(IndexWriter)
                  /\ Len(Append(index, NewIndexWriter)) = n + 1
                BY <2>3, <2>4, AppendProperties
            <3>2. CASE c.level = Len(index)
                BY <1>1, <1>2, <2>3, <3>1, <3>2
            <3>3. CASE c.level # Len(index)
                BY <1>1, <1>2, <2>3, <3>3
            <3> QED BY <3>2, <3>3
        <2>6. up \in IndexEntry
            BY <1>3, <2>2 DEF IndexEntry
        <2> HIDE DEF levels, up
        <2>7. x \in Writers /\ x.index = levels /\ x.file = file
              /\ x.node = v.node /\ x.first_key = v.first_key /\ x.last_key = v.last_key
              /\ x.last_eor = v.last_eor
            <3> HIDE DEF file
            <3> QED BY <1>1, <2>2, <2>5 DEF Writers
        <2> HIDE DEF x
        <2>8. d \in Climbers /\ d.writer = x /\ d.level = c.level + 1
            BY <1>1, <2>6, <2>7 DEF Climbers
        <2>9. x \in Kept(v)
            BY <1>1, <1>3, <2>5, <2>7, KeptStored
        <2>10. x \in Kept(wr)
            BY <2>9, KeptTrans
        <2> QED BY <2>1, <2>5, <2>7, <2>8, <2>10
    <1> QED BY <1>1, <1>6, <1>7, <1>8

LEMMA IndexAddKeeps ==
    ASSUME NEW wr \in Writers, NEW level \in 1 .. Len(wr.index), NEW e \in IndexEntry
    PROVE  IndexAdd(wr, level, e) \in Kept(wr)
    <1> DEFINE n == Len(wr.index) + 1
               base == [writer |-> wr, level |-> level, entry |-> e, done |-> FALSE]
               S == {c \in Climbers : c.writer \in Kept(wr) /\ c.level \in 1 .. Len(c.writer.index)}
               F == [c \in S |-> Climb(c)]
               Is(f) == f = [i \in 0 .. n |-> IF i = 0 THEN base ELSE Climb(f[i - 1])]
               climbed == CHOOSE f : Is(f)
    <1>1. n \in Nat
        BY WriterIs
    <1>2. IndexAdd(wr, level, e) = climbed[n].writer
        BY DEF IndexAdd
    <1>3. base \in S
        <2>1. base \in Climbers /\ base.writer = wr /\ base.level = level
            BY WriterIs DEF Climbers
        <2> QED BY <2>1, KeptSelf
    <1>4. \A c \in S : Climb(c) \in S
        BY ClimbKeeps
    <1>5. F \in [S -> S] /\ \A c \in S : F[c] = Climb(c)
        BY <1>4
    <1> HIDE DEF S, F, base, n
    <1>a. PICK g : Repeats(g, n, S, base, F)
        BY <1>1, <1>3, <1>5, RepeatedSteps
    <1>6. g \in [0 .. n -> S] /\ g[0] = base /\ \A i \in 1 .. n : g[i] = F[g[i - 1]]
        BY <1>a DEF Repeats
    <1>7. Is(g)
        <2>1. \A i \in 0 .. n : i # 0 => i \in 1 .. n /\ i - 1 \in 0 .. n
            BY <1>1
        <2>2. \A i \in 0 .. n : g[i] = IF i = 0 THEN base ELSE Climb(g[i - 1])
            BY <1>5, <1>6, <2>1
        <2>3. g = [i \in 0 .. n |-> g[i]]
            BY <1>6
        <2> QED BY <2>2, <2>3
    <1>8. Is(climbed)
        BY <1>7
    <1> HIDE DEF climbed
    <1>9. climbed[0] = base /\ \A i \in 1 .. n : climbed[i] = Climb(climbed[i - 1])
        <2>1. 0 \in 0 .. n /\ \A i \in 1 .. n : i \in 0 .. n /\ i # 0
            BY <1>1
        <2> QED BY <1>8, <2>1
    <1> DEFINE Ss == [i \in 0 .. n |-> S]
    <1>10. /\ climbed[0] \in Ss[0]
           /\ \A i \in 1 .. n : climbed[i - 1] \in Ss[i - 1] => climbed[i] \in Ss[i]
        BY <1>1, <1>3, <1>4, <1>9
    <1> HIDE DEF Ss
    <1>11. \A i \in 0 .. n : climbed[i] \in Ss[i]
        BY <1>1, <1>10, StaysIn
    <1>12. climbed[n] \in S
        BY <1>1, <1>11 DEF Ss
    <1> QED BY <1>2, <1>12 DEF S

Flushes == [writer : Writers, level : Nat, done : BOOLEAN]

LEMMA FlushLevelKeeps ==
    ASSUME NEW wr \in Writers, NEW c \in Flushes, c.writer \in Kept(wr),
           c.level \in 1 .. Len(c.writer.index)
    PROVE  /\ FlushLevel(c) \in Flushes /\ FlushLevel(c).writer \in Kept(wr)
           /\ FlushLevel(c).level \in 1 .. Len(FlushLevel(c).writer.index)
    <1> DEFINE v == c.writer
               l == v.index[c.level]
               file == store(v.file, l.node, FALSE)
               stored == [v EXCEPT !.file = file, !.root = Len(file)]
               up == [key |-> l.first, max |-> l.last, location |-> Len(file)]
               n == Len(v.index)
    <1>1. v \in Writers /\ c.level \in 1 .. n /\ c.done \in BOOLEAN
        BY DEF Flushes
    <1>2. v.index \in Seq(IndexWriter) /\ n \in Nat /\ v.file \in Files /\ l \in IndexWriter
        BY <1>1, WriterIs
    <1>3. l.first \in Nat /\ l.last \in Nat /\ l.node \in Seq(IndexEntry)
        BY <1>2 DEF IndexWriter
    <1>4. file \in Files /\ Len(file) \in Nat
        <2>1. file \in Files
            <3>1. StoredAs(file, v.file, l.node, FALSE)
                BY <1>2, <1>3, StoreIs
            <3> QED BY <3>1 DEF StoredAs
        <2> QED BY <2>1, LeavesType
    <1>5. stored \in Writers /\ stored.index = v.index /\ stored.file = file
          /\ stored.node = v.node /\ stored.first_key = v.first_key
          /\ stored.last_key = v.last_key /\ stored.last_eor = v.last_eor
        <2> HIDE DEF file
        <2> QED BY <1>1, <1>4 DEF Writers
    <1>6. up \in IndexEntry
        BY <1>3, <1>4 DEF IndexEntry
    <1> HIDE DEF stored, up
    <1>7. stored \in Kept(v)
        <2>1. n <= Len(stored.index)
            BY <1>2, <1>5
        <2> QED BY <1>1, <1>3, <1>5, <2>1, KeptStored
    <1>8. stored \in Kept(wr)
        BY <1>7, KeptTrans
    <1>9. CASE c.done
        <2>1. FlushLevel(c) = c
            BY <1>9 DEF FlushLevel
        <2> QED BY <2>1
    <1>10. CASE ~c.done /\ c.level = n
        <2> DEFINE d == [c EXCEPT !.writer = stored, !.done = TRUE]
        <2>1. FlushLevel(c) = d
            BY <1>10 DEF FlushLevel, stored
        <2>2. d \in Flushes /\ d.writer = stored /\ d.level = c.level
            BY <1>5 DEF Flushes
        <2> HIDE DEF d
        <2> QED BY <1>1, <1>5, <1>8, <2>1, <2>2
    <1>11. CASE ~c.done /\ c.level # n
        <2> DEFINE x == IndexAdd(stored, c.level + 1, up)
                   d == [writer |-> x, level |-> c.level + 1, done |-> FALSE]
        <2>1. FlushLevel(c) = d
            BY <1>11 DEF FlushLevel, stored, up
        <2>2. c.level + 1 \in 1 .. n /\ c.level + 1 \in Nat
            BY <1>1, <1>2, <1>11
        <2>3. x \in Kept(stored)
            BY <1>5, <1>6, <2>2, IndexAddKeeps
        <2> HIDE DEF x
        <2>4. x \in Kept(wr) /\ x \in Writers /\ n <= Len(x.index)
            <3>1. x \in Kept(wr)
                BY <1>8, <2>3, KeptTrans
            <3> QED BY <1>5, <2>3, <3>1 DEF Kept
        <2>5. Len(x.index) \in Nat
            BY <2>4, WriterIs
        <2>6. c.level + 1 \in 1 .. Len(x.index)
            BY <1>2, <2>2, <2>4, <2>5
        <2>7. d \in Flushes /\ d.writer = x /\ d.level = c.level + 1
            BY <2>2, <2>4 DEF Flushes
        <2> HIDE DEF d
        <2> QED BY <2>1, <2>4, <2>6, <2>7
    <1> QED BY <1>1, <1>9, <1>10, <1>11

LEMMA IndexFlushKeeps ==
    ASSUME NEW wr \in Writers, Len(wr.index) > 0
    PROVE  IndexFlush(wr) \in Kept(wr)
    <1> DEFINE n == Len(wr.index) + 1
               base == [writer |-> wr, level |-> 1, done |-> FALSE]
               S == {c \in Flushes : c.writer \in Kept(wr) /\ c.level \in 1 .. Len(c.writer.index)}
               F == [c \in S |-> FlushLevel(c)]
               Is(f) == f = [i \in 0 .. n |-> IF i = 0 THEN base ELSE FlushLevel(f[i - 1])]
               flush == CHOOSE f : Is(f)
    <1>1. n \in Nat
        BY WriterIs
    <1>2. IndexFlush(wr) = flush[n].writer
        BY DEF IndexFlush
    <1>3. base \in S
        <2>1. base \in Flushes /\ base.writer = wr /\ base.level = 1
            BY DEF Flushes
        <2>2. 1 \in 1 .. Len(wr.index)
            BY WriterIs
        <2> QED BY <2>1, <2>2, KeptSelf
    <1>4. \A c \in S : FlushLevel(c) \in S
        BY FlushLevelKeeps
    <1>5. F \in [S -> S] /\ \A c \in S : F[c] = FlushLevel(c)
        BY <1>4
    <1> HIDE DEF S, F, base, n
    <1>6. PICK g : Repeats(g, n, S, base, F)
        BY <1>1, <1>3, <1>5, RepeatedSteps
    <1>7. g \in [0 .. n -> S] /\ g[0] = base /\ \A i \in 1 .. n : g[i] = F[g[i - 1]]
        BY <1>6 DEF Repeats
    <1>8. Is(g)
        <2>1. \A i \in 0 .. n : i # 0 => i \in 1 .. n /\ i - 1 \in 0 .. n
            BY <1>1
        <2>2. \A i \in 0 .. n : g[i] = IF i = 0 THEN base ELSE FlushLevel(g[i - 1])
            BY <1>5, <1>7, <2>1
        <2>3. g = [i \in 0 .. n |-> g[i]]
            BY <1>7
        <2> QED BY <2>2, <2>3
    <1>9. Is(flush)
        BY <1>8
    <1> HIDE DEF flush
    <1>10. flush[0] = base /\ \A i \in 1 .. n : flush[i] = FlushLevel(flush[i - 1])
        <2>1. 0 \in 0 .. n /\ \A i \in 1 .. n : i \in 0 .. n /\ i # 0
            BY <1>1
        <2> QED BY <1>9, <2>1
    <1> DEFINE Ss == [i \in 0 .. n |-> S]
    <1>11. /\ flush[0] \in Ss[0]
           /\ \A i \in 1 .. n : flush[i - 1] \in Ss[i - 1] => flush[i] \in Ss[i]
        BY <1>1, <1>3, <1>4, <1>10
    <1> HIDE DEF Ss
    <1>12. \A i \in 0 .. n : flush[i] \in Ss[i]
        BY <1>1, <1>11, StaysIn
    <1>13. flush[n] \in S
        BY <1>1, <1>12 DEF Ss
    <1> QED BY <1>2, <1>13 DEF S

\* A data node is stored, and indexed or not.
LEMMA StoreLeafIs ==
    ASSUME NEW wr \in Writers, Len(wr.index) > 0
    PROVE  LET x == StoreLeaf(wr)
               g == store(wr.file, wr.node, TRUE)
           IN  /\ x \in Writers /\ x.node = <<>> /\ x.last_key = wr.last_key /\ x.last_eor = wr.last_eor
               /\ Len(x.index) > 0 /\ SameNodes(g, x.file)
               /\ LeafParts(x.file) = LeafParts(wr.file) \o wr.node
               /\ Linked(wr.file) => Linked(x.file)
               /\ g \in Files /\ Len(g) = Len(wr.file) + 1 /\ LeafParts(g) = LeafParts(wr.file) \o wr.node
    <1> DEFINE g == store(wr.file, wr.node, TRUE)
               stored == [wr EXCEPT !.file = g, !.node = <<>>]
               e == [key |-> wr.first_key, max |-> wr.last_key, location |-> Len(g)]
               x == StoreLeaf(wr)
    <1>1. /\ wr.node \in Seq(Part) /\ wr.first_key \in Nat /\ wr.last_key \in Nat
          /\ wr.file \in Files /\ Len(wr.index) \in Nat
        BY WriterIs
    <1>2. /\ g \in Files /\ Len(g) = Len(wr.file) + 1
          /\ LeafParts(g) = LeafParts(wr.file) \o wr.node
          /\ Linked(wr.file) => Linked(g)
        <2> DEFINE node == wr.node
                   file == wr.file
        <2>1. node \in Seq(Part) /\ file \in Files
            BY <1>1
        <2> HIDE DEF node, file
        <2>2. LET h == store(file, node, TRUE)
              IN  /\ h \in Files /\ Len(h) = Len(file) + 1
                  /\ LeafParts(h) = LeafParts(file) \o node
                  /\ Linked(file) => Linked(h)
            <3>1. StoredAs(store(file, node, TRUE), file, node, TRUE)
                BY <2>1, StoreIs
            <3> QED BY <3>1 DEF StoredAs
        <2> QED BY <2>2 DEF node, file
    <1>3. Len(g) \in Nat
        BY <1>2, LeavesType
    <1> HIDE DEF g
    <1>4. /\ stored \in Writers /\ stored.index = wr.index /\ stored.file = g /\ stored.node = <<>>
          /\ stored.last_key = wr.last_key /\ stored.last_eor = wr.last_eor
        BY <1>2, EmptySeq DEF Writers
    <1>5. e \in IndexEntry
        BY <1>1, <1>3 DEF IndexEntry
    <1>6. x \in Kept(stored)
        <2>1. CASE wr.first_key = NoKey
            <3>1. x = stored
                BY <2>1 DEF StoreLeaf, g
            <3> HIDE DEF stored, x
            <3> QED BY <1>4, <3>1, KeptSelf
        <2>2. CASE wr.first_key # NoKey
            <3>1. x = IndexAdd(stored, 1, e)
                BY <2>2 DEF StoreLeaf, g
            <3> HIDE DEF stored, x, e
            <3>2. 1 \in 1 .. Len(stored.index)
                BY <1>1, <1>4
            <3> QED BY <1>4, <1>5, <3>1, <3>2, IndexAddKeeps
        <2> QED BY <2>1, <2>2
    <1> HIDE DEF stored, x
    <1>7. /\ x \in Writers /\ x.node = <<>> /\ x.last_key = wr.last_key /\ x.last_eor = wr.last_eor
          /\ Len(wr.index) <= Len(x.index) /\ SameNodes(g, x.file) /\ LeafParts(x.file) = LeafParts(g)
          /\ Linked(g) => Linked(x.file)
        BY <1>4, <1>6 DEF Kept
    <1>8. Len(x.index) > 0
        <2>1. Len(x.index) \in Nat
            BY <1>7, WriterIs
        <2> QED BY <1>1, <1>7, <2>1
    <1> QED BY <1>2, <1>7, <1>8 DEF g, x

(* What a reader joins. *)

Pairs(s) == {<<e.key, e.deleted>> : e \in ToSet(s)}

\* Parts of a key follow each other up to the one that ends the record, and keys ascend.
InOrder(s) ==
    \A i \in 1 .. Len(s) - 1 : IF s[i].eor THEN s[i].key < s[i + 1].key ELSE s[i].key = s[i + 1].key

\* A part of key may come behind the parts of s.
MayFollow(s, key) == s # <<>> => IF Last(s).eor THEN Last(s).key < key ELSE Last(s).key = key

BytesIf(test, bytes) == IF test THEN bytes ELSE <<>>

LEMMA BytesType ==
    ASSUME NEW s \in Seq(Part), NEW k \in Nat
    PROVE  /\ [i \in 1 .. Len(s) |-> IF s[i].key = k THEN s[i].bytes ELSE <<>>] \in Seq(Seq(Bytes))
           /\ BytesOf(s, k) \in Seq(Bytes)
    <1> DEFINE B == Seq(Bytes)
               t == [i \in 1 .. Len(s) |-> IF s[i].key = k THEN s[i].bytes ELSE <<>>]
    <1>1. Len(s) \in Nat /\ \A i \in 1 .. Len(s) : s[i] \in Part
        BY LenProperties, ElementOfSeq
    <1>2. \A x \in Part : x.bytes \in B
        BY DEF Part, Bytes
    <1>3. <<>> \in B
        BY EmptySeq
    <1> HIDE DEF B
    <1>4. t \in Seq(B)
        BY <1>1, <1>2, <1>3
    <1> HIDE DEF t
    <1>5. FlattenSeq(t) \in Seq(Bytes)
        BY <1>4, FlattenType DEF B
    <1> QED BY <1>4, <1>5 DEF t, B, BytesOf

\* A part is added behind others.
LEMMA PartAppended ==
    ASSUME NEW s \in Seq(Part), NEW x \in Part
    PROVE  LET t == Append(s, x)
           IN  /\ t \in Seq(Part) /\ t # <<>> /\ Last(t) = x
               /\ Pairs(t) = Pairs(s) \cup {<<x.key, x.deleted>>}
               /\ InOrder(s) /\ MayFollow(s, x.key) => InOrder(t)
               /\ \A k \in Nat : BytesOf(t, k) = BytesOf(s, k) \o BytesIf(k = x.key, x.bytes)
    <1> DEFINE t == Append(s, x)
               n == Len(s)
    <1>1. /\ t \in Seq(Part) /\ Len(t) = n + 1 /\ t[n + 1] = x /\ n \in Nat
          /\ \A i \in 1 .. n : t[i] = s[i]
        BY AppendProperties, LenProperties
    <1>2. t # <<>> /\ Last(t) = x
        BY <1>1, EmptySeq DEF Last
    <1>3. ToSet(t) = ToSet(s) \cup {x}
        BY AppendSet
    <1>4. Pairs(t) = Pairs(s) \cup {<<x.key, x.deleted>>}
        <2> HIDE DEF t
        <2> QED BY <1>3 DEF Pairs
    <1>5. ASSUME InOrder(s), MayFollow(s, x.key) PROVE InOrder(t)
        <2> HIDE DEF t
        <2> SUFFICES ASSUME NEW i \in 1 .. n
                     PROVE  IF t[i].eor THEN t[i].key < t[i + 1].key ELSE t[i].key = t[i + 1].key
            BY <1>1 DEF InOrder
        <2>1. CASE i = n
            <3>1. s # <<>> /\ Last(s) = s[n] /\ t[i] = s[n] /\ t[i + 1] = x
                BY <1>1, <2>1, EmptySeq DEF Last
            <3> QED BY <1>5, <3>1 DEF MayFollow
        <2>2. CASE i # n
            <3>1. i \in 1 .. n - 1 /\ i + 1 \in 1 .. n
                BY <1>1, <2>2
            <3>2. t[i] = s[i] /\ t[i + 1] = s[i + 1]
                BY <1>1, <3>1
            <3> QED BY <1>5, <3>1, <3>2 DEF InOrder
        <2> QED BY <2>1, <2>2
    <1>6. ASSUME NEW k \in Nat PROVE BytesOf(t, k) = BytesOf(s, k) \o BytesIf(k = x.key, x.bytes)
        <2> DEFINE a == [i \in 1 .. Len(t) |-> IF t[i].key = k THEN t[i].bytes ELSE <<>>]
                   b == [i \in 1 .. Len(s) |-> IF s[i].key = k THEN s[i].bytes ELSE <<>>]
                   own == BytesIf(k = x.key, x.bytes)
                   B == Seq(Bytes)
                   c == Append(b, own)
        <2> HIDE DEF t
        <2>1. a \in Seq(B) /\ b \in Seq(B)
            BY <1>1, BytesType
        <2>2. own \in B
            BY EmptySeq DEF BytesIf, Part, Bytes
        <2>3. Len(a) = n + 1 /\ Len(b) = n
            BY <1>1
        <2>4. \A i \in 1 .. n : a[i] = b[i]
            <3>1. \A i \in 1 .. n : i \in 1 .. n + 1
                BY <1>1
            <3> QED BY <1>1, <3>1
        <2>5. a[n + 1] = own
            <3>1. n + 1 \in 1 .. n + 1
                BY <1>1
            <3> QED BY <1>1, <3>1 DEF BytesIf
        <2> HIDE DEF a, b, B, own
        <2>6. c \in Seq(B) /\ Len(c) = n + 1 /\ c[n + 1] = own /\ \A i \in 1 .. n : c[i] = b[i]
            BY <2>1, <2>2, <2>3, AppendProperties
        <2>7. ASSUME NEW i \in 1 .. n + 1 PROVE a[i] = c[i]
            <3>1. i = n + 1 \/ i \in 1 .. n
                BY <1>1
            <3> QED BY <2>4, <2>5, <2>6, <3>1
        <2> HIDE DEF c
        <2>8. a = c
            BY <2>1, <2>3, <2>6, <2>7, SeqEqual
        <2>9. FlattenSeq(c) = FlattenSeq(b) \o own
            BY <2>1, <2>2, FlattenAppend DEF B, c
        <2> QED BY <2>8, <2>9 DEF BytesOf, a, b, own
    <1> HIDE DEF t
    <1> QED BY <1>1, <1>2, <1>4, <1>5, <1>6 DEF t

(* Space in a node. *)

LEMMA SpaceIs ==
    /\ \A node \in Seq(Part) : FreeSpace(node) \in Int
    /\ FreeSpace(<<>>) = NodeSpace
    <1>1. ASSUME NEW node \in Seq(Part) PROVE FreeSpace(node) \in Int
        <2> DEFINE B == Seq(Bytes)
                   t == [i \in 1 .. Len(node) |-> node[i].bytes]
        <2>1. Len(node) \in Nat /\ \A i \in 1 .. Len(node) : node[i] \in Part
            BY LenProperties, ElementOfSeq
        <2>2. \A x \in Part : x.bytes \in B
            BY DEF Part, Bytes
        <2> HIDE DEF B
        <2>3. t \in Seq(B)
            BY <2>1, <2>2
        <2> HIDE DEF t
        <2>4. Len(FlattenSeq(t)) \in Nat
            <3>1. FlattenSeq(t) \in Seq(Bytes)
                BY <2>3, FlattenType DEF B
            <3> QED BY <3>1, LenProperties
        <2>5. FreeSpace(node) = NodeSpace - Len(node) * EntrySpace - Len(FlattenSeq(t))
            BY DEF FreeSpace, t
        <2>6. Len(node) * EntrySpace \in Nat
            BY <2>1, SpaceAssumption
        <2> QED BY <2>4, <2>5, <2>6, SpaceAssumption
    <1>2. FreeSpace(<<>>) = NodeSpace
        <2> DEFINE t == [i \in 1 .. Len(<<>>) |-> (<<>>)[i].bytes]
        <2>1. t = <<>>
            OBVIOUS
        <2>2. FreeSpace(<<>>) = NodeSpace - 0 * EntrySpace - Len(FlattenSeq(t))
            BY DEF FreeSpace
        <2> HIDE DEF t
        <2>3. Len(FlattenSeq(t)) = 0
            BY <2>1, FlattenEmpty
        <2> QED BY <2>2, <2>3, SpaceAssumption
    <1> QED BY <1>1, <1>2

LEMMA DivGrows ==
    ASSUME NEW a \in Nat, NEW b \in Nat, a <= b, NEW d \in Nat \ {0}
    PROVE  a \div d <= b \div d /\ a \div d \in Nat /\ b \div d \in Nat
    <1> DEFINE p == a \div d
               q == b \div d
    <1>1. /\ p \in Int /\ q \in Int /\ p >= 0 /\ q >= 0
          /\ d * p <= a /\ b < d * q + d
        OBVIOUS
    <1> HIDE DEF p, q
    <1>2. ASSUME q < p PROVE FALSE
        <2>1. PICK x \in Nat : p = q + 1 + x
            <3>1. p - q - 1 \in Nat /\ p = q + 1 + (p - q - 1)
                BY <1>1, <1>2
            <3> QED BY <3>1
        <2>2. d * p = d * q + d + d * x
            BY <1>1, <2>1
        <2>3. d * x \in Nat /\ d * q \in Int /\ d * p \in Int
            BY <1>1
        <2> QED BY <1>1, <2>2, <2>3
    <1> QED BY <1>1, <1>2 DEF p, q

LEMMA LargerOfTwo ==
    ASSUME NEW a \in Int, NEW b \in Int
    PROVE  /\ Max({a, b}) \in {a, b} /\ Max({a, b}) >= a /\ Max({a, b}) >= b
           /\ Min({a, b}) \in {a, b} /\ Min({a, b}) <= a /\ Min({a, b}) <= b
    <1>1. \E x \in {a, b} : \A y \in {a, b} : x >= y
        OBVIOUS
    <1>2. \E x \in {a, b} : \A y \in {a, b} : x <= y
        OBVIOUS
    <1>3. Max({a, b}) \in {a, b} /\ \A y \in {a, b} : Max({a, b}) >= y
        BY <1>1 DEF Max
    <1>4. Min({a, b}) \in {a, b} /\ \A y \in {a, b} : Min({a, b}) <= y
        BY <1>2 DEF Min
    <1> QED BY <1>3, <1>4

\* A part of a value that fits is the whole of it or has at least a byte.
LEMMA SizeOfPart ==
    ASSUME NEW node \in Seq(Part), NEW value \in Seq(Bytes), has_enough_space(node, value)
    PROVE  /\ CopiedSize(node, value) \in 0 .. Len(value)
           /\ CopiedSize(node, value) # Len(value) => CopiedSize(node, value) >= 1
    <1> DEFINE q == Len(value) \div PartDivisor
               f == FreeSpace(node)
               d == f - EntrySpace
    <1>1. Len(value) \in Nat /\ f \in Int
        BY LenProperties, SpaceIs
    <1>2. q \in Int
        BY <1>1, SpaceAssumption
    <1>3. f >= EntrySpace + Max({MinPart, q})
        BY DEF has_enough_space
    <1> HIDE DEF q, f
    <1>4. Max({MinPart, q}) \in Int /\ Max({MinPart, q}) >= MinPart
        <2>1. MinPart \in Int
            BY SpaceAssumption
        <2>2. Max({MinPart, q}) \in {MinPart, q} /\ Max({MinPart, q}) >= MinPart
            BY <1>2, <2>1, LargerOfTwo, Zenon
        <2> QED BY <1>2, <2>1, <2>2
    <1>5. d \in Int /\ d >= 1
        BY <1>1, <1>3, <1>4, SpaceAssumption
    <1>6. CopiedSize(node, value) = Min({d, Len(value)})
        BY DEF CopiedSize, f
    <1> HIDE DEF d
    <1>7. /\ Min({d, Len(value)}) \in {d, Len(value)} /\ Min({d, Len(value)}) <= Len(value)
        <2> DEFINE l == Len(value)
        <2>1. d \in Int /\ l \in Int
            BY <1>1, <1>5
        <2> HIDE DEF l
        <2>2. Min({d, l}) \in {d, l} /\ Min({d, l}) <= l
            BY <2>1, LargerOfTwo, Zenon
        <2> QED BY <2>2 DEF l
    <1> QED BY <1>1, <1>5, <1>6, <1>7

\* What is left of a value has space in an empty node.
LEMMA EmptyNodeFits ==
    ASSUME NEW size \in Sizes, NEW value \in Seq(Bytes), Len(value) <= size
    PROVE  has_enough_space(<<>>, value)
    <1> DEFINE q == Len(value) \div PartDivisor
    <1>1. Len(value) \in Nat /\ size \in Nat
        BY LenProperties, SizesAssumption
    <1>2. q \in Nat
        BY <1>1, SpaceAssumption
    <1>3. NodeSpace >= EntrySpace + MinPart + q
        <2> DEFINE r == size \div PartDivisor
        <2>1. q <= r /\ r \in Nat
            BY <1>1, DivGrows, SpaceAssumption
        <2>2. NodeSpace >= EntrySpace + MinPart + r
            BY PartsFitAssumption
        <2> HIDE DEF q, r
        <2> QED BY <1>2, <2>1, <2>2, SpaceAssumption
    <1> HIDE DEF q
    <1>4. Max({MinPart, q}) \in {MinPart, q}
        <2>1. MinPart \in Int /\ q \in Int
            BY <1>2, SpaceAssumption
        <2> QED BY <2>1, LargerOfTwo, Zenon
    <1>5. NodeSpace >= EntrySpace + Max({MinPart, q})
        BY <1>2, <1>3, <1>4, SpaceAssumption
    <1> QED BY <1>5, SpaceIs DEF has_enough_space, q

(* slice_writer::add. *)

PartsOf(wr) == LeafParts(wr.file) \o wr.node

\* The writer, and what is left to do for an add().
Passes == [writer : Writers, value : Seq(Bytes), done : BOOLEAN]

\* Of p, which was old, and of the rest of value: nothing is lost, and nothing is twice.
Adding(p, rest, done, old, key, value, eor, deleted) ==
    /\ InOrder(p)
    /\ Pairs(old) \subseteq Pairs(p) /\ Pairs(p) \subseteq Pairs(old) \cup {<<key, deleted>>}
    /\ ~done => MayFollow(p, key)
    /\ done => /\ rest = <<>> /\ <<key, deleted>> \in Pairs(p)
               /\ p # <<>> /\ Last(p).key = key /\ Last(p).eor = eor
    /\ \A k \in Nat : BytesOf(p, k) \o BytesIf(k = key, rest) = BytesOf(old, k) \o BytesIf(k = key, value)

LEMMA SubSeqSplits ==
    ASSUME NEW S, NEW s \in Seq(S), NEW n \in 0 .. Len(s)
    PROVE  SubSeq(s, 1, n) \o SubSeq(s, n + 1, Len(s)) = s
    <1>1. Len(s) \in Nat /\ 1 \in 1 .. Len(s) + 1 /\ n \in (1 - 1) .. Len(s) /\ Len(s) \in n .. Len(s)
        BY LenProperties
    <1>2. SubSeq(s, 1, n) \o SubSeq(s, n + 1, Len(s)) = SubSeq(s, 1, Len(s))
        BY <1>1, ConcatAdjacentSubSeq
    <1> QED BY <1>2, SubSeqFull

LEMMA BytesJoin ==
    ASSUME NEW a \in Seq(Bytes), NEW b \in Seq(Bytes), NEW c \in Seq(Bytes)
    PROVE  (a \o b) \o c = a \o (b \o c)
    BY ConcatAssociative, SMTT(30)

\* The node has got the first size bytes of rest, and r is left.
AddedPart(p, r, rest, size, old, key, value, eor, deleted) ==
    /\ r \in Seq(Bytes) /\ Len(r) = Len(rest) - size
    /\ r = <<>> => Adding(p, r, TRUE, old, key, value, eor, deleted)
    /\ r # <<>> => Adding(p, r, FALSE, old, key, value, eor, deleted)

LEMMA PartIsAdded ==
    ASSUME NEW p \in Seq(Part), NEW rest \in Seq(Bytes), NEW old, NEW key \in Nat, NEW value,
           NEW eor \in BOOLEAN, NEW deleted \in BOOLEAN, NEW size \in 0 .. Len(rest),
           NEW x \in Part, x.key = key, x.deleted = deleted, x.bytes = SubSeq(rest, 1, size),
           size = Len(rest) => x.eor = eor, size # Len(rest) => ~x.eor,
           Adding(p, rest, FALSE, old, key, value, eor, deleted)
    PROVE  AddedPart(Append(p, x), SubSeq(rest, size + 1, Len(rest)), rest, size,
                     old, key, value, eor, deleted)
    <1> DEFINE a == SubSeq(rest, 1, size)
               r == SubSeq(rest, size + 1, Len(rest))
               t == Append(p, x)
    <1>1. a \in Seq(Bytes) /\ r \in Seq(Bytes) /\ Len(r) = Len(rest) - size /\ Len(rest) \in Nat
        BY SubSeqPlaces, LenProperties
    <1>2. a \o r = rest
        BY SubSeqSplits
    <1> HIDE DEF a, r
    <1>3. x.bytes = a
        BY DEF a
    <1>4. r = <<>> <=> size = Len(rest)
        BY <1>1, EmptySeq
    <1>5. /\ InOrder(p) /\ MayFollow(p, key)
          /\ Pairs(old) \subseteq Pairs(p) /\ Pairs(p) \subseteq Pairs(old) \cup {<<key, deleted>>}
          /\ \A k \in Nat : BytesOf(p, k) \o BytesIf(k = key, rest)
                               = BytesOf(old, k) \o BytesIf(k = key, value)
        BY DEF Adding
    <1>6. /\ t # <<>> /\ Last(t) = x
          /\ Pairs(t) = Pairs(p) \cup {<<x.key, x.deleted>>}
          /\ InOrder(p) /\ MayFollow(p, x.key) => InOrder(t)
          /\ \A k \in Nat : BytesOf(t, k) = BytesOf(p, k) \o BytesIf(k = x.key, x.bytes)
        BY PartAppended
    <1> HIDE DEF t
    <1>7. ASSUME NEW k \in Nat
          PROVE  BytesOf(t, k) \o BytesIf(k = key, r) = BytesOf(old, k) \o BytesIf(k = key, value)
        <2> DEFINE b == BytesOf(p, k)
        <2>1. b \in Seq(Bytes)
            BY BytesType
        <2>2. BytesOf(t, k) = b \o BytesIf(k = key, a)
            BY <1>3, <1>6
        <2>3. b \o BytesIf(k = key, rest) = BytesOf(old, k) \o BytesIf(k = key, value)
            BY <1>5
        <2> HIDE DEF b
        <2>4. CASE k = key
            <3>1. (b \o a) \o r = b \o (a \o r)
                BY <1>1, <2>1, BytesJoin
            <3> QED BY <1>2, <2>2, <2>3, <2>4, <3>1 DEF BytesIf
        <2>5. CASE k # key
            <3>1. b \o <<>> = b
                BY <2>1, ConcatEmptySeq
            <3> QED BY <2>2, <2>3, <2>5, <3>1 DEF BytesIf
        <2> QED BY <2>4, <2>5
    <1>8. r # <<>> => MayFollow(t, key)
        BY <1>3, <1>4, <1>6 DEF MayFollow
    <1>9. r = <<>> => Last(t).key = key /\ Last(t).eor = eor
        BY <1>3, <1>4, <1>6
    <1>10. CASE r = <<>>
        <2>1. Adding(t, r, TRUE, old, key, value, eor, deleted)
            BY <1>5, <1>6, <1>7, <1>9, <1>10 DEF Adding
        <2> QED BY <1>1, <1>10, <2>1 DEF r, t, AddedPart
    <1>11. CASE r # <<>>
        <2>1. Adding(t, r, FALSE, old, key, value, eor, deleted)
            BY <1>5, <1>6, <1>7, <1>8, <1>11 DEF Adding
        <2> QED BY <1>1, <1>11, <2>1 DEF r, t, AddedPart
    <1> QED BY <1>10, <1>11

\* Parts move from the node to the file.
LEMMA StoredParts ==
    ASSUME NEW wr \in Writers, Len(wr.index) > 0, Linked(wr.file), NEW key \in Nat
    PROVE  LET x == [StoreLeaf(wr) EXCEPT !.first_key = key]
           IN  /\ x \in Writers /\ x.node = <<>> /\ Len(x.index) > 0 /\ Linked(x.file)
               /\ PartsOf(x) = PartsOf(wr)
    <1> DEFINE y == StoreLeaf(wr)
               x == [y EXCEPT !.first_key = key]
    <1>1. /\ y \in Writers /\ y.node = <<>> /\ Len(y.index) > 0 /\ Linked(y.file)
          /\ LeafParts(y.file) = PartsOf(wr)
        BY StoreLeafIs DEF PartsOf
    <1> HIDE DEF y
    <1>2. x \in Writers /\ x.node = y.node /\ x.index = y.index /\ x.file = y.file
        BY <1>1 DEF Writers
    <1>3. LeafParts(y.file) \in Seq(Part)
        BY <1>1, WriterIs
    <1>4. LeafParts(y.file) \o <<>> = LeafParts(y.file)
        BY <1>3, ConcatEmptySeq
    <1> HIDE DEF x
    <1>5. PartsOf(x) = PartsOf(wr)
        BY <1>1, <1>2, <1>4 DEF PartsOf
    <1> QED BY <1>1, <1>2, <1>5 DEF x, y

\* A writer and what it still has to add.
Intact(c, old, key, value, eor, deleted) ==
    /\ c \in Passes /\ Len(c.writer.index) > 0 /\ Linked(c.writer.file)
    /\ Adding(PartsOf(c.writer), c.value, c.done, old, key, value, eor, deleted)

\* The same after a pass of the loop, which stores a node or is the last one.
PassIs(c, d, old, key, value, eor, deleted) ==
    /\ Intact(d, old, key, value, eor, deleted)
    /\ c.done => d = c
    /\ Len(d.value) <= Len(c.value)
    /\ ~d.done => d.writer.node = <<>>
    /\ ~d.done /\ has_enough_space(c.writer.node, c.value) => Len(d.value) < Len(c.value)

LEMMA PassKeeps ==
    ASSUME NEW c, NEW old, NEW key \in Nat, NEW value, NEW eor \in BOOLEAN, NEW deleted \in BOOLEAN,
           NEW new_key \in BOOLEAN, Intact(c, old, key, value, eor, deleted)
    PROVE  PassIs(c, AddPart(c, key, eor, deleted, new_key), old, key, value, eor, deleted)
    <1> DEFINE wr == c.writer
               rest == c.value
               fits == has_enough_space(wr.node, rest)
               size == CopiedSize(wr.node, rest)
               r == SubSeq(rest, size + 1, Len(rest))
               filled == [wr EXCEPT !.node = NodeAdd(@, key, rest, eor, deleted)]
               x == [key |-> key, bytes |-> SubSeq(rest, 1, size), eor |-> eor /\ size = Len(rest),
                     deleted |-> deleted]
               d == AddPart(c, key, eor, deleted, new_key)
    <1>1. /\ c \in Passes /\ Len(wr.index) > 0 /\ Linked(wr.file)
          /\ wr \in Writers /\ rest \in Seq(Bytes) /\ c.done \in BOOLEAN /\ Len(rest) \in Nat
          /\ Adding(PartsOf(wr), rest, c.done, old, key, value, eor, deleted)
        <2>1. /\ c \in Passes /\ Len(wr.index) > 0 /\ Linked(wr.file)
              /\ Adding(PartsOf(wr), rest, c.done, old, key, value, eor, deleted)
            BY DEF Intact
        <2>2. wr \in Writers /\ rest \in Seq(Bytes) /\ c.done \in BOOLEAN
            BY <2>1 DEF Passes
        <2> QED BY <2>1, <2>2, LenProperties
    <1>2. wr.node \in Seq(Part) /\ LeafParts(wr.file) \in Seq(Part) /\ wr.first_key \in Nat
        BY <1>1, WriterIs
    <1>3. PartsOf(wr) \in Seq(Part)
        BY <1>2, ConcatProperties DEF PartsOf
    <1>4. CASE c.done
        <2>1. d = c
            BY <1>4 DEF AddPart
        <2> QED BY <1>1, <1>4, <2>1 DEF PassIs
    <1>5. CASE ~c.done /\ ~fits
        <2> DEFINE first == FirstKeyAfterStore(wr, key, new_key)
                   y == [StoreLeaf(wr) EXCEPT !.first_key = first]
        <2>1. d = [writer |-> y, value |-> rest, done |-> FALSE]
            BY <1>5 DEF AddPart
        <2>2. first \in Nat
            BY DEF FirstKeyAfterStore, NoKey
        <2> HIDE DEF first
        <2>3. /\ y \in Writers /\ y.node = <<>> /\ Len(y.index) > 0 /\ Linked(y.file)
              /\ PartsOf(y) = PartsOf(wr)
            BY <1>1, <2>2, StoredParts
        <2> HIDE DEF y, d
        <2>4. d \in Passes /\ d.writer = y /\ d.value = rest /\ d.done = FALSE
            BY <1>1, <2>1, <2>3 DEF Passes
        <2>5. Adding(PartsOf(y), rest, FALSE, old, key, value, eor, deleted)
            BY <1>1, <1>5, <2>3
        <2>6. Intact(d, old, key, value, eor, deleted)
            BY <2>3, <2>4, <2>5 DEF Intact
        <2> QED BY <1>1, <1>5, <2>3, <2>4, <2>6 DEF d, PassIs
    <1>6. CASE ~c.done /\ fits
        <2>1. size \in 0 .. Len(rest) /\ (size # Len(rest) => size >= 1)
            BY <1>1, <1>2, <1>6, SizeOfPart
        <2>2. NodeAdd(wr.node, key, rest, eor, deleted) = Append(wr.node, x)
            BY DEF NodeAdd
        <2>3. Adding(PartsOf(wr), rest, FALSE, old, key, value, eor, deleted)
            BY <1>1, <1>6
        <2> HIDE DEF size
        <2>4. /\ x \in Part /\ r \in Seq(Bytes) /\ Len(r) = Len(rest) - size
              /\ r = <<>> => Adding(Append(PartsOf(wr), x), r, TRUE, old, key, value, eor, deleted)
              /\ r # <<>> => Adding(Append(PartsOf(wr), x), r, FALSE, old, key, value, eor, deleted)
            <3> DEFINE p == PartsOf(wr)
                       a == SubSeq(rest, 1, size)
            <3>1. p \in Seq(Part) /\ rest \in Seq(Bytes) /\ size \in 0 .. Len(rest)
                BY <1>1, <1>3, <2>1
            <3>2. Adding(p, rest, FALSE, old, key, value, eor, deleted)
                BY <2>3
            <3> HIDE DEF wr, rest, p, fits, filled, d
            <3>3. a \in Seq(Bytes)
                BY <3>1, SubSeqPlaces
            <3>4. /\ x \in Part /\ x.key = key /\ x.deleted = deleted /\ x.bytes = a
                  /\ size = Len(rest) => x.eor = eor
                  /\ size # Len(rest) => ~x.eor
                <4> HIDE DEF a
                <4>1. x = [key |-> key, bytes |-> a, eor |-> eor /\ size = Len(rest), deleted |-> deleted]
                    BY DEF a
                <4> QED BY <3>3, <4>1 DEF Part
            <3> HIDE DEF x
            <3>5. /\ r \in Seq(Bytes) /\ Len(r) = Len(rest) - size
                  /\ r = <<>> => Adding(Append(p, x), r, TRUE, old, key, value, eor, deleted)
                  /\ r # <<>> => Adding(Append(p, x), r, FALSE, old, key, value, eor, deleted)
                <4>1. AddedPart(Append(p, x), r, rest, size, old, key, value, eor, deleted)
                    BY <3>1, <3>2, <3>4, PartIsAdded
                <4> HIDE DEF r
                <4> QED BY <4>1 DEF AddedPart
            <3> QED BY <3>4, <3>5 DEF p
        <2>5. filled = [wr EXCEPT !.node = Append(wr.node, x)]
            BY <2>2
        <2>6. d = IF r = <<>> THEN [writer |-> filled, value |-> r, done |-> TRUE]
                  ELSE [writer |-> [StoreLeaf(filled) EXCEPT
                                      !.first_key = FirstKeyAfterStore(filled, key, new_key)],
                        value |-> r, done |-> FALSE]
            BY <1>6 DEF AddPart, size
        <2> HIDE DEF x, r, filled, d
        <2>7. Append(wr.node, x) \in Seq(Part)
            BY <1>2, <2>4, AppendProperties
        <2>8. /\ filled \in Writers /\ filled.index = wr.index /\ filled.file = wr.file
              /\ filled.node = Append(wr.node, x) /\ filled.first_key = wr.first_key
            BY <1>1, <2>5, <2>7 DEF Writers
        <2>9. PartsOf(filled) = Append(PartsOf(wr), x)
            <3>1. Append(wr.node, x) = wr.node \o <<x>> /\ <<x>> \in Seq(Part)
                <4>1. <<x>> \in Seq(Part)
                    BY <2>4
                <4>2. wr.node \in Seq(Part) /\ x \in Part
                    BY <1>2, <2>4
                <4> HIDE DEF wr
                <4> QED BY <4>1, <4>2, AppendIsConcat
            <3>2. Append(PartsOf(wr), x) = PartsOf(wr) \o <<x>>
                BY <1>3, <2>4, AppendIsConcat
            <3>3. LeafParts(wr.file) \o (wr.node \o <<x>>) = (LeafParts(wr.file) \o wr.node) \o <<x>>
                <4> DEFINE l == LeafParts(wr.file)
                           o == wr.node
                           t == <<x>>
                <4>1. l \in Seq(Part) /\ o \in Seq(Part) /\ t \in Seq(Part)
                    BY <1>2, <3>1
                <4> HIDE DEF l, o, t
                <4>2. l \o (o \o t) = (l \o o) \o t
                    BY <4>1, ConcatAssociative, SMTT(30)
                <4> QED BY <4>2 DEF l, o, t
            <3> QED BY <2>8, <3>1, <3>2, <3>3 DEF PartsOf
        <2>10. /\ r = <<>> => Adding(PartsOf(filled), r, TRUE, old, key, value, eor, deleted)
               /\ r # <<>> => Adding(PartsOf(filled), r, FALSE, old, key, value, eor, deleted)
            BY <2>4, <2>9
        <2>11. Len(r) \in Nat /\ Len(r) <= Len(rest) /\ (r # <<>> => Len(r) < Len(rest))
            <3>1. r # <<>> => Len(r) # 0
                BY <2>4, EmptySeq
            <3> QED BY <1>1, <2>1, <2>4, <3>1
        <2>12. CASE r = <<>>
            <3>1. d \in Passes /\ d.writer = filled /\ d.value = r /\ d.done = TRUE
                BY <2>4, <2>6, <2>8, <2>12 DEF Passes
            <3>2. Adding(PartsOf(filled), r, TRUE, old, key, value, eor, deleted)
                BY <2>10, <2>12
            <3>3. Intact(d, old, key, value, eor, deleted)
                BY <1>1, <2>8, <3>1, <3>2 DEF Intact
            <3> QED BY <1>6, <2>11, <3>1, <3>3 DEF d, PassIs
        <2>13. CASE r # <<>>
            <3> DEFINE first == FirstKeyAfterStore(filled, key, new_key)
                       y == [StoreLeaf(filled) EXCEPT !.first_key = first]
            <3>1. first \in Nat
                BY DEF FirstKeyAfterStore, NoKey
            <3>2. d = [writer |-> y, value |-> r, done |-> FALSE]
                BY <2>6, <2>13
            <3> HIDE DEF first
            <3>3. Len(filled.index) > 0 /\ Linked(filled.file)
                BY <1>1, <2>8
            <3>4. /\ y \in Writers /\ y.node = <<>> /\ Len(y.index) > 0 /\ Linked(y.file)
                  /\ PartsOf(y) = PartsOf(filled)
                BY <2>8, <3>1, <3>3, StoredParts
            <3> HIDE DEF y
            <3>5. d \in Passes /\ d.writer = y /\ d.value = r /\ d.done = FALSE
                BY <2>4, <3>2, <3>4 DEF Passes
            <3>6. Adding(PartsOf(y), r, FALSE, old, key, value, eor, deleted)
                BY <2>10, <2>13, <3>4
            <3>7. Intact(d, old, key, value, eor, deleted)
                BY <3>4, <3>5, <3>6 DEF Intact
            <3> QED BY <1>6, <2>11, <2>13, <3>4, <3>5, <3>7 DEF d, PassIs
        <2> QED BY <2>12, <2>13
    <1> HIDE DEF d
    <1> QED BY <1>1, <1>4, <1>5, <1>6 DEF d

\* The loop ends within its bound, and all of the value is in the slice.
LEMMA AddPartsIs ==
    ASSUME NEW wr \in Writers, Len(wr.index) > 0, Linked(wr.file), InOrder(PartsOf(wr)),
           NEW key \in Nat, NEW size \in Sizes, NEW value \in Seq(Bytes), Len(value) = size,
           NEW eor \in BOOLEAN, NEW deleted \in BOOLEAN, NEW new_key \in BOOLEAN,
           MayFollow(PartsOf(wr), key)
    PROVE  LET x == AddParts(wr, key, value, eor, deleted, new_key)
           IN  /\ x \in Writers /\ Len(x.index) > 0 /\ Linked(x.file)
               /\ Adding(PartsOf(x), <<>>, TRUE, PartsOf(wr), key, value, eor, deleted)
    <1> DEFINE old == PartsOf(wr)
               n == Len(value) + 2
               base == [writer |-> wr, value |-> value, done |-> FALSE]
               OnePass(c) == AddPart(c, key, eor, deleted, new_key)
               Ok(c) == Intact(c, old, key, value, eor, deleted) /\ Len(c.value) <= Len(value)
               S == {c \in Passes : Ok(c)}
               F == [c \in S |-> OnePass(c)]
               Is(f) == f = [i \in 0 .. n |-> IF i = 0 THEN base ELSE OnePass(f[i - 1])]
               pass == CHOOSE f : Is(f)
    <1>1. n \in Nat /\ Len(value) \in Nat
        BY LenProperties
    <1>2. AddParts(wr, key, value, eor, deleted, new_key) = pass[n].writer
        BY DEF AddParts
    <1>3. base \in S
        <2>1. base \in Passes /\ base.writer = wr /\ base.value = value /\ base.done = FALSE
            BY DEF Passes
        <2>2. Adding(old, value, FALSE, old, key, value, eor, deleted)
            BY DEF Adding
        <2> HIDE DEF base
        <2>3. Intact(base, old, key, value, eor, deleted)
            BY <2>1, <2>2 DEF Intact
        <2> QED BY <1>1, <2>1, <2>3
    <1>4. ASSUME NEW c \in S
          PROVE  /\ OnePass(c) \in S /\ (c.done => OnePass(c) = c)
                 /\ ~OnePass(c).done => OnePass(c).writer.node = <<>>
                 /\ ~OnePass(c).done /\ has_enough_space(c.writer.node, c.value) => Len(OnePass(c).value) < Len(c.value)
                 /\ Len(c.value) \in Nat /\ Len(OnePass(c).value) \in Nat
        <2>1. Intact(c, old, key, value, eor, deleted) /\ c \in Passes
            OBVIOUS
        <2> HIDE DEF old, S, F, base, pass
        <2>2. /\ Intact(OnePass(c), old, key, value, eor, deleted)
              /\ c.done => OnePass(c) = c
              /\ Len(OnePass(c).value) <= Len(c.value)
              /\ ~OnePass(c).done => OnePass(c).writer.node = <<>>
              /\ ~OnePass(c).done /\ has_enough_space(c.writer.node, c.value) => Len(OnePass(c).value) < Len(c.value)
            <3> HIDE DEF Ok, Is, n
            <3>1. PassIs(c, OnePass(c), old, key, value, eor, deleted)
                BY <2>1, PassKeeps
            <3> HIDE DEF OnePass
            <3> QED BY <3>1 DEF PassIs
        <2> HIDE DEF OnePass
        <2> USE DEF S
        <2>3. OnePass(c) \in Passes
            BY <2>2 DEF Intact
        <2>4. Len(c.value) \in Nat /\ Len(OnePass(c).value) \in Nat
            BY <2>1, <2>3, LenProperties DEF Passes
        <2> QED BY <1>1, <2>2, <2>3, <2>4
    <1> HIDE DEF OnePass
    <1>5. F \in [S -> S] /\ \A c \in S : F[c] = OnePass(c)
        BY <1>4
    <1>s. \A c \in S : /\ Intact(c, old, key, value, eor, deleted) /\ Len(c.value) <= Len(value)
                       /\ c.value \in Seq(Bytes)
        BY DEF Passes
    <1> HIDE DEF S, F, base, n
    <1>6. PICK g : Repeats(g, n, S, base, F)
        BY <1>1, <1>3, <1>5, RepeatedSteps
    <1>7. g \in [0 .. n -> S] /\ g[0] = base /\ \A i \in 1 .. n : g[i] = F[g[i - 1]]
        BY <1>6 DEF Repeats
    <1>8. Is(g)
        <2>1. \A i \in 0 .. n : i # 0 => i \in 1 .. n /\ i - 1 \in 0 .. n
            BY <1>1
        <2>2. \A i \in 0 .. n : g[i] = IF i = 0 THEN base ELSE OnePass(g[i - 1])
            BY <1>5, <1>7, <2>1
        <2>3. g = [i \in 0 .. n |-> g[i]]
            BY <1>7
        <2> QED BY <2>2, <2>3
    <1>9. Is(pass)
        BY <1>8
    <1> HIDE DEF pass
    <1>10. pass[0] = base /\ \A i \in 1 .. n : pass[i] = OnePass(pass[i - 1])
        <2>1. 0 \in 0 .. n /\ \A i \in 1 .. n : i \in 0 .. n /\ i # 0
            BY <1>1
        <2> QED BY <1>9, <2>1
    <1> DEFINE Short(c, i) == ~c.done /\ i > 0 => c.writer.node = <<>> /\ Len(c.value) + i <= Len(value) + 1
               Ss == [i \in 0 .. n |-> {c \in S : Short(c, i)}]
    <1>11. pass[0] \in Ss[0]
        BY <1>1, <1>3, <1>10
    <1>12. ASSUME NEW i \in 1 .. n, pass[i - 1] \in Ss[i - 1] PROVE pass[i] \in Ss[i]
        <2> DEFINE c == pass[i - 1]
                   d == pass[i]
        <2>1. i - 1 \in 0 .. n /\ i \in 0 .. n /\ i \in Nat
            BY <1>1
        <2>2. c \in S /\ Short(c, i - 1) /\ d = OnePass(c)
            BY <1>10, <1>12, <2>1
        <2> HIDE DEF c, d
        <2>3. /\ d \in S /\ (c.done => d = c) /\ (~d.done => d.writer.node = <<>>)
              /\ ~d.done /\ has_enough_space(c.writer.node, c.value) => Len(d.value) < Len(c.value)
              /\ Len(c.value) \in Nat /\ Len(d.value) \in Nat
            BY <1>4, <2>2
        <2>4. ASSUME ~d.done PROVE Len(d.value) + i <= Len(value) + 1
            <3>1. CASE i = 1
                BY <1>1, <1>s, <2>3, <3>1
            <3>2. CASE i # 1
                <4>1. ~c.done /\ i - 1 > 0
                    BY <2>1, <2>3, <2>4, <3>2
                <4>2. c.writer.node = <<>> /\ Len(c.value) + (i - 1) <= Len(value) + 1
                    BY <2>2, <4>1
                <4>3. has_enough_space(c.writer.node, c.value)
                    BY <1>s, <2>2, <4>2, EmptyNodeFits
                <4>4. Len(d.value) < Len(c.value)
                    BY <2>3, <2>4, <4>3
                <4> DEFINE a == Len(c.value)
                           b == Len(d.value)
                           m == Len(value)
                <4>5. a \in Nat /\ b \in Nat /\ m \in Nat /\ i \in Nat /\ a + (i - 1) <= m + 1 /\ b < a
                    BY <1>1, <2>1, <2>3, <4>2, <4>4
                <4> HIDE DEF a, b, m, n, Ss
                <4>6. b + i <= m + 1
                    BY <4>5
                <4> QED BY <4>6 DEF b, m
            <3> QED BY <3>1, <3>2
        <2>5. Short(d, i)
            BY <2>3, <2>4
        <2> QED BY <2>1, <2>3, <2>5 DEF d
    <1> HIDE DEF Ss
    <1>13. \A i \in 0 .. n : pass[i] \in Ss[i]
        BY <1>1, <1>11, <1>12, StaysIn
    <1>14. pass[n] \in S /\ Short(pass[n], n)
        BY <1>1, <1>13 DEF Ss
    <1>15. pass[n].done
        <2>1. Len(pass[n].value) \in Nat
            BY <1>s, <1>14, LenProperties
        <2>2. n > 0 /\ ~(Len(pass[n].value) + n <= Len(value) + 1)
            BY <1>1, <2>1 DEF n
        <2> QED BY <1>14, <2>2
    <1>16. Intact(pass[n], old, key, value, eor, deleted)
        BY <1>s, <1>14
    <1> HIDE DEF old
    <1>17. /\ pass[n].writer \in Writers /\ Len(pass[n].writer.index) > 0 /\ Linked(pass[n].writer.file)
           /\ Adding(PartsOf(pass[n].writer), pass[n].value, pass[n].done, old, key, value, eor, deleted)
        BY <1>16 DEF Intact, Passes
    <1>18. pass[n].done = TRUE
        BY <1>15, <1>16 DEF Intact, Passes
    <1>19. pass[n].value = <<>>
        BY <1>17, <1>18 DEF Adding
    <1> QED BY <1>2, <1>17, <1>18, <1>19 DEF old

(* The slice from add() to flush(), and reading it. *)

\* The parts of a slice that is being written are what was added; last_key and
\* last_eor are of the last one.
Holds(wr, given) ==
    /\ wr \in Writers /\ Len(wr.index) > 0 /\ Linked(wr.file) /\ given \in Seq(Part)
    /\ Pairs(PartsOf(wr)) = Pairs(given) /\ InOrder(PartsOf(wr))
    /\ \A k \in Nat : BytesOf(PartsOf(wr), k) = BytesOf(given, k)
    /\ PartsOf(wr) # <<>> => /\ wr.last_key = Last(PartsOf(wr)).key /\ wr.last_key # NoKey
                             /\ wr.last_eor = Last(PartsOf(wr)).eor
    /\ PartsOf(wr) = <<>> <=> given = <<>>

PartsInv ==
    /\ flushed \in BOOLEAN
    /\ ~flushed => Holds(w, added)
    /\ BeginReadsAll

LEMMA SliceStarts == SliceInit => PartsInv
    <1> SUFFICES ASSUME SliceInit PROVE PartsInv
        OBVIOUS
    <1>1. /\ w \in Writers /\ Len(w.index) > 0 /\ Linked(w.file)
          /\ w.file = <<>> /\ w.node = <<>>
        <2>1. NewIndexWriter \in IndexWriter
            BY DEF NewIndexWriter, IndexWriter, NoKey
        <2>2. <<NewIndexWriter>> \in Seq(IndexWriter) /\ Len(<<NewIndexWriter>>) = 1
            BY <2>1
        <2>3. <<>> \in Files /\ <<>> \in Seq(Part) /\ Linked(<<>>)
            BY DEF Files, Linked
        <2> HIDE DEF NewIndexWriter
        <2> QED BY <2>2, <2>3 DEF SliceInit, Writers, NoKey, Invalid
    <1>2. PartsOf(w) = <<>>
        <2>1. LeafParts(<<>>) = <<>>
            <3>1. [i \in 1 .. Len(<<>>) |-> PartsIn((<<>>)[i])] = <<>>
                OBVIOUS
            <3> QED BY <3>1, FlattenEmpty DEF LeafParts
        <2>2. <<>> \in Seq(Part)
            OBVIOUS
        <2>3. <<>> \o <<>> = <<>>
            BY <2>2, ConcatEmptySeq
        <2> QED BY <1>1, <2>1, <2>3 DEF PartsOf
    <1>3. added = <<>> /\ flushed = FALSE
        BY DEF SliceInit
    <1>4. InOrder(<<>>) /\ <<>> \in Seq(Part)
        BY DEF InOrder
    <1>5. Holds(w, added)
        BY <1>1, <1>2, <1>3, <1>4 DEF Holds
    <1> QED BY <1>3, <1>5 DEF PartsInv, BeginReadsAll

LEMMA AddKeeps ==
    ASSUME PartsInv, NEW key \in SliceKeys, NEW size \in Sizes, NEW eor \in BOOLEAN,
           NEW deleted \in BOOLEAN, Add(key, size, eor, deleted)
    PROVE  PartsInv'
    <1> DEFINE new_key == key # w.last_key
               m == Len(added) + 1
               value == [i \in 1 .. size |-> <<m, i>>]
               first == IF new_key /\ w.first_key = NoKey THEN key ELSE w.first_key
               v == [w EXCEPT !.first_key = first]
               x == AddParts(v, key, value, eor, deleted, new_key)
               e == [key |-> key, bytes |-> value, eor |-> eor, deleted |-> deleted]
    <1>1. /\ ~flushed /\ check(key, size, eor, deleted) /\ flushed' = flushed
          /\ w' = [x EXCEPT !.last_key = key, !.last_eor = eor]
          /\ added' = Append(added, e)
        BY DEF Add
    <1>2. Holds(w, added)
        BY <1>1 DEF PartsInv
    <1>3. w \in Writers /\ Len(w.index) > 0 /\ Linked(w.file) /\ added \in Seq(Part)
        BY <1>2 DEF Holds
    <1>4. key \in Nat /\ key # NoKey /\ size \in Nat /\ m \in Nat
        BY <1>3, SliceKeysAssumption, SizesAssumption, LenProperties DEF NoKey
    <1>5. w.last_key \in Nat /\ w.first_key \in Nat /\ w.last_eor \in BOOLEAN
        BY <1>3, WriterIs
    <1>6. new_key \in BOOLEAN /\ first \in Nat
        BY <1>4, <1>5
    <1> HIDE DEF m
    <1>7. value \in Seq(Bytes) /\ Len(value) = size
        <2>1. \A i \in 1 .. size : <<m, i>> \in Bytes
            BY <1>4 DEF Bytes
        <2> HIDE DEF m
        <2> QED BY <1>4, <2>1
    <1> HIDE DEF first, value, new_key
    <1>8. v \in Writers /\ v.index = w.index /\ v.file = w.file /\ v.node = w.node
        BY <1>3, <1>6 DEF Writers
    <1>9. e \in Part /\ e.key = key /\ e.bytes = value /\ e.deleted = deleted
        BY <1>4, <1>7 DEF Part
    <1> HIDE DEF v, e
    <1>10. PartsOf(v) = PartsOf(w)
        BY <1>8 DEF PartsOf
    <1> DEFINE p == PartsOf(w)
               q == PartsOf(x)
    <1>11. /\ Pairs(p) = Pairs(added) /\ InOrder(p)
           /\ \A k \in Nat : BytesOf(p, k) = BytesOf(added, k)
           /\ p # <<>> => w.last_key = Last(p).key /\ w.last_key # NoKey /\ w.last_eor = Last(p).eor
        BY <1>2 DEF Holds
    <1> HIDE DEF p
    <1>12. MayFollow(p, key)
        <2> SUFFICES ASSUME p # <<>>
                     PROVE  IF Last(p).eor THEN Last(p).key < key ELSE Last(p).key = key
            BY DEF MayFollow
        <2>1. /\ key >= w.last_key /\ (key = w.last_key => ~w.last_eor)
              /\ key > w.last_key => w.last_eor
            BY <1>1, <1>11 DEF check
        <2> QED BY <1>4, <1>5, <1>11, <2>1
    <1>13. /\ x \in Writers /\ Len(x.index) > 0 /\ Linked(x.file)
           /\ Adding(q, <<>>, TRUE, p, key, value, eor, deleted)
        <2>1. PartsOf(v) = p /\ Len(v.index) > 0 /\ Linked(v.file)
            BY <1>3, <1>8, <1>10 DEF p
        <2>2. v \in Writers /\ key \in Nat /\ new_key \in BOOLEAN /\ value \in Seq(Bytes) /\ Len(value) = size
            BY <1>4, <1>6, <1>7, <1>8
        <2>3. InOrder(PartsOf(v)) /\ MayFollow(PartsOf(v), key)
            BY <1>11, <1>12, <2>1
        <2>4. /\ x \in Writers /\ Len(x.index) > 0 /\ Linked(x.file)
              /\ Adding(PartsOf(x), <<>>, TRUE, PartsOf(v), key, value, eor, deleted)
            BY <2>1, <2>2, <2>3, AddPartsIs, ZenonT(30)
        <2> QED BY <2>1, <2>4
    <1> HIDE DEF x
    <1>14. /\ w' \in Writers /\ w'.index = x.index /\ w'.file = x.file /\ w'.node = x.node
           /\ w'.last_key = key /\ w'.last_eor = eor
        BY <1>1, <1>4, <1>13 DEF Writers
    <1>15. PartsOf(w') = q
        BY <1>14 DEF PartsOf
    <1>16. /\ added' \in Seq(Part) /\ added' # <<>>
           /\ Pairs(added') = Pairs(added) \cup {<<key, deleted>>}
           /\ \A k \in Nat : BytesOf(added', k) = BytesOf(added, k) \o BytesIf(k = key, value)
        BY <1>1, <1>3, <1>9, PartAppended
    <1> HIDE DEF q
    <1>17. /\ Pairs(p) \subseteq Pairs(q) /\ Pairs(q) \subseteq Pairs(p) \cup {<<key, deleted>>}
           /\ <<key, deleted>> \in Pairs(q) /\ InOrder(q)
           /\ q # <<>> /\ Last(q).key = key /\ Last(q).eor = eor
           /\ \A k \in Nat : BytesOf(q, k) \o BytesIf(k = key, <<>>) = BytesOf(p, k) \o BytesIf(k = key, value)
        BY <1>13 DEF Adding
    <1>18. q \in Seq(Part)
        BY <1>13, WriterIs, ConcatProperties DEF q, PartsOf
    <1>19. ASSUME NEW k \in Nat PROVE BytesOf(q, k) = BytesOf(added', k)
        <2>1. BytesOf(q, k) \o <<>> = BytesOf(q, k)
            BY <1>18, BytesType, ConcatEmptySeq
        <2>2. BytesIf(k = key, <<>>) = <<>>
            BY DEF BytesIf
        <2>3. BytesOf(q, k) = BytesOf(p, k) \o BytesIf(k = key, value)
            BY <1>17, <2>1, <2>2
        <2>4. BytesOf(p, k) = BytesOf(added, k)
            BY <1>11
        <2>5. BytesOf(added', k) = BytesOf(added, k) \o BytesIf(k = key, value)
            BY <1>16
        <2> QED BY <2>3, <2>4, <2>5
    <1>20. Holds(w', added')
        <2>1. Pairs(q) = Pairs(added')
            BY <1>11, <1>16, <1>17
        <2> QED BY <1>4, <1>13, <1>14, <1>15, <1>16, <1>17, <1>19, <2>1 DEF Holds
    <1>21. flushed' = FALSE
        BY <1>1 DEF PartsInv
    <1> QED BY <1>20, <1>21 DEF PartsInv, BeginReadsAll

\* What Chain(1) has read from f, of n nodes, after some steps.
ReadFrom(f, n) ==
    CHOOSE r : r = [i \in 0 .. n |->
        IF i = 0 THEN [at |-> 1, parts |-> <<>>]
        ELSE IF r[i - 1].at = Invalid THEN r[i - 1]
        ELSE [at |-> f[r[i - 1].at].next, parts |-> r[i - 1].parts \o PartsIn(f[r[i - 1].at])]]

\* Following next from the first node gives the data nodes of g, the first of f.
LEMMA ChainIs ==
    ASSUME NEW f, NEW n \in Nat, NEW g \in Files,
           Len(g) \in 1 .. n,
           \A i \in 1 .. Len(g) : /\ PartsIn(f[i]) = PartsIn(g[i])
                                  /\ f[i].next = IF i < Len(g) THEN i + 1 ELSE Invalid
    PROVE  ReadFrom(f, n)[n].parts = LeafParts(g)
    <1> DEFINE leaf == Len(g)
               read == ReadFrom(f, n)
               s == [i \in 1 .. leaf |-> PartsIn(g[i])]
               base == [at |-> 1, parts |-> <<>>]
               OnePass(c) == IF c.at = Invalid THEN c
                          ELSE [at |-> f[c.at].next, parts |-> c.parts \o PartsIn(f[c.at])]
               Is(r) == r = [i \in 0 .. n |-> IF i = 0 THEN base ELSE OnePass(r[i - 1])]
    <1>1. leaf \in Nat /\ leaf >= 1 /\ leaf <= n
        OBVIOUS
    <1>2. s \in Seq(Seq(Part)) /\ Len(s) = leaf
        BY <1>1, LeavesType
    <1>3. \A i \in 1 .. leaf : s[i] = PartsIn(g[i])
        OBVIOUS
    <1>4. LeafParts(g) = FlattenSeq(s)
        BY DEF LeafParts
    <1>5. read = CHOOSE r : Is(r)
        BY DEF ReadFrom
    <1> HIDE DEF s, read
    <1>6. PICK h : IsFlat(h, s, Part)
        BY <1>2, FlatExists
    <1>7. /\ h[0] = <<>> /\ (\A i \in 1 .. leaf : h[i] = h[i - 1] \o s[i])
          /\ FlattenSeq(s) = h[leaf]
        BY <1>2, <1>6, FlattenIs DEF IsFlat
    <1> DEFINE At(i) == [at |-> IF i < leaf THEN i + 1 ELSE Invalid,
                         parts |-> IF i < leaf THEN h[i] ELSE h[leaf]]
               rr == [i \in 0 .. n |-> At(i)]
    <1>8. At(0) = base
        BY <1>1, <1>7
    <1>9. ASSUME NEW i \in 1 .. n PROVE OnePass(At(i - 1)) = At(i)
        <2> DEFINE c == At(i - 1)
        <2>1. CASE i <= leaf
            <3>1. i \in 1 .. leaf /\ i - 1 < leaf /\ i - 1 + 1 = i
                BY <1>1, <2>1
            <3>2. c.at = i /\ c.parts = h[i - 1]
                BY <3>1
            <3>3. i # Invalid
                BY DEF Invalid
            <3> HIDE DEF c
            <3>4. OnePass(c) = [at |-> f[i].next, parts |-> h[i - 1] \o PartsIn(f[i])]
                BY <3>2, <3>3
            <3>5. h[i - 1] \o PartsIn(f[i]) = h[i]
                BY <1>3, <1>7, <3>1
            <3>6. f[i].next = IF i < leaf THEN i + 1 ELSE Invalid
                BY <3>1
            <3>7. ~(i < leaf) => i = leaf
                BY <1>1, <3>1
            <3> QED BY <3>4, <3>5, <3>6, <3>7 DEF c
        <2>2. CASE ~(i <= leaf)
            <3>1. ~(i - 1 < leaf) /\ ~(i < leaf)
                BY <1>1, <2>2
            <3>2. c = At(i) /\ c.at = Invalid
                BY <3>1
            <3> HIDE DEF c
            <3> QED BY <3>2 DEF c
        <2> QED BY <2>1, <2>2
    <1> HIDE DEF At, base, OnePass
    <1>10. Is(rr)
        <2>1. \A i \in 0 .. n : i # 0 => i \in 1 .. n /\ i - 1 \in 0 .. n
            OBVIOUS
        <2>2. ASSUME NEW i \in 0 .. n PROVE At(i) = IF i = 0 THEN base ELSE OnePass(rr[i - 1])
            BY <1>8, <1>9, <2>1
        <2> QED BY <2>2
    <1> HIDE DEF rr
    <1>11. Is(read)
        BY <1>5, <1>10
    <1>12. read[0] = base /\ \A i \in 1 .. n : read[i] = OnePass(read[i - 1])
        <2>1. 0 \in 0 .. n /\ \A i \in 1 .. n : i \in 0 .. n /\ i # 0
            OBVIOUS
        <2> HIDE DEF leaf
        <2> QED BY <1>11, <2>1
    <1> DEFINE Ss == [i \in 0 .. n |-> {At(i)}]
    <1>13. /\ read[0] \in Ss[0]
           /\ \A i \in 1 .. n : read[i - 1] \in Ss[i - 1] => read[i] \in Ss[i]
        <2>1. read[0] \in Ss[0]
            BY <1>8, <1>12
        <2>2. ASSUME NEW i \in 1 .. n, read[i - 1] \in Ss[i - 1] PROVE read[i] \in Ss[i]
            <3>1. i - 1 \in 0 .. n /\ i \in 0 .. n
                OBVIOUS
            <3>2. read[i - 1] = At(i - 1)
                BY <2>2, <3>1
            <3>3. read[i] = At(i)
                BY <1>9, <1>12, <3>2
            <3> QED BY <3>1, <3>3
        <2> HIDE DEF Ss
        <2> QED BY <2>1, <2>2
    <1> HIDE DEF Ss
    <1>14. \A i \in 0 .. n : read[i] \in Ss[i]
        BY <1>13, StaysIn
    <1>15. read[n] = At(n)
        <2>1. n \in 0 .. n
            OBVIOUS
        <2>2. read[n] \in {At(n)}
            BY <1>14, <2>1 DEF Ss
        <2> QED BY <2>2
    <1>16. At(n).parts = h[leaf]
        BY <1>1 DEF At
    <1> QED BY <1>4, <1>7, <1>15, <1>16 DEF read

LEMMA FlushKeeps ==
    ASSUME PartsInv, FlushSlice
    PROVE  PartsInv'
    <1> DEFINE leaf == Len(w.file) + 1
               y == StoreLeaf(w)
               z == IndexFlush(y)
               g == store(w.file, w.node, TRUE)
               f == [z.file EXCEPT ![leaf].next = Invalid]
               n == Len(f)
    <1>1. /\ ~flushed /\ w.last_eor /\ flushed' = TRUE /\ added' = added
          /\ w' = [z EXCEPT !.file[leaf].next = Invalid]
        BY DEF FlushSlice
    <1>2. Holds(w, added)
        BY <1>1 DEF PartsInv
    <1>3. w \in Writers /\ Len(w.index) > 0 /\ Linked(w.file) /\ added \in Seq(Part)
        BY <1>2 DEF Holds
    <1>4. /\ y \in Writers /\ Len(y.index) > 0 /\ SameNodes(g, y.file) /\ Linked(y.file)
          /\ g \in Files /\ Len(g) = leaf /\ LeafParts(g) = PartsOf(w)
        BY <1>3, StoreLeafIs DEF PartsOf
    <1>5. leaf \in Nat /\ leaf >= 1
        BY <1>3, WriterIs
    <1> HIDE DEF y, g
    <1>6. z \in Kept(y)
        BY <1>4, IndexFlushKeeps
    <1> HIDE DEF z
    <1>7. z \in Writers /\ SameNodes(y.file, z.file) /\ Linked(z.file)
        BY <1>4, <1>6 DEF Kept
    <1>8. z.file \in Files /\ Len(z.file) \in Nat /\ Len(y.file) \in Nat
        BY <1>4, <1>7, WriterIs
    <1>9. leaf <= Len(y.file) /\ leaf <= Len(z.file)
        BY <1>4, <1>5, <1>7, <1>8 DEF SameNodes
    <1> HIDE DEF leaf
    <1>10. \A i \in 1 .. leaf : PartsIn(z.file[i]) = PartsIn(g[i])
        <2>1. \A i \in 1 .. leaf : i \in 1 .. Len(y.file)
            BY <1>5, <1>8, <1>9
        <2> QED BY <1>4, <1>7, <2>1 DEF SameNodes, PartsIn
    <1>11. /\ n = Len(z.file)
           /\ \A i \in 1 .. leaf : /\ PartsIn(f[i]) = PartsIn(z.file[i])
                                   /\ f[i].next = IF i < leaf THEN i + 1 ELSE Invalid
        <2> DEFINE N == DataNode \cup IndexNode
                   e == [z.file[leaf] EXCEPT !.next = Invalid]
        <2>1. leaf \in 1 .. Len(z.file) /\ z.file \in Seq(N) /\ z.file[leaf] \in N
            BY <1>5, <1>8, <1>9, LeavesType DEF Files
        <2>2. e \in N /\ e.leaf = z.file[leaf].leaf /\ e.entries = z.file[leaf].entries /\ e.next = Invalid
            BY <2>1, RelinkedNode DEF Invalid
        <2>3. f = [z.file EXCEPT ![leaf] = e]
            OBVIOUS
        <2> HIDE DEF N, e, f
        <2>4. Len(f) = Len(z.file) /\ \A i \in 1 .. Len(z.file) : f[i] = IF i = leaf THEN e ELSE z.file[i]
            BY <2>1, <2>2, <2>3, ExceptSeq
        <2>5. ASSUME NEW i \in 1 .. leaf
              PROVE  /\ PartsIn(f[i]) = PartsIn(z.file[i])
                     /\ f[i].next = IF i < leaf THEN i + 1 ELSE Invalid
            <3>1. i \in 1 .. Len(z.file)
                BY <1>5, <1>8, <1>9
            <3>2. CASE i = leaf
                <4>1. ~(i < leaf)
                    BY <1>5, <3>2
                <4> QED BY <2>2, <2>4, <3>1, <3>2, <4>1 DEF PartsIn
            <3>3. CASE i # leaf
                <4>1. i < leaf /\ i # Len(z.file)
                    BY <1>5, <1>8, <1>9, <3>3
                <4> QED BY <1>7, <2>4, <3>1, <3>3, <4>1 DEF Linked
            <3> QED BY <3>2, <3>3
        <2> QED BY <2>4, <2>5
    <1>12. w'.file = f
        BY <1>1, <1>7 DEF Writers
    <1> HIDE DEF f
    <1>13. Chain(1)' = LeafParts(g)
        <2>1. Chain(1)' = ReadFrom(f, n)[n].parts
            BY <1>12 DEF Chain, ReadNode, ReadFrom, PartsIn
        <2>2. n \in Nat /\ Len(g) \in 1 .. n
            BY <1>4, <1>5, <1>8, <1>9, <1>11
        <2>3. \A i \in 1 .. Len(g) : /\ PartsIn(f[i]) = PartsIn(g[i])
                                     /\ f[i].next = IF i < Len(g) THEN i + 1 ELSE Invalid
            BY <1>4, <1>10, <1>11
        <2> HIDE DEF n
        <2>4. ReadFrom(f, n)[n].parts = LeafParts(g)
            BY <1>4, <2>2, <2>3, ChainIs
        <2> QED BY <2>1, <2>4
    <1> DEFINE p == PartsOf(w)
    <1>14. /\ Pairs(p) = Pairs(added) /\ InOrder(p)
           /\ \A k \in Nat : BytesOf(p, k) = BytesOf(added, k)
           /\ p # <<>> => w.last_eor = Last(p).eor
           /\ p = <<>> <=> added = <<>>
        BY <1>2 DEF Holds
    <1>15. begin' = p
        BY <1>1, <1>4, <1>13, <1>14 DEF begin
    <1> HIDE DEF p
    <1>16. Rebuilds(p, added)
        <2>1. \A e \in ToSet(added) : e.key \in Nat
            <3>1. ToSet(added) \subseteq Part
                BY <1>3, InToSet
            <3> QED BY <3>1 DEF Part
        <2> QED BY <1>1, <1>14, <2>1 DEF Rebuilds, Pairs, InOrder
    <1>17. BeginReadsAll'
        BY <1>1, <1>15, <1>16 DEF BeginReadsAll
    <1> QED BY <1>1, <1>17 DEF PartsInv

\* However add() splits values over data nodes, and wherever index nodes are
\* stored between these, an iterator that starts at the first node reads each
\* key with all of its bytes, in order and up to the end of its record.
THEOREM SliceReadsAll == SliceSpec => []BeginReadsAll
    <1>1. PartsInv /\ [SliceNext]_sliceVars => PartsInv'
        <2> SUFFICES ASSUME PartsInv, [SliceNext]_sliceVars PROVE PartsInv'
            OBVIOUS
        <2>1. CASE \E key \in SliceKeys, size \in Sizes, eor, deleted \in BOOLEAN :
                      Add(key, size, eor, deleted)
            BY <2>1, AddKeeps
        <2>2. CASE FlushSlice
            BY <2>2, FlushKeeps
        <2>3. CASE UNCHANGED sliceVars
            <3>1. w' = w /\ added' = added /\ flushed' = flushed
                BY <2>3 DEF sliceVars
            <3>2. Chain(1)' = Chain(1)
                BY <3>1 DEF Chain, ReadNode
            <3>3. begin' = begin
                BY <3>1, <3>2 DEF begin
            <3>4. BeginReadsAll'
                BY <3>1, <3>3 DEF BeginReadsAll, PartsInv
            <3> QED BY <3>1, <3>4 DEF PartsInv
        <2> QED BY <2>1, <2>2, <2>3 DEF SliceNext
    <1>2. PartsInv => BeginReadsAll
        BY DEF PartsInv
    <1> QED BY SliceStarts, <1>1, <1>2, PTL DEF SliceSpec

=============================================================================
