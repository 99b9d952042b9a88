----------------------------- MODULE MergeIterator -----------------------------
(***************************************************************************)
(* ushard_iterator: the merge of the iterators of several slices, as       *)
(* readers, merges and compactions use it.                                 *)
(*                                                                         *)
(* A value may be split into parts, which follow each other in its slice;  *)
(* eor marks the last.  An element of m_elements is the set of the parts   *)
(* that the iterator of one slice has still to give, the current one       *)
(* included: the first of them.  Keys are numbers, in the order of         *)
(* std::string_view::compare.                                              *)
(***************************************************************************)
EXTENDS Entries, FiniteSets, SequencesExt

CONSTANTS
    Slices,         \* the slices the iterator is made of
    MaxParts        \* bound: parts of a value

ASSUME KeysAssumption == Keys \subseteq Nat \ {0} /\ IsFiniteSet(Keys)
ASSUME SlicesAssumption == IsFiniteSet(Slices)
ASSUME MaxPartsAssumption == MaxParts \in Nat \ {0}

Unbounded == 0      \* m_max_key and m_last_key of size 0

Part == [key : Keys, idx : 1 .. Cardinality(Slices), part : 1 .. MaxParts, eor : BOOLEAN]

VARIABLES
    slices,         \* the parts in each slice
    min_key,
    m_max_key,
    m_elements,
    m_last_key,
    loop,           \* next() is in its while loop
    out,            \* what next() has yielded
    ended           \* next() has returned false

mergeVars == <<slices, min_key, m_max_key, m_elements, m_last_key, loop, out, ended>>

-----------------------------------------------------------------------------
(* Slices. *)

\* Slices in which every key has any number of parts, none if 0, and any of the
\* slices may have the newest entry of a key.
SliceContents(parts, idxs) ==
    [s \in Slices |->
        {p \in Part : /\ p.idx = idxs[p.key][s]
                      /\ p.part <= parts[s][p.key]
                      /\ p.eor = (p.part = parts[s][p.key])}]

\* The order of the parts in a slice.
Before(p, q) == p.key < q.key \/ (p.key = q.key /\ p.part < q.part)

\* The part that the iterator of a slice is at, and what next() leaves it.
Current(e) == CHOOSE p \in e : \A q \in e : p = q \/ Before(p, q)
Rest(e) == e \ {Current(e)}

\* What begin of a slice gives, and range as its callers expect it; Slice has what
\* range does when min_key is not in the slice (RangesComplete).
From(s) == {p \in slices[s] : p.key >= min_key}

OutOfBounds(p) == m_max_key # Unbounded /\ p.key > m_max_key

-----------------------------------------------------------------------------
(* ushard_iterator *)

\* ushard_iterator::cmp: the last element has the smallest key, and of those
\* with this key the newest.
cmp_Oldest(e1, e2) ==
    \/ Current(e1).key > Current(e2).key
    \/ Current(e1).key = Current(e2).key /\ Current(e1).idx > Current(e2).idx

cmp(e1, e2) ==
    \/ Current(e1).key > Current(e2).key
    \/ Current(e1).key = Current(e2).key /\ Current(e1).idx < Current(e2).idx

\* begin (Unbounded) or range: the constructors keep the slices that have
\* something to give, in the order in which the jobs end.
MergeInit ==
    /\ \E parts \in [Slices -> [Keys -> 0 .. MaxParts]],
          idxs \in [Keys -> Bijection(Slices, 1 .. Cardinality(Slices))] :
             slices = SliceContents(parts, idxs)
    /\ m_max_key \in Keys \cup {Unbounded}
    /\ min_key \in {k \in Keys : k <= m_max_key} \cup {Unbounded}
    /\ m_max_key = Unbounded <=> min_key = Unbounded
    /\ LET kept == {s \in Slices : From(s) # {} /\ ~OutOfBounds(Current(From(s)))}
       IN  m_elements \in SetToSeqs({From(s) : s \in kept})
    /\ m_last_key = Unbounded
    /\ loop = FALSE /\ out = <<>> /\ ended = FALSE

\* next() returns true with the current part of the last element of elements.
Yielded(elements) ==
    /\ m_elements' = elements
    /\ out' = Append(out, Current(Last(elements)))
    /\ loop' = FALSE
    /\ UNCHANGED ended

\* next() returns false, and has nothing more to give.
Ended ==
    /\ m_elements' = <<>>
    /\ loop' = FALSE /\ ended' = TRUE
    /\ UNCHANGED out

\* The first call of next() sorts the elements.
Sorted(elements) ==
    \A i, j \in DOMAIN elements : i < j => ~cmp(elements[j], elements[i])

First ==
    /\ m_elements # <<>> /\ m_last_key = Unbounded
    /\ \E elements \in SetToSeqs(ToSet(m_elements)) :
          /\ Sorted(elements)
          /\ m_last_key' = Current(Last(elements)).key
          /\ IF OutOfBounds(Current(Last(elements))) THEN Ended ELSE Yielded(elements)
    /\ UNCHANGED <<slices, min_key, m_max_key>>

\* The value has more parts.
NextPart ==
    /\ m_elements # <<>> /\ m_last_key # Unbounded /\ ~loop
    /\ ~Current(Last(m_elements)).eor
    /\ Yielded(Append(Front(m_elements), Rest(Last(m_elements))))
    /\ UNCHANGED <<slices, min_key, m_max_key, m_last_key>>

\* std::lower_bound: how many of the sorted elements stay before e.
LowerBound(elements, e) ==
    CHOOSE n \in 0 .. Len(elements) :
        \A i \in 1 .. Len(elements) : cmp(elements[i], e) <=> i <= n

advance(elements) ==
    LET others == Front(elements)
        rest == Rest(Last(elements))
    IN  IF rest = {} THEN others
        ELSE InsertAt(others, LowerBound(others, rest) + 1, rest)

\* One round of the loop of next(), which skips the older entries of a key.
Advance ==
    /\ m_elements # <<>> /\ m_last_key # Unbounded
    /\ loop \/ Current(Last(m_elements)).eor
    /\ LET elements == advance(m_elements)
           more == elements # <<>> /\ ~OutOfBounds(Current(Last(elements)))
       IN  \/ ~more /\ Ended /\ UNCHANGED m_last_key
           \/ /\ more /\ Current(Last(elements)).key # m_last_key
              /\ Yielded(elements)
              /\ m_last_key' = Current(Last(elements)).key
           \/ /\ more /\ Current(Last(elements)).key = m_last_key
              /\ m_elements' = elements
              /\ loop' = TRUE
              /\ UNCHANGED <<m_last_key, out, ended>>
    /\ UNCHANGED <<slices, min_key, m_max_key>>

\* next() of an iterator without elements.
NoElements ==
    /\ m_elements = <<>>
    /\ Ended
    /\ UNCHANGED <<slices, min_key, m_max_key, m_last_key>>

MergeNext == First \/ NextPart \/ Advance \/ NoElements

MergeSpec == MergeInit /\ [][MergeNext]_mergeVars

-----------------------------------------------------------------------------
(* Properties. *)

\* What a reader asked for: every part of the newest entry of every key in the
\* range, whichever slices they are in.
Wanted ==
    LET parts == UNION {slices[s] : s \in Slices}
        newest == Newest({[key |-> p.key, idx |-> p.idx, deleted |-> FALSE] : p \in parts})
    IN  {p \in parts : /\ p.key >= min_key /\ ~OutOfBounds(p)
                       /\ \E e \in newest : e.key = p.key /\ e.idx = p.idx}

\* next() yields exactly the newest entries, all parts of each, in key order, and
\* never a part of an entry that a newer one hides: what it has yielded is a
\* beginning of the list of the wanted parts, and all of it when it has ended.
YieldsNewestInOrder ==
    /\ ToSet(out) \subseteq Wanted
    /\ \A i, j \in DOMAIN out : i < j => Before(out[i], out[j])
    /\ \A p \in Wanted \ ToSet(out) : \A q \in ToSet(out) : Before(q, p)
    /\ ended => Wanted \subseteq ToSet(out)

=============================================================================
