-------------------------------- MODULE Fetch --------------------------------
(***************************************************************************)
(* fetch_data of db_server and the loop of its clients: the entries of an  *)
(* iterator in answers of limited size, each with as much of a value as    *)
(* fits, and the client that puts the values together again.               *)
(*                                                                         *)
(* An iterator yields parts of values.  A value is the sequence 1..n, so   *)
(* that a byte tells where it belongs.  A key is a number, its size.       *)
(***************************************************************************)
EXTENDS Naturals, Sequences, SequencesExt, FiniteSets, FiniteSetsExt

CONSTANTS
    Keys,               \* numbers, in the order of the iterator
    Space,              \* bytes that the entries of an answer and its handle can take
    EntryBytes,         \* bytes of an entry without its key and value
    HandleBytes,        \* handle_bytes_required
    MaxPart,            \* bound: bytes in a part of a value
    MaxParts            \* bound: parts of a value

\* An entry with a byte of its value fits into an empty answer.
ASSUME SpaceAssumption ==
    /\ Keys \subseteq Nat \ {0} /\ IsFiniteSet(Keys)
    /\ Space \in Nat /\ EntryBytes \in Nat /\ HandleBytes \in Nat
    /\ \A k \in Keys : Space > EntryBytes + k + HandleBytes
ASSUME PartsAssumption == MaxPart \in Nat /\ MaxParts \in Nat

VARIABLES
    iterator,           \* what the iterator has yet to yield, the current part first
    value_part,         \* what is left of the current part
    readers,            \* whether the server holds the reader
    answer,             \* the answer on its way to the client
    client,             \* where the client is, and what it has got
    expected            \* ghost: the keys of the range, with the sizes of their values

fetchVars == <<iterator, value_part, readers, answer, client, expected>>

NoAnswer == [entries |-> <<>>, used |-> 0, last |-> FALSE, handle |-> FALSE]

\* A value is empty or in parts, as the slice writer cut it.
Cuts == {<<0>>} \cup UNION {[1..n -> 1..MaxPart] : n \in 1..MaxParts}

\* Where the parts of a value end.
PartEnds(cut) ==
    LET end[i \in 0..Len(cut)] == IF i = 0 THEN 0 ELSE end[i - 1] + cut[i]
    IN  end

Total(cut) == PartEnds(cut)[Len(cut)]

Parts(key, cut) ==
    [i \in 1..Len(cut) |-> [key |-> key, eor |-> i = Len(cut),
                           bytes |-> [b \in 1..cut[i] |-> PartEnds(cut)[i - 1] + b]]]

\* The clients ask for ranges that are not empty: for the others there is no
\* data in the answer, which they do not expect.
FetchInit ==
    /\ \E n \in 1..Cardinality(Keys) : \E keys \in [1..n -> Keys], cuts \in [1..n -> Cuts] :
          /\ \A i \in 1..n - 1 : keys[i] < keys[i + 1]
          /\ iterator = FlattenSeq([i \in 1..n |-> Parts(keys[i], cuts[i])])
          /\ expected = [i \in 1..n |-> <<keys[i], Total(cuts[i])>>]
    /\ value_part = <<>>
    /\ readers = FALSE
    /\ answer = NoAnswer
    /\ client = [at |-> "start", key |-> 0, value |-> <<>>, complete |-> <<>>]

-----------------------------------------------------------------------------
(* fetch_entries *)

bytes_required(key) == EntryBytes + key + HandleBytes

\* Mutant: a part is sent only if it fits whole.
Full_WholeParts(available, required, part) == available < required + Len(part)

\* There is no room for another entry with a byte of its value.
Full(available, required, part) == available <= required

\* Mutant: a piece of the last part is marked as the end of the value.
EndOfValue_Always(current, part, size) == current.eor

\* A piece of a part never ends the value.
EndOfValue(current, part, size) == current.eor /\ size = Len(part)

Unsent(part, size) == SubSeq(part, size + 1, Len(part))

\* The i-th part from the current one on, of which part is left.
PartOf(part, i) == IF i = 1 THEN part ELSE iterator[i].bytes

\* The bytes that i parts take.
BytesUsed(part) ==
    LET used[i \in 0..Len(iterator)] ==
            IF i = 0 THEN 0 ELSE used[i - 1] + EntryBytes + iterator[i].key + Len(PartOf(part, i))
    IN  used

\* Turn i of the loop, behind i - 1 parts: whether it breaks off for want of space,
\* how much of its part it sends, and whether it goes on to the next one.
SpaceLeft(part, i) == Space - BytesUsed(part)[i - 1]
Breaks(part, i) == Full(SpaceLeft(part, i), bytes_required(iterator[i].key), PartOf(part, i))
part_size(part, i) ==
    Min({SpaceLeft(part, i) - bytes_required(iterator[i].key), Len(PartOf(part, i))})
GoesOn(part, i) == ~Breaks(part, i) /\ part_size(part, i) = Len(PartOf(part, i))

EntryFor(part, i) ==
    LET size == part_size(part, i)
    IN [key |-> iterator[i].key, eor |-> EndOfValue(iterator[i], PartOf(part, i), size),
        bytes |-> SubSeq(PartOf(part, i), 1, size)]

\* An answer gets n parts and, if there is space, a piece of the next one.
fetch_entries(part, n) ==
    LET last == n = Len(iterator)
        piece == ~last /\ ~Breaks(part, n + 1)
        size == part_size(part, n + 1)
    IN /\ \A i \in 1..n : GoesOn(part, i)
       /\ ~last => ~GoesOn(part, n + 1)
       /\ answer' = [entries |-> [i \in 1..(IF piece THEN n + 1 ELSE n) |-> EntryFor(part, i)],
                     used |-> BytesUsed(part)[n]
                                + IF piece THEN EntryBytes + iterator[n + 1].key + size ELSE 0,
                     last |-> last, handle |-> ~last]
       /\ iterator' = SubSeq(iterator, n + 1, Len(iterator))
       /\ value_part' = IF last THEN <<>>
                        ELSE IF piece THEN Unsent(PartOf(part, n + 1), size)
                        ELSE PartOf(part, n + 1)

Kept(last) == ~last

\* fetch_data, without a handle and with one.
fetch_data(first) ==
    /\ client.at = IF first THEN "start" ELSE "asks"
    /\ \E n \in 0..Len(iterator) :
          /\ fetch_entries(IF first THEN iterator[1].bytes ELSE value_part, n)
          /\ readers' = Kept(n = Len(iterator))
    /\ client' = [client EXCEPT !.at = "waits"]
    /\ UNCHANGED expected

abort_fetch ==
    /\ client.at = "asks"
    /\ readers' = FALSE
    /\ client' = [client EXCEPT !.at = "stopped"]
    /\ UNCHANGED <<iterator, value_part, answer, expected>>

-----------------------------------------------------------------------------
(* The client: fetch of db_fetch_client_seq and db_fetch_client_rnd *)

NoKey == 0

\* What the client makes of an entry; an assertion fails if its key is not the
\* one of a value that is not complete.
Taken(c, entry) ==
    LET value == c.value \o entry.bytes
    IN IF c.key \notin {NoKey, entry.key} THEN [c EXCEPT !.at = "failed"]
       ELSE IF entry.eor
       THEN [c EXCEPT !.key = NoKey, !.value = <<>>,
                      !.complete = Append(@, <<entry.key, value>>)]
       ELSE [c EXCEPT !.key = entry.key, !.value = value]

\* The entries of an answer, one after the other.
AfterEntries(c, entries) ==
    LET after[i \in 0..Len(entries)] ==
            IF i = 0 THEN c ELSE Taken(after[i - 1], entries[i])
    IN  after[Len(entries)]

TakeAnswer ==
    /\ client.at = "waits"
    /\ client' = AfterEntries([client EXCEPT !.at = IF answer.handle THEN "asks" ELSE "done"],
                              answer.entries)
    /\ answer' = NoAnswer
    /\ UNCHANGED <<iterator, value_part, readers, expected>>

FetchNext ==
    \/ \E first \in BOOLEAN : fetch_data(first)
    \/ abort_fetch
    \/ TakeAnswer

\* A client that has not stopped goes on, and the server answers.
FetchSpec ==
    /\ FetchInit /\ [][FetchNext]_fetchVars
    /\ \A first \in BOOLEAN : WF_fetchVars(fetch_data(first))
    /\ WF_fetchVars(TakeAnswer)

-----------------------------------------------------------------------------
(* Properties *)

\* The values that the client has put together are the first ones of the range,
\* byte by byte, all of them at the end, and what it has of the next one is how
\* that one begins (the assertions of db_fetch_client_seq.cpp:79-96).  The handle
\* of an answer fits behind its entries.
ValuesReassembled ==
    LET got == client.complete
        whole(v) == [b \in 1..v |-> b]
    IN /\ client.at # "failed"
       /\ answer.used + (IF answer.handle THEN HandleBytes ELSE 0) <= Space
       /\ Len(got) <= Len(expected)
       /\ \A i \in DOMAIN got : got[i] = <<expected[i][1], whole(expected[i][2])>>
       /\ client.key # NoKey =>
             /\ Len(got) < Len(expected) /\ client.key = expected[Len(got) + 1][1]
             /\ client.value = whole(Len(client.value))
       /\ client.at = "done" => Len(got) = Len(expected) /\ client.key = NoKey

\* A fetch ends: every answer brings the client further.
FetchEnds == client.at \in {"waits", "asks"} ~> client.at \in {"done", "stopped"}
=============================================================================
