------------------------------- MODULE Message -------------------------------
(***************************************************************************)
(* message::builder and message::parser: structs and lists in one buffer,  *)
(* as the code generator's builders and parsers use them.                  *)
(*                                                                         *)
(*   struct   size, an offset for each of its fields, its static fields,   *)
(*            and then the fields, in the order in which they were added   *)
(*   list     number of elements, and then the elements                    *)
(*   string   size, and then the bytes                                     *)
(*                                                                         *)
(* An offset is relative to the start of its struct, 0 if the field is not *)
(* there.  The parser goes by offsets; only from one element of a list to  *)
(* the next it goes by the size of the element.                            *)
(*                                                                         *)
(* A builder is a record; the struct_builders and list_builders on it are  *)
(* the offsets where their structs and lists begin.                        *)
(***************************************************************************)
EXTENDS Naturals, Sequences, SequencesExt, FiniteSetsExt, FiniteSets, TLC

WordBytes == 2          \* sizeof(uint16_t)
Junk == 255             \* what is in a buffer before it is written

\* An integer in little endian, and back; the ones of the model fit into 16 bits.
Bytes(value, size) == [i \in 1..size |-> CASE i = 1 -> value % 256
                                          [] i = 2 -> value \div 256
                                          [] OTHER -> 0]
Number(bytes) == bytes[1] + 256 * bytes[2]

\* Offsets count from 0.
Part(buffer, offset, size) == SubSeq(buffer, offset + 1, offset + size)
Stored(buffer, offset, bytes) ==
    SubSeq(buffer, 1, offset) \o bytes \o SubSeq(buffer, offset + Len(bytes) + 1, Len(buffer))
Word(buffer, offset) == Number(Part(buffer, offset, WordBytes))

-----------------------------------------------------------------------------
(* Builder *)

NewBuilder(max_size) ==
    [m_buffer |-> [i \in 1..max_size |-> Junk], m_max_size |-> max_size, m_offset |-> 0,
     failed |-> FALSE]

available_space(b) == b.m_max_size - b.m_offset

\* What is added goes to the end of the buffer.  Without the space for it
\* insufficient_space_error is thrown, or an assertion of struct_builder or
\* list_builder fails.
Added(b, bytes) ==
    IF b.m_offset + Len(bytes) > b.m_max_size THEN [b EXCEPT !.failed = TRUE]
    ELSE [b EXCEPT !.m_buffer = Stored(@, b.m_offset, bytes), !.m_offset = @ + Len(bytes)]

add_integral(b, value, size) == Added(b, Bytes(value, size))
add_string(b, string) == Added(b, Bytes(Len(string), WordBytes) \o string)

SetBytes(b, offset, bytes) == [b EXCEPT !.m_buffer = Stored(@, offset, bytes)]
SetWord(b, offset, value) == SetBytes(b, offset, Bytes(value, WordBytes))

struct_bytes_required(element_count, static_size) == WordBytes * (1 + element_count) + static_size
list_bytes_required == WordBytes

\* The constructors of struct_builder and of list_builder.
StructBuilder(b, element_count, static_size) ==
    Added(b, Bytes(0, struct_bytes_required(element_count, static_size)))
ListBuilder(b) == Added(b, Bytes(0, list_bytes_required))

OffsetOf(struct, k) == struct + WordBytes * (1 + k)
StaticOf(struct, element_count) == struct + WordBytes * (1 + element_count)

set_offset(b, struct, k) == SetWord(b, OffsetOf(struct, k), b.m_offset - struct)
add_element(b, list) == SetWord(b, list, Word(b.m_buffer, list) + 1)

\* Mutant: the size of a struct counts its own word.
finalize_WithSize(b, struct) == SetWord(b, struct, b.m_offset - struct)

\* struct_builder::finalize, at the latest when the struct_builder is destroyed.
finalize(b, struct) == SetWord(b, struct, b.m_offset - struct - WordBytes)

-----------------------------------------------------------------------------
(* Parser: a buffer and the size of the message in it *)

Malformed == 65536      \* where malformed_message_error is thrown: no offset or word

StructParser(p, offset, element_count, static_size) ==
    IF offset = Malformed \/ offset + struct_bytes_required(element_count, static_size) > p.m_size
    THEN Malformed ELSE offset

has_offset(p, struct, k) == struct # Malformed /\ Word(p.m_buffer, OffsetOf(struct, k)) # 0

\* offset<k>().
FieldOf(p, struct, k) ==
    LET offset == Word(p.m_buffer, OffsetOf(struct, k))
    IN IF ~has_offset(p, struct, k) \/ struct + offset > p.m_size THEN Malformed
       ELSE struct + offset

parse_integral(p, offset, size) ==
    IF offset = Malformed \/ offset + size > p.m_size THEN Malformed
    ELSE Number(Part(p.m_buffer, offset, size))

parse_string(p, offset) ==
    LET size == parse_integral(p, offset, WordBytes)
    IN IF size = Malformed \/ offset + WordBytes + size > p.m_size THEN <<Malformed>>
       ELSE Part(p.m_buffer, offset + WordBytes, size)

\* list_parser and next: where the elements of the list are.
ElementsOf(p, list) ==
    LET size(offset) == parse_integral(p, offset, WordBytes)
        element[i \in Nat] ==
            IF i = 1 THEN list + WordBytes
            ELSE IF size(element[i - 1]) = Malformed THEN Malformed
            ELSE (element[i - 1] + size(element[i - 1]) + WordBytes) % 65536
    IN IF size(list) = Malformed THEN <<Malformed>>
       ELSE [i \in 1..size(list) |-> element[i]]
=============================================================================
