------------------------------- MODULE Update -------------------------------
(***************************************************************************)
(* An update as the clients of db_server make it: fill_entries puts as     *)
(* many entries as fit into an update_data message, cutting the value of   *)
(* the last one, until all are sent, and commit_update ends it.            *)
(* update_entries takes the messages apart and adds the entries to the     *)
(* slices of their ushards.  The messages are byte for byte those of the   *)
(* generated builders and parsers; Rpc is what carries them.               *)
(***************************************************************************)
EXTENDS Message

CONSTANTS
    BufferSizes,        \* buffer_size of rpc_client, to choose from
    MaxKeys,            \* bound: number of keys of an update
    GroupBits,          \* neighbouring keys, 2^GroupBits of them, share a ushard
    UshardBits

KeyBytes == 8
ValueBytes == 8
HandleBytesRequired == 8
UshardBytesRequired == 4

\* The structs of service.json, db_server_module.json and data.json: number of
\* offsets and static bytes.
Request == <<1, 4>>
Response == <<2, 0>>
UpdateRequest == <<2, 0>>
UpdateResponse == <<1, 0>>
CommitRequest == <<1, 0>>
CommitResponse == <<0, 0>>
Data == <<1, 1>>
Collection == <<2, 0>>
Entry == <<3, 1>>

BytesOf(struct) == struct_bytes_required(struct[1], struct[2])

entry_bytes_required ==
    BytesOf(Entry) + list_bytes_required + list_bytes_required + UshardBytesRequired + KeyBytes

\* A byte of a value fits into a message that has a handle.
ASSUME BufferSizesAssumption ==
    \A size \in BufferSizes :
       size > BytesOf(Request) + BytesOf(UpdateRequest) + HandleBytesRequired + BytesOf(Data)
                + BytesOf(Collection) + 2 * list_bytes_required + entry_bytes_required

VARIABLES
    sender,             \* the client: where it is, and the reader of its entries
    message,            \* the message on its way, with its size
    open_writers,            \* of the server, by handle; the slices have what was added to them
    committed_slices    \* what commit_update gave to the ushards

updateVars == <<sender, message, open_writers, committed_slices>>

\* A key is big endian, and no two bytes of the values are the same.
KeyOf(k) == Reverse(Bytes(k, KeyBytes))
ValueOf(k) == [i \in 1..ValueBytes |-> ValueBytes * k + i]
UshardOf(k) == (k \div 2^GroupBits) % 2^UshardBits
UshardNumbers == 0 .. 2^UshardBits - 1

NoMessage == [m_buffer |-> <<>>, m_size |-> 0]
EmptySlices == [u \in UshardNumbers |-> <<>>]

UpdateInit ==
    /\ \E size \in BufferSizes, keys \in 1..MaxKeys :
          sender = [at |-> "fills", buffer_size |-> size, keys |-> keys, handle |-> 0,
                    key |-> 1, value_part |-> ValueOf(1), done |-> FALSE]
    /\ message = NoMessage
    /\ open_writers = <<>>
    /\ committed_slices = EmptySlices

-----------------------------------------------------------------------------
(* The client *)

Struct(b, struct) == StructBuilder(b, struct[1], struct[2])
SetFlags(b, at, struct, flags) == SetBytes(b, StaticOf(at, struct[1]), <<flags>>)

EndsValue(part, size) == size = Len(part)

\* What an entry adds to the list of entries.
AddEntry(b, list, k, part, eor) ==
    LET entry == b.m_offset
        empty == SetFlags(Struct(add_element(b, list), Entry), entry, Entry, IF eor THEN 1 ELSE 0)
        keyed == add_string(set_offset(empty, entry, 1), KeyOf(k))
        valued == add_string(set_offset(keyed, entry, 2), part)
        sharded == add_integral(set_offset(valued, entry, 0), UshardOf(k), UshardBytesRequired)
    IN finalize(sharded, entry)

\* The loop of fill_entries: the builder, and where the reader is then.
RECURSIVE FillFrom(_, _, _)
FillFrom(b, list, r) ==
    LET size == Min({available_space(b) - entry_bytes_required, Len(r.value_part)})
        filled == AddEntry(b, list, r.key, SubSeq(r.value_part, 1, size),
                           EndsValue(r.value_part, size))
    IN IF available_space(b) <= entry_bytes_required
       THEN [b |-> b, r |-> r]
       ELSE IF size # Len(r.value_part)
       THEN [b |-> filled,
             r |-> [r EXCEPT !.value_part = SubSeq(@, size + 1, Len(@))]]
       ELSE IF r.key = r.keys
       THEN [b |-> filled, r |-> [r EXCEPT !.done = TRUE]]
       ELSE FillFrom(filled, list, [r EXCEPT !.key = @ + 1, !.value_part = ValueOf(r.key + 1)])

\* The builders are destroyed in the reverse order of their construction.
fill_entries(b, r) ==
    LET data == b.m_offset
        dbs == data + BytesOf(Data)
        db == dbs + list_bytes_required
        entries == db + BytesOf(Collection)
        with_dbs == ListBuilder(set_offset(Struct(b, Data), data, 0))
        with_db == Struct(add_element(with_dbs, dbs), Collection)
        f == FillFrom(ListBuilder(set_offset(with_db, db, 1)), entries, r)
        flagged == SetFlags(f.b, data, Data, IF f.r.done THEN 1 ELSE 0)
    IN [f EXCEPT !.b = finalize(finalize(flagged, db), data)]

\* The constructor of remote_call_wrapper, and request.
RemoteCall(size, function, struct) ==
    LET empty == Struct(NewBuilder(size), Request)
        named == SetBytes(empty, StaticOf(0, Request[1]), Bytes(1, 2) \o Bytes(function, 2))
    IN Struct(set_offset(named, 0, 0), struct)

\* execute.  The builder of the function's request is not destroyed yet: the
\* request goes without its size.
Sent(b) ==
    LET sent == finalize(b, 0)
    IN [m_buffer |-> sent.m_buffer, m_size |-> Word(sent.m_buffer, 0) + WordBytes]

update_data_id == 1
commit_update_id == 2

\* The loop of update_thread: the handle is there from the second message on.
SendUpdate ==
    /\ sender.at = "fills"
    /\ LET call == RemoteCall(sender.buffer_size, update_data_id, UpdateRequest)
           req == BytesOf(Request)
           handled == IF sender.handle = 0 THEN call
                      ELSE add_integral(set_offset(call, req, 0), sender.handle,
                                        HandleBytesRequired)
           f == fill_entries(set_offset(handled, req, 1), sender)
       IN /\ message' = Sent(f.b)
          /\ sender' = [f.r EXCEPT !.at = IF f.b.failed THEN "failed" ELSE "waits"]
    /\ UNCHANGED <<open_writers, committed_slices>>

SendCommit ==
    /\ sender.at = "commits"
    /\ LET call == RemoteCall(sender.buffer_size, commit_update_id, CommitRequest)
           b == add_integral(set_offset(call, BytesOf(Request), 0), sender.handle,
                             HandleBytesRequired)
       IN /\ message' = Sent(b)
          /\ sender' = [sender EXCEPT !.at = IF b.failed THEN "failed" ELSE "waits commit"]
    /\ UNCHANGED <<open_writers, committed_slices>>

-----------------------------------------------------------------------------
(* The server *)

Parsed(offset, struct) == StructParser(message, offset, struct[1], struct[2])
Field(struct, k) == FieldOf(message, struct, k)
FlagsOf(at, struct) == message.m_buffer[StaticOf(at, struct[1]) + 1]

\* What update_entries reads of an entry.
Received(entry) ==
    [key |-> parse_string(message, Field(entry, 1)),
     value |-> parse_string(message, Field(entry, 2)),
     ushard |-> parse_integral(message, Field(entry, 0), UshardBytesRequired) % 2^UshardBits,
     eor |-> FlagsOf(entry, Entry) = 1]

\* slice_writer::check: the parts of a value follow each other, and the next key
\* is greater.  Here a key is as great as its last bytes.
KeyNumber(key) == Number(Reverse(key))
check(slice, entry) ==
    \/ slice = <<>>
    \/ Last(slice).eor /\ KeyNumber(entry.key) > KeyNumber(Last(slice).key)
    \/ ~Last(slice).eor /\ entry.key = Last(slice).key

AddToSlice(slices, entry) == [slices EXCEPT ![entry.ushard] = Append(@, entry)]

\* update_entries: the slices with the entries of the message.  Without the
\* malformed_message_error of a parser, the invalid_data_error of slice_writer::add
\* and that of slice_writer::flush, at the end of the data, it is ok.
update_entries(request, slices) ==
    LET data == Parsed(Field(request, 1), Data)
        db == Parsed(Head(ElementsOf(message, Field(data, 0))), Collection)
        entries == ElementsOf(message, Field(db, 1))
        well_formed == \A i \in DOMAIN entries : Parsed(entries[i], Entry) # Malformed
        received == [i \in DOMAIN entries |-> Received(entries[i])]
        after[i \in 0..Len(entries)] ==
            IF i = 0 THEN slices ELSE AddToSlice(after[i - 1], received[i])
    IN IF ~well_formed THEN [ok |-> FALSE, slices |-> slices]
       ELSE [ok |-> /\ \A i \in DOMAIN received : check(after[i - 1][received[i].ushard], received[i])
                    /\ FlagsOf(data, Data) = 1 =>
                          \A u \in UshardNumbers : LET slice == after[Len(entries)][u]
                                             IN slice # <<>> => Last(slice).eor,
             slices |-> after[Len(entries)]]

\* The answer, with a handle or without.
Answer(struct, handle) ==
    LET response == BytesOf(Response)
        b == Struct(set_offset(Struct(NewBuilder(sender.buffer_size), Response), 0, 1), struct)
        handled == IF handle = 0 THEN b
                   ELSE add_integral(set_offset(b, response, 0), handle, HandleBytesRequired)
    IN Sent(finalize(handled, response))

FunctionOf(request) == Number(Part(message.m_buffer, StaticOf(request, Request[1]) + 2, 2))

\* process_message, update_data: without a handle a new writer.
ServeUpdate ==
    /\ sender.at = "waits" /\ message # NoMessage
    /\ LET service == Parsed(0, Request)
           request == Parsed(Field(service, 0), UpdateRequest)
           handle == IF has_offset(message, request, 0)
                     THEN parse_integral(message, Field(request, 0), HandleBytesRequired) ELSE 0
           idx == 1 + Cardinality(DOMAIN open_writers)
           u == update_entries(request, IF handle \in DOMAIN open_writers THEN open_writers[handle]
                                        ELSE EmptySlices)
       IN /\ FunctionOf(service) = update_data_id
          /\ open_writers' = IF handle = 0 THEN open_writers @@ (idx :> u.slices)
                                      ELSE (handle :> u.slices) @@ open_writers
          /\ message' = Answer(UpdateResponse, IF handle = 0 THEN idx ELSE 0)
          /\ sender' = [sender EXCEPT !.at = IF u.ok THEN "answered" ELSE "failed"]
    /\ UNCHANGED committed_slices

ServeCommit ==
    /\ sender.at = "waits commit" /\ message # NoMessage
    /\ LET service == Parsed(0, Request)
           request == Parsed(Field(service, 0), CommitRequest)
           handle == parse_integral(message, Field(request, 0), HandleBytesRequired)
       IN /\ FunctionOf(service) = commit_update_id
          /\ committed_slices' = IF handle \in DOMAIN open_writers THEN open_writers[handle] ELSE EmptySlices
          /\ open_writers' = Restrict(open_writers, DOMAIN open_writers \ {handle})
    /\ message' = Answer(CommitResponse, 0)
    /\ sender' = [sender EXCEPT !.at = "committed"]

\* wait returns: the handle is in the first answer, and only there.
TakeUpdateAnswer ==
    /\ sender.at = "answered"
    /\ LET response == Parsed(Field(Parsed(0, Response), 1), UpdateResponse)
           first == sender.handle = 0
       IN sender' =
            IF has_offset(message, response, 0) # first THEN [sender EXCEPT !.at = "failed"]
            ELSE [sender EXCEPT !.at = IF sender.done THEN "commits" ELSE "fills",
                                !.handle = IF first THEN parse_integral(message,
                                                            Field(response, 0),
                                                            HandleBytesRequired)
                                           ELSE @]
    /\ message' = NoMessage
    /\ UNCHANGED <<open_writers, committed_slices>>

UpdateNext == SendUpdate \/ ServeUpdate \/ TakeUpdateAnswer \/ SendCommit \/ ServeCommit

UpdateSpec == UpdateInit /\ [][UpdateNext]_updateVars

-----------------------------------------------------------------------------
(* Properties *)

\* The keys and values that the parts in a slice make up.
Values(slice) ==
    LET keys == {slice[i].key : i \in DOMAIN slice}
    IN {<<key, FlattenSeq([i \in DOMAIN slice |-> IF slice[i].key = key THEN slice[i].value
                                                ELSE <<>>])>> : key \in keys}

\* However the buffers cut the data, no builder runs out of space and no parser
\* fails, the slices take every part, and what is committed to a ushard are the
\* keys of the update that belong there, each with its whole value (the
\* assertions of update_thread, and what the fetch clients check later).
EntriesArrive ==
    /\ sender.at # "failed"
    /\ sender.at = "committed" =>
          \A u \in UshardNumbers :
             Values(committed_slices[u]) =
                {<<KeyOf(k), ValueOf(k)>> : k \in {j \in 1..sender.keys : UshardOf(j) = u}}
=============================================================================
