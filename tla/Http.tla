--------------------------------- MODULE Http ---------------------------------
(***************************************************************************)
(* One connection of http_server: worker_thread parses the requests that   *)
(* a client sends one after the other, without waiting for answers, and    *)
(* gives them to the service, which writes its answers through a           *)
(* buffered_writer.  An http::error is answered and ends the connection.   *)
(*                                                                         *)
(* A character is text of a request line, text of a header line, \r, \n or *)
(* anything else.  A byte of an answer names the request that it answers.  *)
(***************************************************************************)
EXTENDS Naturals, Sequences, SequencesExt, FiniteSetsExt

CONSTANTS
    HttpBuffer,         \* buffer_size: http_buffer and send_buffer
    Requests,           \* what a client may send: sequences of lines, of characters
    AnswerSizes,        \* sizes of answers
    MaxRequests         \* bound: number of requests on the connection

ASSUME HttpBufferAssumption == HttpBuffer \in Nat \ {0}
ASSUME AnswerSizesAssumption == AnswerSizes \subseteq Nat

CR == "r"
LF == "n"
EmptyLine == <<CR, LF>>

Characters == {CR, LF, "request", "header", "other"}

\* The client's lines end at their first \r\n and its requests at the first empty
\* line: this is what makes them lines and requests, good ones or bad ones.
IsLine(line) ==
    /\ line \in Seq(Characters) /\ Len(line) > 1
    /\ \A i \in 1..Len(line) - 1 : (line[i] = CR /\ line[i + 1] = LF) <=> i = Len(line) - 1

ASSUME RequestsAssumption ==
    \A request \in Requests :
        /\ request \in Seq(Seq(Characters)) /\ request # <<>>
        /\ \A i \in 1..Len(request) :
              IsLine(request[i]) /\ (request[i] = EmptyLine <=> i = Len(request))

VARIABLES
    stream,             \* characters on their way to the server
    http_client,        \* whether the client is there, and the bytes that it has got
    worker,             \* the worker thread
    http_sent,          \* ghost: the requests
    served              \* ghost: what process_request was called with, and size of its answer

httpVars == <<stream, http_client, worker, http_sent, served>>

\* at: "parses", "serves", "bad request", "error", "closed", or "aborted" with the
\* whole program.
\* lines: the lines of the request in http_buffer; out: send_buffer; left: the
\* bytes of the answer that are not written yet.
HttpInit ==
    /\ stream = <<>>
    /\ http_client = [open |-> TRUE, got |-> <<>>]
    /\ worker = [at |-> "parses", lines |-> <<>>, out |-> <<>>, left |-> 0]
    /\ http_sent = <<>>
    /\ served = <<>>

-----------------------------------------------------------------------------
(* The client *)

SendRequest(request) ==
    /\ http_client.open /\ Len(http_sent) < MaxRequests
    /\ stream' = stream \o FlattenSeq(request)
    /\ http_sent' = Append(http_sent, request)
    /\ UNCHANGED <<http_client, worker, served>>

CloseConnection ==
    /\ http_client.open
    /\ http_client' = [http_client EXCEPT !.open = FALSE]
    /\ UNCHANGED <<stream, worker, http_sent, served>>

-----------------------------------------------------------------------------
(* http::reader and http::request::parse *)

\* Mutant: \n alone ends a line.
LineEnds_AtLf(line) == Last(line) = LF

\* What load_line takes for the end of a line, which begins where the one before
\* it ended.
LineEnds(line) == Len(line) > 1 /\ SubSeq(line, Len(line) - 1, Len(line)) = EmptyLine

\* m_offset of http::reader; every request has a new one.
Used == Len(FlattenSeq(worker.lines))

\* load_line: up to the end of the line, or of the buffer, or nothing if that is
\* full.  read() waits for characters that did not come yet.
load_line(line) ==
    LET room == HttpBuffer - Used
        lengths == {n \in 1..Len(stream) : LineEnds(SubSeq(stream, 1, n))}
    IN \/ room = 0 /\ line = <<>>
       \/ /\ lengths # {} /\ Min(lengths) <= room
          /\ line = SubSeq(stream, 1, Min(lengths))
       \/ /\ \A n \in lengths : n > room
          /\ room > 0 /\ Len(stream) >= room
          /\ line = SubSeq(stream, 1, room)

\* The regular expressions of a request line and of a header line.
Matches(line, text) ==
    /\ Len(line) > 2 /\ SubSeq(line, Len(line) - 1, Len(line)) = EmptyLine
    /\ line[1] = text /\ \A i \in 2..Len(line) - 2 : line[i] \in {text, LF}

LineOk(line) == Matches(line, IF worker.lines = <<>> THEN "request" ELSE "header")

ParseLine ==
    /\ worker.at = "parses"
    /\ \E n \in 0..Len(stream) :
          LET line == SubSeq(stream, 1, n)
              ended == worker.lines # <<>> /\ line = EmptyLine
          IN /\ load_line(line)
             /\ stream' = SubSeq(stream, n + 1, Len(stream))
             /\ IF ended
                THEN \E size \in AnswerSizes :
                        /\ worker' = [worker EXCEPT !.at = "serves", !.lines = <<>>, !.left = size]
                        /\ served' = Append(served, [lines |-> Append(worker.lines, line),
                                                     answer |-> size])
                ELSE /\ worker' = IF LineOk(line) THEN [worker EXCEPT !.lines = Append(@, line)]
                                  ELSE [worker EXCEPT !.at = "bad request"]
                     /\ UNCHANGED served
    /\ UNCHANGED <<http_client, http_sent>>

\* disconnected_error out of read().
ReadDisconnected ==
    /\ worker.at = "parses" /\ ~http_client.open
    /\ \A n \in 0..Len(stream) : ~load_line(SubSeq(stream, 1, n))
    /\ worker' = [worker EXCEPT !.at = "closed"]
    /\ UNCHANGED <<stream, http_client, http_sent, served>>

-----------------------------------------------------------------------------
(* buffered_writer *)

\* The service writes its answer.
Write ==
    /\ worker.at = "serves" /\ worker.left > 0 /\ Len(worker.out) < HttpBuffer
    /\ worker' = [worker EXCEPT !.out = Append(@, Len(served)), !.left = @ - 1]
    /\ UNCHANGED <<stream, http_client, http_sent, served>>

\* What the sink takes.  When the client is gone the kernel may still accept it.
Delivered(bytes) ==
    http_client' = IF http_client.open THEN [http_client EXCEPT !.got = @ \o bytes] ELSE http_client

\* When the buffer is full, and before the next request.
MustFlush == worker.left = 0 \/ Len(worker.out) = HttpBuffer

Flush ==
    /\ worker.at = "serves" /\ MustFlush
    /\ Delivered(worker.out)
    /\ worker' = [worker EXCEPT !.out = <<>>, !.at = IF worker.left = 0 THEN "parses" ELSE @]
    /\ UNCHANGED <<stream, http_sent, served>>

\* process_request throws an http::error, behind what it has written already.
Throw ==
    /\ worker.at = "serves" /\ worker.left > 0
    /\ worker' = [worker EXCEPT !.at = "error", !.left = 0]
    /\ UNCHANGED <<stream, http_client, http_sent, served>>

\* The handler of http::error: the error goes behind what is in the buffer.
ErrorByte == 0

AnswerError ==
    /\ worker.at \in {"bad request", "error"}
    /\ Delivered(Append(worker.out, ErrorByte))
    /\ worker' = [worker EXCEPT !.at = "closed", !.out = <<>>]
    /\ UNCHANGED <<stream, http_sent, served>>

\* disconnected_error out of a flush, or a runtime_error if the error is EPIPE,
\* which is not caught and ends the program; nor is the other from the handler of
\* http::error.  Elsewhere it is, and the destructor of buffered_writer finds data
\* in the buffer: its assertion fails, if assertions are compiled in.
FlushDisconnected ==
    /\ ~http_client.open
    /\ \/ /\ worker.at = "serves" /\ MustFlush /\ worker.out # <<>>
          /\ \E end \in {"closed", "aborted"} : worker' = [worker EXCEPT !.at = end]
       \/ /\ worker.at \in {"bad request", "error"}
          /\ worker' = [worker EXCEPT !.at = "aborted"]
    /\ UNCHANGED <<stream, http_client, http_sent, served>>

WorkerStep ==
    ParseLine \/ ReadDisconnected \/ Write \/ Flush \/ Throw \/ AnswerError \/ FlushDisconnected

HttpNext ==
    \/ \E request \in Requests : SendRequest(request)
    \/ CloseConnection
    \/ WorkerStep

HttpSpec == HttpInit /\ [][HttpNext]_httpVars

-----------------------------------------------------------------------------
(* Properties *)

\* A request that the buffer has room for, made of a request line, header lines
\* and an empty line.
WellFormed(request) ==
    /\ Len(FlattenSeq(request)) <= HttpBuffer
    /\ Matches(Head(request), "request") /\ Last(request) = EmptyLine
    /\ \A i \in 2..Len(request) - 1 : Matches(request[i], "header")

Answers(requests) == FlattenSeq([i \in DOMAIN requests |-> [b \in 1..requests[i].answer |-> i]])

\* The service gets the requests of a client as they were sent, line by line and
\* in order, whatever stood before them in the buffers; the first one that is
\* malformed or too long is a bad request, and no other.  The client gets the
\* answers whole and in order, all of them before the next request is read; an
\* error comes behind everything that was written before it (http_server.h:113-144).
RequestsAnsweredInOrder ==
    LET n == Len(served)
        answers == Answers(served)
    IN /\ n <= Len(http_sent)
       /\ \A i \in 1..n : served[i].lines = http_sent[i] /\ WellFormed(http_sent[i])
       /\ worker.at = "bad request" => n < Len(http_sent) /\ ~WellFormed(http_sent[n + 1])
       /\ http_client.open =>
             /\ worker.at = "parses" => http_client.got = answers
             /\ worker.at = "serves" =>
                   http_client.got \o worker.out \o [b \in 1..worker.left |-> n] = answers
             /\ worker.at = "closed" =>
                   /\ Last(http_client.got) = ErrorByte
                   /\ IsPrefix(Answers(SubSeq(served, 1, n - 1)), http_client.got)
                   /\ IsPrefix(Front(http_client.got), answers)

=============================================================================
