--------------------------------- MODULE Rpc ---------------------------------
(***************************************************************************)
(* One connection of rpc_client and the worker thread of rpc_server that   *)
(* serves it: messages with their size in front, sent with                 *)
(* channel::send_all in as many parts as the kernel takes, and read with   *)
(* buffered_reader in as many parts as it gives.                           *)
(*                                                                         *)
(* A byte is a number: two for the size of a message, and the number of    *)
(* its call for every byte of the body.                                    *)
(***************************************************************************)
EXTENDS Naturals, Sequences, SequencesExt, FiniteSetsExt

CONSTANTS
    ClientBuffer,       \* buffer_size of rpc_client
    ServerBuffer,       \* buffer_size of rpc_server
    SlowSends,          \* whether what is left of a send can take over a millisecond
    MaxCalls            \* bound: number of calls

Header == 2             \* sizeof(uint16_t)
MinBody == 2            \* a body is a struct, and never empty

ASSUME BufferAssumption ==
    /\ ClientBuffer \in Nat /\ ClientBuffer >= Header + MinBody
    /\ ServerBuffer \in Nat /\ ServerBuffer >= Header + MinBody

VARIABLES
    wire,               \* the bytes on their way to each end
    ends,               \* the thread at each end
    calls,              \* ghost: number of calls
    answers             \* ghost: the last answer as it was sent and as it was read

rpcVars == <<wire, ends, calls, answers>>

Ends == {"client", "server"}
Peer(e) == IF e = "client" THEN "server" ELSE "client"
BufferSize(e) == IF e = "client" THEN ClientBuffer ELSE ServerBuffer

\* at: "idle" between calls, "sends", "reads", or "gone" with the socket closed.
\* late: send_all has changed its timeout; buffer: what buffered_reader has left.
RpcInit ==
    /\ wire = [e \in Ends |-> <<>>]
    /\ ends = [e \in Ends |-> [at |-> IF e = "client" THEN "idle" ELSE "reads", out |-> <<>>,
                               late |-> FALSE, buffer |-> <<>>, message |-> <<>>]]
    /\ calls = 0
    /\ answers = [sent |-> <<>>, read |-> <<>>]

Frame(n, size) == <<size, 0>> \o [i \in 1..size |-> n]
SizeOf(message) == message[1] + 256 * message[2]

-----------------------------------------------------------------------------
(* channel::send_all *)

\* execute: a builder never fills more than its buffer.
Execute(size) ==
    /\ ends["client"].at = "idle" /\ calls < MaxCalls
    /\ calls' = calls + 1
    /\ ends' = [ends EXCEPT !["client"].at = "sends",
                            !["client"].out = Frame(calls + 1, size), !["client"].late = FALSE]
    /\ UNCHANGED <<wire, answers>>

\* The kernel takes some of the bytes.  The timeout of 0 that rpc_client and
\* rpc_server give means none; for what is left it becomes 1.
Send(e, n) ==
    /\ ends[e].at = "sends" /\ ends[Peer(e)].at # "gone"
    /\ LET rest == SubSeq(ends[e].out, n + 1, Len(ends[e].out))
       IN ends' = [ends EXCEPT ![e].out = rest, ![e].late = rest # <<>>, ![e].message = <<>>,
                               ![e].at = IF rest = <<>> THEN "reads" ELSE "sends"]
    /\ wire' = [wire EXCEPT ![Peer(e)] = @ \o SubSeq(ends[e].out, 1, n)]
    /\ UNCHANGED <<calls, answers>>

\* timeout_error, which neither execute nor worker_thread catches.
SendTimesOut(e) ==
    /\ SlowSends
    /\ ends[e].at = "sends" /\ ends[e].late
    /\ ends' = [ends EXCEPT ![e].at = "gone"]
    /\ UNCHANGED <<wire, calls, answers>>

-----------------------------------------------------------------------------
(* buffered_reader *)

\* Mutant: the last byte stays unread.
Wanted_OneLess(message) ==
    IF Len(message) < Header THEN Header ELSE Header + SizeOf(message) - 1

\* The bytes of a message that are to be read, the header first.
Wanted(message) == IF Len(message) < Header THEN Header ELSE Header + SizeOf(message)

TooBig(e, message) == Len(message) = Header /\ SizeOf(message) > BufferSize(e) - Header

Reading(e) ==
    /\ ends[e].at = "reads"
    /\ Len(ends[e].message) < Wanted(ends[e].message)
    /\ ~TooBig(e, ends[e].message)

\* recv gives some of the bytes that are there.
Load(e, n) ==
    /\ Reading(e) /\ ends[e].buffer = <<>>
    /\ n <= Len(wire[e]) /\ n <= BufferSize(e)
    /\ ends' = [ends EXCEPT ![e].buffer = SubSeq(wire[e], 1, n)]
    /\ wire' = [wire EXCEPT ![e] = SubSeq(@, n + 1, Len(@))]
    /\ UNCHANGED <<calls, answers>>

\* Mutant: what the read leaves in the buffer is dropped.
Rest_Dropped(buffer, part) == <<>>

Rest(buffer, part) == SubSeq(buffer, part + 1, Len(buffer))

Read(e) ==
    /\ Reading(e) /\ ends[e].buffer # <<>>
    /\ LET message == ends[e].message
           buffer == ends[e].buffer
           part == Min({Wanted(message) - Len(message), Len(buffer)})
       IN ends' = [ends EXCEPT ![e].message = @ \o SubSeq(buffer, 1, part),
                               ![e].buffer = Rest(buffer, part)]
    /\ UNCHANGED <<wire, calls, answers>>

\* disconnected_error: the other end has closed its socket.  A send that finds it
\* closed may fail with EPIPE instead, a runtime_error, which ends the program of
\* this end.
Disconnected(e) ==
    /\ ends[Peer(e)].at = "gone"
    /\ \/ Reading(e) /\ ends[e].buffer = <<>> /\ wire[e] = <<>>
       \/ ends[e].at = "sends"
    /\ ends' = [ends EXCEPT ![e].at = "gone"]
    /\ UNCHANGED <<wire, calls, answers>>

\* The server leaves the loop; wait throws.
Refuse(e) ==
    /\ ends[e].at = "reads" /\ TooBig(e, ends[e].message)
    /\ ends' = [ends EXCEPT ![e].at = "gone"]
    /\ UNCHANGED <<wire, calls, answers>>

-----------------------------------------------------------------------------
(* Calls *)

Complete(e) ==
    /\ ends[e].at = "reads" /\ ~TooBig(e, ends[e].message)
    /\ Len(ends[e].message) = Wanted(ends[e].message)

\* process_message, which answers the call, with an error if a server_error was
\* thrown.
Process(size) ==
    /\ Complete("server")
    /\ LET response == Frame(ends["server"].message[Header + 1], size)
       IN /\ ends' = [ends EXCEPT !["server"].at = "sends", !["server"].late = FALSE,
                                  !["server"].out = response]
          /\ answers' = [answers EXCEPT !.sent = response]
    /\ UNCHANGED <<wire, calls>>

\* wait returns, or throws what the answer tells it to.
Return ==
    /\ Complete("client")
    /\ answers' = [answers EXCEPT !.read = ends["client"].message]
    /\ ends' = [ends EXCEPT !["client"].at = "idle", !["client"].message = <<>>]
    /\ UNCHANGED <<wire, calls>>

Leave ==
    /\ ends["client"].at = "idle"
    /\ ends' = [ends EXCEPT !["client"].at = "gone"]
    /\ UNCHANGED <<wire, calls, answers>>

Steps(e) ==
    \/ \E n \in 1..Len(ends[e].out) : Send(e, n)
    \/ \E n \in 1..Len(wire[e]) : Load(e, n)
    \/ Read(e) \/ Disconnected(e) \/ Refuse(e)
    \/ e = "server" /\ \E size \in MinBody..ServerBuffer - Header : Process(size)
    \/ e = "client" /\ Return

RpcNext ==
    \/ \E size \in MinBody..ClientBuffer - Header : Execute(size)
    \/ Leave
    \/ \E e \in Ends : Steps(e) \/ SendTimesOut(e)

\* The threads of both ends run; nobody has to call.
RpcSpec == RpcInit /\ [][RpcNext]_rpcVars /\ \A e \in Ends : WF_rpcVars(Steps(e))

-----------------------------------------------------------------------------
(* Properties *)

\* An answer is read as it was sent, and is that of the last call, however
\* requests and answers were cut into parts on the way (ping_client.cpp:34).
AnswersMatchCalls ==
    ends["client"].at = "idle" /\ calls > 0 =>
        answers.read = answers.sent /\ Last(answers.read) = calls

\* A call comes to an end, with its answer or, once the connection is gone, with
\* an exception: no end waits for bytes that are already in its buffer or that
\* nobody will send (rpc_server's loop, rpc_client::wait).
CallsEnd == ends["client"].at \in {"sends", "reads"} ~> ends["client"].at \in {"idle", "gone"}

=============================================================================
