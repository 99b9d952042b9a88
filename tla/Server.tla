-------------------------------- MODULE Server --------------------------------
(***************************************************************************)
(* rpc_server (and http_server, which is the same here): server_thread     *)
(* accepts connections and creates a worker thread for each, and           *)
(* terminate, called by some other thread, shuts down the listening socket *)
(* and the sockets of the workers that have entered themselves in          *)
(* m_remotes.  What is on a connection is in Rpc.                          *)
(***************************************************************************)
EXTENDS FiniteSets

CONSTANTS
    Connections,        \* connections that clients may make
    NoConnection

ASSUME NoConnectionAssumption == NoConnection \notin Connections

VARIABLES
    m_channel,          \* the listening socket: "open", "shut", or "reset" at last
    server_thread,      \* "accepts" or "ended", and the connection that it got
    worker_thread,      \* of each connection
    m_remotes,
    shut_down,          \* connections that terminate has shut down
    peers,              \* the client of each connection: "away", "there" or "left"
    asked,              \* connections with a request that is not read yet
    aborted,            \* an exception that nobody catches has ended the program
    open_then           \* ghost: m_remotes as it should be when terminate is called

serverVars == <<m_channel, server_thread, worker_thread, m_remotes, shut_down, peers, asked,
                aborted, open_then>>

ServerInit ==
    /\ m_channel = "open"
    /\ server_thread = [at |-> "accepts", got |-> NoConnection]
    /\ worker_thread = [c \in Connections |-> "none"]
    /\ m_remotes = {} /\ shut_down = {}
    /\ peers = [c \in Connections |-> "away"]
    /\ asked = {}
    /\ aborted = FALSE
    /\ open_then = {}

Open == {c \in Connections : worker_thread[c] \in {"reads", "serves"}}

-----------------------------------------------------------------------------
(* Clients and kernel *)

Connect(c) ==
    /\ m_channel = "open" /\ peers[c] = "away"
    /\ peers' = [peers EXCEPT ![c] = "there"]
    /\ UNCHANGED <<m_channel, server_thread, worker_thread, m_remotes, shut_down, asked, aborted,
                   open_then>>

AskServer(c) ==
    /\ peers[c] = "there" /\ c \notin asked \cup shut_down
    /\ asked' = asked \cup {c}
    /\ UNCHANGED <<m_channel, server_thread, worker_thread, m_remotes, shut_down, peers, aborted,
                   open_then>>

Depart(c) ==
    /\ peers[c] = "there"
    /\ peers' = [peers EXCEPT ![c] = "left"]
    /\ UNCHANGED <<m_channel, server_thread, worker_thread, m_remotes, shut_down, asked, aborted,
                   open_then>>

\* The accept request completes; server_thread runs later.
Accepted(c) ==
    /\ m_channel = "open" /\ server_thread = [at |-> "accepts", got |-> NoConnection]
    /\ peers[c] # "away" /\ worker_thread[c] = "none"
    /\ server_thread' = [server_thread EXCEPT !.got = c]
    /\ UNCHANGED <<m_channel, worker_thread, m_remotes, shut_down, peers, asked, aborted, open_then>>

-----------------------------------------------------------------------------
(* The server *)

\* The loop of server_thread: a thread for the connection, or the end after
\* disconnected_error.
CreateWorker ==
    /\ server_thread.got # NoConnection
    /\ worker_thread' = [worker_thread EXCEPT ![server_thread.got] = "created"]
    /\ server_thread' = [server_thread EXCEPT !.got = NoConnection]
    /\ UNCHANGED <<m_channel, m_remotes, shut_down, peers, asked, aborted, open_then>>

EndAccepting ==
    /\ m_channel = "shut" /\ server_thread.got = NoConnection
    /\ server_thread' = [server_thread EXCEPT !.at = "ended"]
    /\ m_channel' = "reset"
    /\ UNCHANGED <<worker_thread, m_remotes, shut_down, peers, asked, aborted, open_then>>

\* The thread runs for the first time.
StartWorker(c) ==
    /\ worker_thread[c] = "created"
    /\ m_remotes' = m_remotes \cup {c}
    /\ worker_thread' = [worker_thread EXCEPT ![c] = "reads"]
    /\ UNCHANGED <<m_channel, server_thread, shut_down, peers, asked, aborted, open_then>>

\* A request has come, and process_message runs, which may yield.
ReadRequest(c) ==
    /\ worker_thread[c] = "reads" /\ c \in asked
    /\ asked' = asked \ {c}
    /\ worker_thread' = [worker_thread EXCEPT ![c] = "serves"]
    /\ UNCHANGED <<m_channel, server_thread, m_remotes, shut_down, peers, aborted, open_then>>

Closed(c) == c \in shut_down \/ peers[c] = "left"

AnswerPeer(c) ==
    /\ worker_thread[c] = "serves" /\ c \notin shut_down
    /\ worker_thread' = [worker_thread EXCEPT ![c] = "reads"]
    /\ UNCHANGED <<m_channel, server_thread, m_remotes, shut_down, peers, asked, aborted, open_then>>

\* disconnected_error: out of a recv, or out of a send when the client has reset
\* the connection.
EndWorker(c) ==
    /\ \/ worker_thread[c] = "reads" /\ c \notin asked /\ Closed(c)
       \/ worker_thread[c] = "serves" /\ peers[c] = "left"
    /\ worker_thread' = [worker_thread EXCEPT ![c] = "ended"]
    /\ m_remotes' = m_remotes \ {c}
    /\ UNCHANGED <<m_channel, server_thread, shut_down, peers, asked, aborted, open_then>>

\* A send on a socket that is shut down, or whose other end is closed, fails with
\* EPIPE.  For channel::send that is a runtime_error, which nothing catches.
SendFails(c) ==
    /\ worker_thread[c] = "serves" /\ Closed(c)
    /\ aborted' = TRUE
    /\ UNCHANGED <<m_channel, server_thread, worker_thread, m_remotes, shut_down, peers, asked,
                   open_then>>

\* Mutant: the connections are left alone.
Disconnect_None(remotes) == {}

\* remote->disconnect() for all of m_remotes.
Disconnect(remotes) == remotes

\* Called once: the second call would find m_channel gone.
terminate ==
    /\ m_channel = "open"
    /\ m_channel' = "shut"
    /\ shut_down' = Disconnect(m_remotes)
    /\ open_then' = Open
    /\ UNCHANGED <<server_thread, worker_thread, m_remotes, peers, asked, aborted>>

ServerStep(c) ==
    StartWorker(c) \/ ReadRequest(c) \/ AnswerPeer(c) \/ EndWorker(c) \/ SendFails(c)

ServerNext ==
    /\ ~aborted
    /\ \/ \E c \in Connections :
             Connect(c) \/ AskServer(c) \/ Depart(c) \/ Accepted(c) \/ ServerStep(c)
       \/ CreateWorker \/ EndAccepting \/ terminate

\* The threads of the server run; no client has to do anything.
ServerSpec ==
    /\ ServerInit /\ [][ServerNext]_serverVars
    /\ WF_serverVars(~aborted /\ (CreateWorker \/ EndAccepting))
    /\ \A c \in Connections : WF_serverVars(~aborted /\ ServerStep(c))

-----------------------------------------------------------------------------
(* Properties *)

\* terminate ends server_thread and every worker that has started by then,
\* whatever the clients do, so that gt::run can return (server_test.cpp:146).
\* Two cases are excepted, for which the code has nothing: a worker whose thread
\* has not run yet is not in m_remotes, and stays until its client leaves; and one
\* that is in process_message ends the program when it sends.
TerminateEndsServer ==
    m_channel = "shut" ~>
        \/ aborted
        \/ server_thread.at = "ended" /\ \A c \in open_then : worker_thread[c] = "ended"
=============================================================================
