------------------------------- MODULE MCCalls -------------------------------
(* A connection for calls, which knows nothing of what it carries; what the calls
   of a client to db_server carry, a fetch or an update; what the server makes of
   the updates of several clients; a connection for http; the connections of a
   server and its end.  One of them is chosen at first, and the others rest. *)
EXTENDS Rpc, Fetch, Update, DbServer, Http, Server

VARIABLE part

callsVars == <<part, rpcVars, fetchVars, updateVars, dbVars, httpVars, serverVars>>

\* From the smallest buffer for a byte of a value to one for all the entries.
UpdateBuffers == 63..150

Line(text, size) == [i \in 1..size |-> text] \o EmptyLine

\* Requests that are short, that fill a buffer of 9, with a line feed in a
\* line; malformed ones; ones whose line fills the buffer, or is longer.
HttpRequests ==
    {<<Line("request", 1), EmptyLine>>,
     <<Line("request", 1), Line("header", 1), EmptyLine>>,
     <<Line("request", 1), <<"header", LF, CR, LF>>, EmptyLine>>,
     <<Line("request", 1), <<"header", CR, "header", CR, LF>>, EmptyLine>>,
     <<Line("header", 1), EmptyLine>>,
     <<EmptyLine>>,
     <<Line("request", 7), EmptyLine>>,
     <<Line("request", 11), EmptyLine>>}

FetchRests ==
    /\ iterator = <<>> /\ value_part = <<>> /\ readers = FALSE /\ answer = NoAnswer
    /\ client = [at |-> "stopped", key |-> 0, value |-> <<>>, complete |-> <<>>]
    /\ expected = <<>>

UpdateRests ==
    /\ sender = [at |-> "stopped"] /\ message = NoMessage
    /\ open_writers = <<>> /\ committed_slices = EmptySlices

CallsInit ==
    /\ RpcInit /\ DbInit /\ HttpInit /\ ServerInit
    /\ \/ part \in {"rpc", "db", "http", "server"} /\ FetchRests /\ UpdateRests
       \/ part = "fetch" /\ FetchInit /\ UpdateRests
       \/ part = "update" /\ FetchRests /\ UpdateInit

CallsNext ==
    /\ UNCHANGED part
    /\ \/ part = "rpc" /\ RpcNext /\ UNCHANGED <<fetchVars, updateVars, dbVars, httpVars, serverVars>>
       \/ part = "fetch" /\ FetchNext /\ UNCHANGED <<rpcVars, updateVars, dbVars, httpVars, serverVars>>
       \/ part = "update" /\ UpdateNext /\ UNCHANGED <<rpcVars, fetchVars, dbVars, httpVars, serverVars>>
       \/ part = "db" /\ DbNext /\ UNCHANGED <<rpcVars, fetchVars, updateVars, httpVars, serverVars>>
       \/ part = "http" /\ HttpNext /\ UNCHANGED <<rpcVars, fetchVars, updateVars, dbVars, serverVars>>
       \/ part = "server" /\ ServerNext /\ UNCHANGED <<rpcVars, fetchVars, updateVars, dbVars, httpVars>>

\* The fairness of RpcSpec, of FetchSpec, of DbSpec and of ServerSpec.
CallsSpec ==
    /\ CallsInit /\ [][CallsNext]_callsVars
    /\ \A e \in Ends : WF_rpcVars(part = "rpc" /\ Steps(e))
    /\ \A first \in BOOLEAN : WF_fetchVars(part = "fetch" /\ fetch_data(first))
    /\ WF_fetchVars(part = "fetch" /\ TakeAnswer)
    /\ \A c \in Clients :
          /\ WF_dbVars(part = "db" /\ Goes(c))
          /\ WF_dbVars(part = "db" /\ Completes(c))
          /\ WF_dbVars(part = "db" /\ commit_update(c))
    /\ \A u \in Ushards :
          WF_dbVars(part = "db" /\ MergeStart(u)) /\ WF_dbVars(part = "db" /\ MergeEnd(u))
    /\ WF_serverVars(part = "server" /\ ~aborted /\ (CreateWorker \/ EndAccepting))
    /\ \A c \in Connections : WF_serverVars(part = "server" /\ ~aborted /\ ServerStep(c))
=============================================================================
