------------------------------ MODULE Connect ------------------------------
(***************************************************************************)
(* How endpoints are connected: the clients of one server find it over     *)
(* TCP, both sides exchange the data of their queue pairs and move them to *)
(* RTS (src/src/tcp_sock_pre.cpp, RDMA_Session::new_endpoint,              *)
(* RDMA_Endpoint::connect).  The server is a daemon, whose one thread      *)
(* serves a client after the other, or accepts a single client.  Its       *)
(* session ends when a client has closed it, and its application then      *)
(* destroys the session, whatever the daemon's thread is doing.            *)
(*                                                                         *)
(* The data of a queue pair is one datum: the name of its endpoint.  A     *)
(* client's endpoint has the client's name, the server's endpoints are     *)
(* numbered as new_endpoint creates them.  A transfer that fails leaves    *)
(* the caller with whatever was in its memory: Garbage.                    *)
(***************************************************************************)
EXTENDS Naturals, Sequences, FiniteSets, Functions

CONSTANTS
    Clients,   \* the clients, each connects once
    Crashers,  \* the clients that may die, or whose queue pair may refuse INIT
    Garbage,   \* uninitialised connection data
    None       \* no client, no data yet

ASSUME CrashersAssumption == Crashers \subseteq Clients
ASSUME NamesAssumption == /\ Garbage \notin Clients \cup Nat \cup {None}
                          /\ None \notin Clients \cup Nat

VARIABLES
    listening,    \* the listening socket is open
    daemon_run,   \* daemon_run_
    woken,        \* close_daemon has raised an event on the listening socket
    backlog,      \* clients that TCP has connected and nobody accepted
    remote_sock,  \* remote_sock_ of the server: the client it leads to, or None
    spc,          \* the server's thread: "daemon" or "ptp" (not listening yet),
                  \* "listen", "wait", "accept", "create", "send", "recv", "qp",
                  \* "ended"; "crashed" with its process
    session,      \* the RDMA_Session of the server: "works", "ended", "destroyed"
    endpoints,    \* endpoint_list_ of the server: remote data and queue pair
    cpc,          \* cpc[c]: "connect", "recv", "send", "qp", "done", "crashed"
    client,       \* client[c]: the endpoint of c
    down, up,     \* data on its way to c, and from c
    closed        \* clients whose connection the server has closed

daemon == <<daemon_run, woken>>
server == <<listening, daemon, backlog, remote_sock, spc, session, endpoints>>
peers == <<cpc, client>>
tcp == <<down, up, closed>>
vars == <<server, peers, tcp>>

\* What the constructor of an endpoint leaves of it; the result of
\* modify_qp_to_init is not looked at.
NewEndpoint(qp) == [remote |-> None, qp |-> qp, connected |-> FALSE]

Init ==
    /\ listening = FALSE
    /\ daemon_run = FALSE
    /\ woken = FALSE
    /\ backlog = <<>>
    /\ remote_sock = None
    /\ spc \in {"daemon", "ptp"}
    /\ session = "works"
    /\ endpoints = <<>>
    /\ cpc = [c \in Clients |-> "connect"]
    /\ client = [c \in Clients |-> NewEndpoint("INIT")]
    /\ down = [c \in Clients |-> None]
    /\ up = [c \in Clients |-> None]
    /\ closed = {}

\* (mutation) connect() does not set connected_
NeverConnected(endpoint) == {[endpoint EXCEPT !.qp = "RTS"]}

\* The queue pair that connect() leaves behind: the results of modify_qp_to_rtr
\* and modify_qp_to_rts are not looked at.  Garbage may be refused by either, and
\* a queue pair that never left RESET can take neither step.
Connected(endpoint) ==
    {[remote |-> endpoint.remote, qp |-> q, connected |-> TRUE] :
        q \in IF endpoint.qp = "RESET" THEN {"RESET"}
              ELSE IF endpoint.remote = Garbage THEN {"INIT", "RTR", "RTS"}
              ELSE {"RTS"}}

-----------------------------------------------------------------------------
(* The server's thread. *)

Current == Len(endpoints)

\* sock_daemon_connect and sock_server_connect open the listening socket.
Listen ==
    /\ spc \in {"daemon", "ptp"}
    /\ listening' = TRUE
    /\ daemon_run' = (spc = "daemon")
    /\ spc' = IF spc = "daemon" THEN "wait" ELSE "listen"
    /\ UNCHANGED <<woken, backlog, remote_sock, session, endpoints, peers, tcp>>

\* One of their calls fails: the daemon's thread is over, a server in ptp mode
\* goes on with the socket -1.
ListenFails ==
    /\ spc \in {"daemon", "ptp"}
    /\ spc' = IF spc = "daemon" THEN "ended" ELSE "create"
    /\ UNCHANGED <<listening, daemon, backlog, remote_sock, session, endpoints, peers, tcp>>

\* The listening socket is closed, and with it what nobody has accepted.
CloseListener(others) ==
    /\ listening' = FALSE
    /\ closed' = closed \cup others
    /\ backlog' = <<>>

\* epoll_wait returns; a daemon that is to end closes its socket.
EpollWait ==
    /\ spc = "wait"
    /\ backlog # <<>> \/ woken
    /\ IF daemon_run
       THEN spc' = "accept" /\ UNCHANGED <<listening, backlog, closed>>
       ELSE spc' = "ended" /\ CloseListener(Range(backlog))
    /\ UNCHANGED <<daemon, remote_sock, session, endpoints, peers, down, up>>

\* epoll_wait fails: the thread returns and leaves the socket listening.
EpollFails ==
    /\ spc = "wait" /\ daemon_run
    /\ spc' = "ended"
    /\ UNCHANGED <<listening, daemon, backlog, remote_sock, session, endpoints, peers, tcp>>

\* (mutation) a thread of its own accepts, and shares remote_sock_
AcceptAnyTime ==
    /\ spc \in {"accept", "create", "send", "recv", "qp"} /\ listening /\ backlog # <<>>
    /\ remote_sock' = Head(backlog)
    /\ backlog' = Tail(backlog)
    /\ spc' = IF spc = "accept" THEN "create" ELSE spc
    /\ UNCHANGED <<listening, daemon, session, endpoints, peers, tcp>>

\* Every client in the backlog is served before the next epoll_wait.
Accept ==
    /\ spc = "accept" /\ backlog # <<>>
    /\ remote_sock' = Head(backlog)
    /\ backlog' = Tail(backlog)
    /\ spc' = "create"
    /\ UNCHANGED <<listening, daemon, session, endpoints, peers, tcp>>

AcceptNoMore ==
    /\ spc = "accept" /\ backlog = <<>>
    /\ spc' = "wait"
    /\ UNCHANGED <<listening, daemon, backlog, remote_sock, session, endpoints, peers, tcp>>

\* A server in ptp mode closes the listening socket and goes on with the socket
\* -1; a daemon goes back to epoll_wait.
AcceptFails ==
    /\ \/ spc = "listen" /\ spc' = "create" /\ CloseListener(Range(backlog))
       \/ /\ spc = "accept" /\ backlog # <<>>
          /\ spc' = "wait"
          /\ UNCHANGED <<listening, closed, backlog>>
    /\ UNCHANGED <<daemon, remote_sock, session, endpoints, peers, down, up>>

\* sock_server_connect: one client, and the listening socket is closed.
ServerConnect ==
    /\ spc = "listen" /\ backlog # <<>>
    /\ remote_sock' = Head(backlog)
    /\ CloseListener(Range(Tail(backlog)))
    /\ spc' = "create"
    /\ UNCHANGED <<daemon, session, endpoints, peers, down, up>>

\* (mutation) the server receives first, as its client does
CreateThenRecv ==
    /\ spc = "create"
    /\ endpoints' = Append(endpoints, NewEndpoint("INIT"))
    /\ spc' = IF remote_sock = None THEN "send" ELSE "recv"
    /\ UNCHANGED <<listening, daemon, backlog, remote_sock, session, peers, tcp>>

\* new_endpoint: the endpoint is in endpoint_list_ before it is connected.
Create ==
    /\ spc = "create"
    /\ \E qp \in {"INIT", "RESET"} : endpoints' = Append(endpoints, NewEndpoint(qp))
    /\ spc' = "send"
    /\ UNCHANGED <<listening, daemon, backlog, remote_sock, session, peers, tcp>>

Dead(c) == cpc[c] = "crashed"

\* remote_sock_ leads to nobody, or to a client that is gone.
NobodyThere == remote_sock # None => Dead(remote_sock)

\* The exchange is over with this datum, and the socket is closed.
ServerExchanged(data) ==
    /\ endpoints' = [endpoints EXCEPT ![Current].remote = data]
    /\ closed' = closed \cup ({remote_sock} \ {None})
    /\ spc' = "qp"

\* sock_sync_data with is_daemon: send, ...
ServerSend ==
    /\ spc = "send"
    /\ \/ /\ remote_sock # None
          /\ down' = [down EXCEPT ![remote_sock] = Current]
          /\ spc' = "recv"
          /\ UNCHANGED <<endpoints, closed>>
       \/ /\ NobodyThere
          /\ ServerExchanged(Garbage)
          /\ UNCHANGED down
    /\ UNCHANGED <<listening, daemon, backlog, remote_sock, session, peers, up>>

\* (mutation) recv goes on waiting for a connection that is gone
HearsUnlessDead == up[remote_sock] # None

\* recv returns with the data, or with none when the client is gone.
Hears == up[remote_sock] # None \/ Dead(remote_sock)

\* ... then receive.
ServerRecv ==
    /\ spc = "recv"
    /\ Hears
    /\ ServerExchanged(IF up[remote_sock] # None THEN up[remote_sock] ELSE Garbage)
    /\ UNCHANGED <<listening, daemon, backlog, remote_sock, session, peers, down, up>>

\* Only a daemon still listens.
ServerQP ==
    /\ spc = "qp"
    /\ \E endpoint \in Connected(endpoints[Current]) :
         endpoints' = [endpoints EXCEPT ![Current] = endpoint]
    /\ spc' = IF listening THEN "accept" ELSE "ended"
    /\ UNCHANGED <<listening, daemon, backlog, remote_sock, session, peers, tcp>>

\* The process of the server is gone, and with it all its sockets.
ServerDies ==
    /\ spc' = "crashed"
    /\ CloseListener(Range(backlog) \cup ({remote_sock} \ {None}))

\* ibv_create_qp or ibv_query_port fails: the constructor returns without a
\* channel, and get_local_con_data goes through its null pointer.
CreateFails ==
    /\ spc = "create"
    /\ ServerDies
    /\ UNCHANGED <<daemon, remote_sock, session, endpoints, peers, down, up>>

-----------------------------------------------------------------------------
(* The server's session. *)

\* c is connected to an endpoint of the server that is connected to c, and their
\* queue pairs are in one of these states.
Connection(c, states) == \E i \in 1..Len(endpoints) :
    \E p, q \in states :
        /\ client[c] = [remote |-> i, qp |-> p, connected |-> TRUE]
        /\ endpoints[i] = [remote |-> c, qp |-> q, connected |-> TRUE]

\* A peer closes the session and its completion thread returns, in a daemon
\* through close_daemon, which writes no bytes to the listening socket.  Whether
\* that ends an epoll_wait, does nothing or raises SIGPIPE, is up to the system.
SessionEnds ==
    /\ session = "works"
    /\ spc # "crashed"
    /\ \E c \in Clients : Connection(c, {"RTS"})
    /\ session' = "ended"
    /\ daemon_run' = FALSE
    /\ \/ /\ woken' \in {FALSE, daemon_run}
          /\ UNCHANGED <<spc, listening, backlog, closed>>
       \/ daemon_run /\ ServerDies /\ UNCHANGED woken
    /\ UNCHANGED <<remote_sock, endpoints, peers, down, up>>

\* After a bad completion the thread returns without close_daemon.
SessionFails ==
    /\ session = "works"
    /\ spc # "crashed"
    /\ \E i \in 1..Len(endpoints) : endpoints[i].connected /\ endpoints[i].remote \in Clients
    /\ session' = "ended"
    /\ UNCHANGED <<listening, daemon, backlog, remote_sock, spc, endpoints, peers, tcp>>

\* ~RDMA_Session joins the completion thread only.  The application of a daemon
\* runs beside the daemon's thread, that of a server in ptp mode is the thread
\* that connects.
DestroySession ==
    /\ session = "ended"
    /\ spc = "ended" \/ listening
    /\ session' = "destroyed"
    /\ UNCHANGED <<listening, daemon, backlog, remote_sock, spc, endpoints, peers, tcp>>

\* new_endpoint on freed memory may end the process.
UseAfterDestroy ==
    /\ session = "destroyed"
    /\ spc \in {"create", "qp"}
    /\ ServerDies
    /\ UNCHANGED <<daemon, remote_sock, session, endpoints, peers, down, up>>

-----------------------------------------------------------------------------
(* A client: ptp_connect, then new_endpoint. *)

Move(c, to) == cpc' = [cpc EXCEPT ![c] = to]

Learn(c, data) == client' = [client EXCEPT ![c].remote = data]

\* sock_client_connect, then the constructor of the endpoint; refused, the client
\* goes on with the socket -1.
ClientConnect(c) ==
    /\ cpc[c] = "connect"
    /\ \E qp \in IF c \in Crashers THEN {"INIT", "RESET"} ELSE {"INIT"} :
         IF listening
         THEN /\ backlog' = Append(backlog, c)
              /\ client' = [client EXCEPT ![c] = NewEndpoint(qp)]
              /\ Move(c, "recv")
         ELSE /\ client' = [client EXCEPT ![c] = [NewEndpoint(qp) EXCEPT !.remote = Garbage]]
              /\ Move(c, "qp")
              /\ UNCHANGED backlog
    /\ UNCHANGED <<listening, daemon, remote_sock, spc, session, endpoints, tcp>>

\* sock_sync_data without is_daemon: receive, ...
ClientRecv(c) ==
    /\ cpc[c] = "recv"
    /\ \/ /\ down[c] # None
          /\ Learn(c, down[c])
          /\ Move(c, "send")
       \/ /\ down[c] = None /\ c \in closed
          /\ Learn(c, Garbage)
          /\ Move(c, "qp")
    /\ UNCHANGED <<server, tcp>>

\* ... then send.
ClientSend(c) ==
    /\ cpc[c] = "send"
    /\ up' = [up EXCEPT ![c] = c]
    /\ Move(c, "qp")
    /\ UNCHANGED <<server, client, down, closed>>

ClientQP(c) ==
    /\ cpc[c] = "qp"
    /\ \E endpoint \in Connected(client[c]) :
         client' = [client EXCEPT ![c] = endpoint]
    /\ Move(c, "done")
    /\ UNCHANGED <<server, tcp>>

\* A client dies, in the constructor of its endpoint for one.
Crash(c) ==
    /\ c \in Crashers
    /\ cpc[c] \in {"connect", "recv", "send"}
    /\ Move(c, "crashed")
    /\ UNCHANGED <<server, client, tcp>>

-----------------------------------------------------------------------------

Server == \/ Listen
          \/ ListenFails
          \/ EpollWait
          \/ Accept
          \/ AcceptNoMore
          \/ ServerConnect
          \/ Create
          \/ ServerSend
          \/ ServerRecv
          \/ ServerQP

Client(c) == \/ ClientConnect(c)
             \/ ClientRecv(c)
             \/ ClientSend(c)
             \/ ClientQP(c)

Next == \/ Server
        \/ EpollFails
        \/ AcceptFails
        \/ CreateFails
        \/ SessionEnds
        \/ SessionFails
        \/ DestroySession
        \/ UseAfterDestroy
        \/ \E c \in Clients : Client(c) \/ Crash(c)

Spec == Init /\ [][Next]_vars

\* The threads run when they can; nobody need crash or close, no call need fail,
\* and the accept of a client that epoll_wait reports again and again does not
\* always fail.
FairSpec == /\ Spec
            /\ WF_vars(Server) /\ SF_vars(Accept)
            /\ \A c \in Clients : WF_vars(Client(c))

-----------------------------------------------------------------------------
(* Properties. *)

Endpoint(remotes) == [remote : remotes \cup {Garbage, None},
                      qp : {"RESET", "INIT", "RTR", "RTS"}, connected : BOOLEAN]

\* Every variable has its type, and an endpoint that has its data and is not
\* connected belongs to a thread that is about to connect it.
TypeOK ==
    /\ listening \in BOOLEAN
    /\ daemon_run \in BOOLEAN
    /\ woken \in BOOLEAN
    /\ backlog \in Seq(Clients)
    /\ remote_sock \in Clients \cup {None}
    /\ spc \in {"daemon", "ptp", "listen", "wait", "accept", "create", "send", "recv",
               "qp", "ended", "crashed"}
    /\ session \in {"works", "ended", "destroyed"}
    /\ endpoints \in Seq(Endpoint(Clients))
    /\ cpc \in [Clients -> {"connect", "recv", "send", "qp", "done", "crashed"}]
    /\ client \in [Clients -> Endpoint(1..Len(endpoints))]
    /\ down \in [Clients -> 1..Len(endpoints) \cup {None}]
    /\ up \in [Clients -> Clients \cup {None}]
    /\ closed \subseteq Clients
    /\ \A i \in 1..Len(endpoints) :
         endpoints[i].remote # None /\ ~endpoints[i].connected =>
           spc \in {"qp", "crashed"} /\ i = Current

\* Two endpoints that have each learnt a peer have learnt each other: with all
\* clients sharing remote_sock_, none gets the data meant for another.
Agreement == \A i \in 1..Len(endpoints) : \A c \in Clients :
    /\ endpoints[i].remote = c => client[c].remote = i \/ Dead(c)
    /\ client[c].remote = i => endpoints[i].remote \in {c, None, Garbage}
    /\ client[c].remote = i /\ endpoints[i].remote = Garbage => Dead(c)

\* The server's session, or its process, is on its way to the end.
ServerEnds == session # "works" \/ spc \in {"ended", "crashed"}

\* The exchange with c has succeeded, and so has every step of a queue pair that
\* was set to INIT.
Served(c) == Connection(c, {"RTS", "RESET"})

\* A client the server has accepted is served in the end, in both modes and with
\* whatever becomes of the session: the exchange, one side sending first and the
\* other receiving first, does not deadlock.
AcceptedClientServed == \A c \in Clients :
    remote_sock = c ~> Served(c) \/ Dead(c) \/ spc = "crashed"

\* Every client of a daemon that TCP has connected is served in the end, unless
\* the daemon ends: a client that dies in the exchange does not stop it for the
\* others.
EveryClientServed == \A c \in Clients :
    daemon_run /\ c \in Range(backlog) ~> Served(c) \/ Dead(c) \/ ServerEnds

\* The session a callback connects an endpoint for is there until the callback
\* has returned.
SessionOutlivesCallback ==
    spc \in {"create", "send", "recv", "qp"} => session # "destroyed"

=============================================================================
