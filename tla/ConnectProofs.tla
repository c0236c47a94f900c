--------------------------- MODULE ConnectProofs ---------------------------
(***************************************************************************)
(* Theorems about Connect: its types, and that two endpoints which have    *)
(* each learnt a peer have learnt each other, for any number of clients.   *)
(***************************************************************************)
EXTENDS Connect, SequenceLemmas, TLAPS

\* The server's thread has an endpoint while it exchanges data for it.
AtEndpoint ==
    /\ spc \in {"send", "recv", "qp"} => Current > 0
    /\ spc \in {"send", "recv"} => endpoints[Current].remote = None
    /\ spc \in {"daemon", "ptp", "listen"} => remote_sock = None
    /\ spc = "recv" => remote_sock # None

TypeInv == TypeOK /\ AtEndpoint

\* A client that nobody has accepted is known to nobody, and is in the backlog
\* at most once.
Unaccepted ==
    /\ Distinct(backlog)
    /\ \A c \in Clients : cpc[c] = "connect" \/ c \in Range(backlog) =>
         remote_sock # c /\ down[c] = None
    /\ \A c \in Clients : cpc[c] = "connect" => c \notin Range(backlog)
    /\ spc \in {"create", "send"} /\ remote_sock # None => down[remote_sock] = None

\* What is sent to a client is the number of one endpoint, which is its own.
Sent ==
    /\ \A c, d \in Clients : down[c] = down[d] /\ down[c] # None => c = d
    /\ spc = "send" => \A c \in Clients : down[c] # Current
    /\ spc = "recv" => down[remote_sock] = Current

\* What a client knows is what was sent to it, and it answers with its own name.
Answered == \A c \in Clients :
    /\ cpc[c] \in {"connect", "recv"} => up[c] = None
    /\ cpc[c] = "send" => client[c].remote = down[c] /\ down[c] # None
    /\ client[c].remote \in {None, Garbage, down[c]}
    /\ up[c] # None => up[c] = c /\ client[c].remote = down[c] /\ down[c] # None

\* What an endpoint knows is the answer of the client it was sent to.
Learnt == \A i \in 1..Len(endpoints) : \A c \in Clients :
    /\ endpoints[i].remote = c => down[c] = i /\ up[c] = c
    /\ endpoints[i].remote = Garbage /\ down[c] = i => Dead(c)

Inv == TypeInv /\ Unaccepted /\ Sent /\ Answered /\ Learnt

-----------------------------------------------------------------------------
(* Types. *)

\* What connect() leaves of an endpoint.
LEMMA ConnectedType ==
    ASSUME NEW R, NEW e \in Endpoint(R), NEW f \in Connected(e)
    PROVE  f \in Endpoint(R) /\ f.remote = e.remote /\ f.connected
<1>1. PICK q \in {"RESET", "INIT", "RTR", "RTS"} :
        f = [remote |-> e.remote, qp |-> q, connected |-> TRUE]
  BY DEF Connected
<1>2. e.remote \in R \cup {Garbage, None}
  BY DEF Endpoint
<1> QED  BY <1>1, <1>2 DEF Endpoint

\* What the constructor leaves of an endpoint.
LEMMA NewEndpointType ==
    ASSUME NEW R, NEW qp \in {"INIT", "RESET"}
    PROVE  /\ NewEndpoint(qp) \in Endpoint(R) /\ NewEndpoint(qp).remote = None
           /\ ~NewEndpoint(qp).connected
BY DEF NewEndpoint, Endpoint

LEMMA TypeInit == Init => TypeInv
<1> SUFFICES ASSUME Init PROVE TypeInv  OBVIOUS
<1>1. <<>> \in Seq(Clients) /\ <<>> \in Seq(Endpoint(Clients)) /\ Len(<<>>) = 0
  BY EmptySeq
<1>2. NewEndpoint("INIT") \in Endpoint(1..Len(endpoints))
  BY NewEndpointType
<1>3. /\ listening \in BOOLEAN /\ daemon_run \in BOOLEAN /\ woken \in BOOLEAN
      /\ backlog \in Seq(Clients)
      /\ remote_sock = None
      /\ spc \in {"daemon", "ptp"}
      /\ session \in {"works", "ended", "destroyed"}
      /\ endpoints \in Seq(Endpoint(Clients)) /\ Len(endpoints) = 0
      /\ closed \subseteq Clients
  BY <1>1 DEF Init
<1>4. /\ cpc \in [Clients -> {"connect", "recv", "send", "qp", "done", "crashed"}]
      /\ client \in [Clients -> Endpoint(1..Len(endpoints))]
      /\ down \in [Clients -> 1..Len(endpoints) \cup {None}]
      /\ up \in [Clients -> Clients \cup {None}]
  BY <1>2 DEF Init
<1> QED  BY <1>3, <1>4 DEF TypeInv, TypeOK, AtEndpoint

LEMMA TypeStep == TypeInv /\ [Next]_vars => TypeInv'
<1> SUFFICES ASSUME TypeInv, [Next]_vars PROVE TypeInv'  OBVIOUS
<1>0. /\ backlog \in Seq(Clients)
      /\ endpoints \in Seq(Endpoint(Clients))
      /\ Len(endpoints) \in Nat
  BY LenProperties DEF TypeInv, TypeOK
<1> USE DEF TypeInv, TypeOK, AtEndpoint, Current
<1> USE DEF daemon, server, peers, tcp
<1>1. CASE Listen
  <2>1. daemon_run' \in BOOLEAN  BY <1>1, Zenon DEF Listen
  <2>2. /\ listening' = TRUE
        /\ spc \in {"daemon", "ptp"} /\ spc' \in {"wait", "listen"}
        /\ UNCHANGED <<woken, backlog, remote_sock, session, endpoints, peers, tcp>>
    BY <1>1 DEF Listen
  <2>3. listening' \in BOOLEAN /\ woken' \in BOOLEAN  BY <2>2
  <2> QED  BY <2>1, <2>2, <2>3
<1>2. CASE ListenFails    BY <1>2 DEF ListenFails
<1>3. CASE EpollWait
  <2>1. Range(backlog) \subseteq Clients
    BY <1>0, LenProperties DEF Range
  <2>2. /\ spc = "wait" /\ spc' \in {"accept", "ended"}
        /\ listening' \in BOOLEAN /\ daemon_run' \in BOOLEAN /\ woken' \in BOOLEAN
        /\ closed' \subseteq Clients
        /\ backlog' = backlog \/ backlog' = <<>>
        /\ UNCHANGED <<remote_sock, session, endpoints, peers, down, up>>
    BY <1>3, <2>1 DEF EpollWait, CloseListener
  <2> QED  BY <1>0, <2>2, EmptySeq
<1>4. CASE EpollFails     BY <1>4 DEF EpollFails
<1>5. CASE Accept
  BY <1>0, <1>5, HeadTailProperties DEF Accept
<1>6. CASE AcceptNoMore   BY <1>6 DEF AcceptNoMore
<1>20. CASE AcceptFails
  <2>1. Range(backlog) \subseteq Clients
    BY <1>0, LenProperties DEF Range
  <2>2. /\ UNCHANGED <<remote_sock, session, endpoints, cpc, client, down, up,
                      daemon_run, woken>>
        /\ spc' \in {"create", "wait"}
        /\ listening' \in BOOLEAN /\ closed' \subseteq Clients
        /\ backlog' = backlog \/ backlog' = <<>>
    BY <1>20, <2>1 DEF AcceptFails, CloseListener
  <2>3. backlog' \in Seq(Clients)  BY <1>0, <2>2, EmptySeq
  <2>4. spc \in {"listen", "accept"}  BY <1>20 DEF AcceptFails
  <2> QED  BY <2>2, <2>3, <2>4
<1>7. CASE ServerConnect
  <2>1. Range(Tail(backlog)) \subseteq Clients /\ Head(backlog) \in Clients
    BY <1>0, <1>7, HeadTailProperties, LenProperties DEF ServerConnect, Range
  <2> QED  BY <1>7, <2>1, EmptySeq DEF ServerConnect, CloseListener
<1>8. CASE Create
  <2>0. PICK qp \in {"INIT", "RESET"} : endpoints' = Append(endpoints, NewEndpoint(qp))
    BY <1>8 DEF Create
  <2>1. NewEndpoint(qp) \in Endpoint(Clients) /\ NewEndpoint(qp).remote = None
    BY NewEndpointType
  <2>2. /\ endpoints' \in Seq(Endpoint(Clients)) /\ Len(endpoints') = Len(endpoints) + 1
        /\ \A i \in 1..Len(endpoints) : endpoints'[i] = endpoints[i]
        /\ endpoints'[Len(endpoints')].remote = None
    BY <1>0, <2>0, <2>1, AppendProperties
  <2>3. /\ client' \in [Clients -> Endpoint(1..Len(endpoints'))]
        /\ down' \in [Clients -> 1..Len(endpoints') \cup {None}]
    BY <1>0, <1>8, <2>2 DEF Create, Endpoint
  <2> QED  BY <1>0, <1>8, <2>2, <2>3 DEF Create
<1>9. ASSUME NEW data \in Clients \cup {Garbage}, ServerExchanged(data),
             spc \in {"send", "recv"}, UNCHANGED <<down, up>>,
             UNCHANGED <<listening, daemon, backlog, remote_sock, session, peers>>
      PROVE  TypeInv'
  <2>1. /\ endpoints[Current] \in Endpoint(Clients)
        /\ Current \in 1..Len(endpoints)
    BY <1>0, <1>9, ElementOfSeq
  <2>2. [endpoints[Current] EXCEPT !.remote = data] \in Endpoint(Clients)
    BY <2>1 DEF Endpoint
  <2>3. /\ endpoints' \in Seq(Endpoint(Clients)) /\ Len(endpoints') = Len(endpoints)
        /\ \A i \in 1..Len(endpoints) : i # Current => endpoints'[i] = endpoints[i]
    <3> DEFINE e == [endpoints[Current] EXCEPT !.remote = data]
    <3>1. endpoints' = [endpoints EXCEPT ![Current] = e]
      BY <1>9 DEF ServerExchanged
    <3> HIDE DEF e
    <3> QED  BY <1>0, <2>1, <2>2, <3>1, ExceptSeq DEF e
  <2>4. /\ closed' \subseteq Clients
        /\ spc' = "qp"
    BY <1>9 DEF ServerExchanged
  <2> QED  BY <1>0, <1>9, <2>1, <2>3, <2>4
<1>10. CASE ServerSend
  <2>1. CASE UNCHANGED endpoints
    BY <1>0, <1>10, <2>1 DEF ServerSend, ServerExchanged
  <2>2. CASE ServerExchanged(Garbage) /\ UNCHANGED down
    BY <1>9, <1>10, <2>2 DEF ServerSend
  <2> QED  BY <1>10, <2>1, <2>2 DEF ServerSend
<1>11. CASE ServerRecv
  <2> DEFINE data == IF up[remote_sock] # None THEN up[remote_sock] ELSE Garbage
  <2>1. data \in Clients \cup {Garbage}  BY <1>11 DEF ServerRecv
  <2> QED  BY <1>9, <1>11, <2>1 DEF ServerRecv
<1>12. CASE ServerQP
  <2>1. PICK f \in Connected(endpoints[Current]) :
          endpoints' = [endpoints EXCEPT ![Current] = f]
    BY <1>12 DEF ServerQP
  <2>2. /\ endpoints[Current] \in Endpoint(Clients)
        /\ Current \in 1..Len(endpoints)
    BY <1>0, <1>12, ElementOfSeq DEF ServerQP
  <2>3. f \in Endpoint(Clients) /\ f.connected
    BY <2>2, ConnectedType
  <2>4. /\ endpoints' \in Seq(Endpoint(Clients)) /\ Len(endpoints') = Len(endpoints)
        /\ \A i \in 1..Len(endpoints) :
              endpoints'[i] = IF i = Current THEN f ELSE endpoints[i]
    BY <1>0, <2>1, <2>2, <2>3, ExceptSeq
  <2> QED  BY <1>0, <1>12, <2>2, <2>3, <2>4 DEF ServerQP
<1>13. ASSUME ServerDies, UNCHANGED <<remote_sock, endpoints, peers, down, up>>,
              daemon_run' \in BOOLEAN, woken' \in BOOLEAN,
              session' \in {"works", "ended", "destroyed"}
       PROVE  TypeInv'
  <2>1. Range(backlog) \subseteq Clients
    BY <1>0, LenProperties DEF Range
  <2>2. /\ listening' = FALSE /\ spc' = "crashed" /\ backlog' = <<>>
        /\ closed' \subseteq Clients
    BY <1>13, <2>1 DEF ServerDies, CloseListener
  <2> QED  BY <1>13, <2>2, EmptySeq
<1>14. CASE SessionEnds
  <2>1. /\ UNCHANGED <<remote_sock, endpoints, peers, down, up>>
        /\ daemon_run' = FALSE /\ session' = "ended"
        /\ woken' \in BOOLEAN
        /\ UNCHANGED <<spc, listening, backlog, closed>> \/ ServerDies
    BY <1>14 DEF SessionEnds
  <2> QED  BY <1>13, <2>1
<1>15. CASE SessionFails    BY <1>15 DEF SessionFails
<1>16. CASE DestroySession  BY <1>16 DEF DestroySession
<1>17. CASE UseAfterDestroy \/ CreateFails
  BY <1>13, <1>17 DEF UseAfterDestroy, CreateFails
<1>19. ASSUME NEW c \in Clients, Client(c) \/ Crash(c)
       PROVE  TypeInv'
  <2>1. /\ UNCHANGED <<listening, daemon, remote_sock, spc, session, endpoints, down, closed>>
        /\ backlog' = backlog \/ backlog' = Append(backlog, c)
        /\ cpc' \in [Clients -> {"connect", "recv", "send", "qp", "done", "crashed"}]
        /\ up' \in [Clients -> Clients \cup {None}]
    BY <1>19 DEF Client, ClientConnect, ClientRecv, ClientSend, ClientQP, Crash, Move
  <2>2. client' \in [Clients -> Endpoint(1..Len(endpoints))]
    <3>1. CASE UNCHANGED client  BY <3>1
    <3>2. ASSUME NEW data \in 1..Len(endpoints) \cup {Garbage}, Learn(c, data)
          PROVE  client' \in [Clients -> Endpoint(1..Len(endpoints))]
      <4>1. [client[c] EXCEPT !.remote = data] \in Endpoint(1..Len(endpoints))
        BY <3>2 DEF Endpoint
      <4> QED  BY <3>2, <4>1 DEF Learn
    <3>3. CASE ClientQP(c)
      BY <3>3, ConnectedType DEF ClientQP
    <3>4. CASE ClientConnect(c)
      <4>1. PICK qp \in {"INIT", "RESET"}, remote \in {None, Garbage} :
              client' = [client EXCEPT ![c] = [NewEndpoint(qp) EXCEPT !.remote = remote]]
        BY <3>4 DEF ClientConnect, NewEndpoint
      <4>2. [NewEndpoint(qp) EXCEPT !.remote = remote] \in Endpoint(1..Len(endpoints))
        BY DEF NewEndpoint, Endpoint
      <4> QED  BY <4>1, <4>2
    <3> QED
      BY <1>19, <3>1, <3>2, <3>3, <3>4 DEF Client, ClientRecv, ClientSend, Crash
  <2>3. backlog' \in Seq(Clients)
    <3>1. Append(backlog, c) \in Seq(Clients)  BY <1>0, AppendProperties
    <3>2. backlog' = backlog \/ backlog' = Append(backlog, c)  BY <2>1
    <3> QED  BY <1>0, <3>1, <3>2, Zenon
  <2>4. listening' \in BOOLEAN /\ daemon_run' \in BOOLEAN /\ woken' \in BOOLEAN
    BY <2>1
  <2>5. UNCHANGED <<remote_sock, spc, session, endpoints, down, closed>>
    BY <2>1
  <2>6. cpc' \in [Clients -> {"connect", "recv", "send", "qp", "done", "crashed"}]
    BY <2>1
  <2>7. up' \in [Clients -> Clients \cup {None}]
    BY <2>1
  <2> QED  BY <2>2, <2>3, <2>4, <2>5, <2>6, <2>7
<1>18. CASE UNCHANGED vars  BY <1>18 DEF vars
<1> QED
  BY <1>1, <1>2, <1>3, <1>4, <1>5, <1>6, <1>7, <1>8, <1>10, <1>11, <1>12, <1>14, <1>15,
     <1>16, <1>17, <1>18, <1>19, <1>20 DEF Next, Server

\* Every variable has its type, and no endpoint is left between its exchange and
\* its connect().
THEOREM TypeCorrect == Spec => []TypeOK
<1>1. TypeInv => TypeOK  BY DEF TypeInv
<1> QED  BY TypeInit, TypeStep, <1>1, PTL DEF Spec

-----------------------------------------------------------------------------
(* Agreement. *)

LEMMA InvInit == Init => Inv
<1> SUFFICES ASSUME Init PROVE Inv  OBVIOUS
<1>1. Len(backlog) = 0 /\ Range(backlog) = {} /\ Len(endpoints) = 0
  BY DEF Init, Range
<1>2. Unaccepted
  BY <1>1, NamesAssumption DEF Init, Unaccepted, Distinct
<1>3. Sent /\ Answered /\ Learnt
  BY <1>1 DEF Init, Sent, Answered, Learnt, NewEndpoint
<1> QED  BY TypeInit, <1>2, <1>3 DEF Inv

\* A step that changes none of the names, may empty the backlog, and starts no
\* exchange.
LEMMA Quiet ==
    ASSUME Inv, TypeInv', UNCHANGED <<remote_sock, up, down>>,
           Len(endpoints') = Len(endpoints),
           \A i \in 1..Len(endpoints) : endpoints'[i].remote = endpoints[i].remote,
           \A c \in Clients : client'[c].remote = client[c].remote,
           backlog' = backlog \/ backlog' = <<>>,
           spc' \in {"create", "send", "recv"} =>
             spc' = spc \/ (spc' = "create" /\ remote_sock = None),
           \A c \in Clients : \/ cpc'[c] = cpc[c]
                              \/ cpc'[c] \in {"done", "crashed"} /\ ~Dead(c)
    PROVE  Inv'
<1>1. backlog' = <<>> => Range(backlog') = {} /\ Distinct(backlog')
  BY DEF Range, Distinct
<1>2. Unaccepted'
  <2>1. Distinct(backlog') /\ Range(backlog') \subseteq Range(backlog)
    BY <1>1 DEF Inv, Unaccepted
  <2>2. \A c \in Clients : cpc'[c] = "connect" => cpc[c] = "connect"
    OBVIOUS
  <2> QED  BY <2>1, <2>2 DEF Inv, Unaccepted
<1>3. Sent'      BY DEF Inv, Sent, Current
<1>4. Answered'  BY DEF Inv, Answered
<1>5. Learnt'    BY DEF Inv, Learnt, Dead
<1> QED  BY <1>2, <1>3, <1>4, <1>5 DEF Inv

\* A step of the server that accepts a client.
LEMMA Accepts ==
    ASSUME Inv, TypeInv', backlog # <<>>, remote_sock' = Head(backlog), spc' = "create",
           backlog' = Tail(backlog) \/ backlog' = <<>>, UNCHANGED <<endpoints, peers, up, down>>
    PROVE  Inv'
<1>1. backlog \in Seq(Clients) /\ Distinct(backlog)
  BY DEF Inv, TypeInv, TypeOK, Unaccepted
<1>2. /\ Head(backlog) \in Clients /\ Head(backlog) \in Range(backlog)
      /\ Range(Tail(backlog)) \subseteq Range(backlog)
      /\ Head(backlog) \notin Range(Tail(backlog))
      /\ Distinct(Tail(backlog))
  BY <1>1, HeadTailProperties, RangeOfTail, DistinctTail
<1>3. Range(<<>>) = {} /\ Distinct(<<>>)
  BY DEF Range, Distinct
<1>4. Unaccepted'
  <2>1. /\ Distinct(backlog') /\ Range(backlog') \subseteq Range(backlog)
        /\ remote_sock' \in Clients /\ remote_sock' \in Range(backlog)
        /\ remote_sock' \notin Range(backlog')
    BY <1>2, <1>3
  <2>2. UNCHANGED <<cpc, down>>  BY DEF peers
  <2> QED  BY <2>1, <2>2 DEF Inv, Unaccepted
<1>5. Sent'      BY DEF Inv, Sent, peers
<1>6. Answered'  BY DEF Inv, Answered, peers
<1>7. Learnt'    BY DEF Inv, Learnt, Dead, peers
<1> QED  BY <1>4, <1>5, <1>6, <1>7 DEF Inv

\* The exchange is over for the endpoint that is being connected.
LEMMA Exchanges ==
    ASSUME Inv, TypeInv', NEW data, ServerExchanged(data),
           UNCHANGED <<remote_sock, peers, up, down, backlog>>,
           \/ spc = "send" /\ data = Garbage
           \/ spc = "recv" /\ Hears
              /\ data = IF up[remote_sock] # None THEN up[remote_sock] ELSE Garbage
    PROVE  Inv'
<1>1. /\ endpoints \in Seq(Endpoint(Clients)) /\ Len(endpoints) \in Nat
      /\ Current \in 1..Len(endpoints)
      /\ spc' = "qp"
  BY LenProperties DEF Inv, TypeInv, TypeOK, AtEndpoint, ServerExchanged, Current
<1>2. /\ Len(endpoints') = Len(endpoints)
      /\ \A i \in 1..Len(endpoints) :
           endpoints'[i].remote = IF i = Current THEN data ELSE endpoints[i].remote
  <2> DEFINE e == [endpoints[Current] EXCEPT !.remote = data]
  <2>1. endpoints' = [endpoints EXCEPT ![Current] = e]
    BY DEF ServerExchanged
  <2>2. endpoints[Current] \in Endpoint(Clients)  BY <1>1, ElementOfSeq
  <2>3. data \in Clients \cup {Garbage}
    BY DEF Inv, TypeInv, TypeOK, AtEndpoint
  <2>4. e \in Endpoint(Clients) /\ e.remote = data
    BY <2>2, <2>3 DEF Endpoint
  <2> HIDE DEF e
  <2> QED  BY <1>1, <2>1, <2>4, ExceptSeq
<1>3. Unaccepted' /\ Sent' /\ Answered'
  BY <1>1 DEF Inv, Unaccepted, Sent, Answered, peers
<1>4. Learnt'
  <2> SUFFICES ASSUME NEW i \in 1..Len(endpoints), NEW c \in Clients
               PROVE  /\ endpoints'[i].remote = c => down[c] = i /\ up[c] = c
                      /\ endpoints'[i].remote = Garbage /\ down[c] = i => Dead(c)
    BY <1>2 DEF Learnt, Dead, peers
  <2>1. CASE i # Current
    BY <1>2, <2>1 DEF Inv, Learnt
  <2>2. CASE i = Current /\ spc = "send"
    BY <1>2, <2>2, NamesAssumption DEF Inv, Sent
  <2>3. CASE i = Current /\ spc = "recv"
    <3>1. remote_sock \in Clients /\ down[remote_sock] = i
      BY <2>3 DEF Inv, TypeInv, TypeOK, AtEndpoint, Sent
    <3>2. endpoints'[i].remote = IF up[remote_sock] # None THEN up[remote_sock] ELSE Garbage
      BY <1>2, <2>3
    <3>3. up[remote_sock] # None => up[remote_sock] = remote_sock
      BY <3>1 DEF Inv, Answered
    <3>4. down[c] = i => c = remote_sock
      BY <1>1, <2>3, <3>1, NamesAssumption DEF Inv, Sent
    <3>5. up[remote_sock] = None => Dead(remote_sock)
      BY <2>3 DEF Hears
    <3> QED  BY <3>1, <3>2, <3>3, <3>4, <3>5, NamesAssumption
  <2> QED  BY <2>1, <2>2, <2>3
<1> QED  BY <1>3, <1>4 DEF Inv

LEMMA InvStep == Inv /\ [Next]_vars => Inv'
<1> SUFFICES ASSUME Inv, [Next]_vars PROVE Inv'  OBVIOUS
<1>0. TypeInv /\ TypeInv'  BY TypeStep DEF Inv
<1>a. /\ backlog \in Seq(Clients)
      /\ endpoints \in Seq(Endpoint(Clients)) /\ Len(endpoints) \in Nat
      /\ client \in [Clients -> Endpoint(1..Len(endpoints))]
      /\ cpc \in [Clients -> {"connect", "recv", "send", "qp", "done", "crashed"}]
      /\ down \in [Clients -> 1..Len(endpoints) \cup {None}]
      /\ up \in [Clients -> Clients \cup {None}]
  BY <1>0, LenProperties DEF TypeInv, TypeOK
<1>1. CASE \/ Listen \/ ListenFails \/ EpollWait \/ EpollFails \/ AcceptNoMore
           \/ AcceptFails \/ CreateFails \/ SessionEnds \/ SessionFails \/ DestroySession \/ UseAfterDestroy
           \/ UNCHANGED vars
  <2>1. /\ UNCHANGED <<remote_sock, endpoints, cpc, client, up, down>>
        /\ backlog' = backlog \/ backlog' = <<>>
    BY <1>1 DEF Listen, ListenFails, EpollWait, EpollFails, AcceptNoMore, AcceptFails,
       CreateFails, SessionEnds,
       SessionFails, DestroySession, UseAfterDestroy, ServerDies, CloseListener, vars,
       server, peers, tcp
  <2>2. spc' \in {"create", "send", "recv"} =>
          spc' = spc \/ (spc' = "create" /\ remote_sock = None)
    BY <1>0, <1>1 DEF Listen, ListenFails, EpollWait, EpollFails, AcceptNoMore, AcceptFails,
       CreateFails, SessionEnds,
       SessionFails, DestroySession, UseAfterDestroy, ServerDies, CloseListener, vars,
       server, TypeInv, AtEndpoint
  <2> QED  BY <1>0, <2>1, <2>2, Quiet
<1>2. CASE Accept
  BY <1>0, <1>2, Accepts DEF Accept, tcp
<1>3. CASE ServerConnect
  BY <1>0, <1>3, Accepts DEF ServerConnect, CloseListener, peers
<1>4. CASE Create
  <2>0. PICK qp \in {"INIT", "RESET"} : endpoints' = Append(endpoints, NewEndpoint(qp))
    BY <1>4 DEF Create
  <2>1. NewEndpoint(qp) \in Endpoint(Clients) /\ NewEndpoint(qp).remote = None
    BY NewEndpointType
  <2>2. /\ Len(endpoints') = Len(endpoints) + 1
        /\ \A i \in 1..Len(endpoints) : endpoints'[i] = endpoints[i]
        /\ endpoints'[Len(endpoints) + 1].remote = None
    BY <1>a, <2>0, <2>1, AppendProperties
  <2>3. spc = "create" /\ spc' = "send" /\ UNCHANGED <<remote_sock, backlog, peers, up, down>>
    BY <1>4 DEF Create, tcp
  <2>4. Unaccepted'  BY <2>3 DEF Inv, Unaccepted, peers
  <2>5. Sent'
    BY <1>a, <2>2, <2>3, NamesAssumption DEF Inv, Sent, Current
  <2>6. Answered'    BY <2>3 DEF Inv, Answered, peers
  <2>7. Learnt'
    BY <1>a, <2>2, <2>3, NamesAssumption DEF Inv, Learnt, Dead, peers
  <2> QED  BY <1>0, <2>4, <2>5, <2>6, <2>7 DEF Inv
<1>5. CASE ServerSend
  <2>1. CASE ServerExchanged(Garbage) /\ UNCHANGED down
    BY <1>0, <1>5, <2>1, Exchanges DEF ServerSend
  <2>2. CASE /\ remote_sock # None
             /\ down' = [down EXCEPT ![remote_sock] = Current]
             /\ spc' = "recv"
             /\ UNCHANGED endpoints
    <3>1. /\ remote_sock \in Clients /\ down[remote_sock] = None
          /\ Current \in Nat \ {0} /\ Current = Len(endpoints)
          /\ endpoints[Current].remote = None
          /\ spc = "send" /\ UNCHANGED <<remote_sock, backlog, peers, up>>
      BY <1>0, <1>a, <1>5, <2>2
      DEF ServerSend, Inv, Unaccepted, TypeInv, TypeOK, AtEndpoint, Current
    <3>2. \A c \in Clients : down'[c] = IF c = remote_sock THEN Current ELSE down[c]
      BY <1>a, <2>2
    <3>3. Unaccepted'  BY <2>2, <3>1, <3>2 DEF Inv, Unaccepted, peers
    <3>4. Sent'
      BY <2>2, <3>1, <3>2, NamesAssumption DEF Inv, Sent, Current
    <3>5. Answered'
      BY <1>a, <3>1, <3>2, NamesAssumption DEF Inv, Answered, peers
    <3>6. Learnt'
      BY <1>a, <2>2, <3>1, <3>2, NamesAssumption DEF Inv, Learnt, Dead, peers
    <3> QED  BY <1>0, <3>3, <3>4, <3>5, <3>6 DEF Inv
  <2> QED  BY <1>5, <2>1, <2>2 DEF ServerSend
<1>6. CASE ServerRecv
  BY <1>0, <1>6, Exchanges DEF ServerRecv
<1>7. CASE ServerQP
  <2>1. PICK f \in Connected(endpoints[Current]) :
          endpoints' = [endpoints EXCEPT ![Current] = f]
    BY <1>7 DEF ServerQP
  <2>2. Current \in 1..Len(endpoints) /\ endpoints[Current] \in Endpoint(Clients)
    BY <1>0, <1>a, <1>7, ElementOfSeq DEF ServerQP, TypeInv, AtEndpoint, Current
  <2>3. f \in Endpoint(Clients) /\ f.remote = endpoints[Current].remote
    BY <2>2, ConnectedType
  <2>4. /\ Len(endpoints') = Len(endpoints)
        /\ \A i \in 1..Len(endpoints) : endpoints'[i].remote = endpoints[i].remote
    BY <1>a, <2>1, <2>2, <2>3, ExceptSeq
  <2>5. /\ UNCHANGED <<remote_sock, backlog, cpc, client, up, down>>
        /\ spc' \in {"accept", "ended"}
    BY <1>7 DEF ServerQP, peers, tcp
  <2> QED  BY <1>0, <2>4, <2>5, Quiet
<1>8. ASSUME NEW c \in Clients, Client(c) \/ Crash(c)
      PROVE  Inv'
  <2>0. UNCHANGED <<remote_sock, spc, endpoints, down>>
    BY <1>8 DEF Client, ClientConnect, ClientRecv, ClientSend, ClientQP, Crash, server, tcp
  <2>1. CASE ClientConnect(c)
    <3>1. /\ cpc[c] = "connect" /\ cpc' = [cpc EXCEPT ![c] = cpc'[c]]
          /\ cpc'[c] \in {"recv", "qp"} /\ UNCHANGED up
          /\ \/ backlog' = Append(backlog, c) /\ cpc'[c] = "recv"
             \/ UNCHANGED backlog /\ cpc'[c] = "qp"
      BY <1>a, <2>1 DEF ClientConnect, Move, tcp
    <3>a. PICK qp \in {"INIT", "RESET"}, remote \in {None, Garbage} :
            client' = [client EXCEPT ![c] = [NewEndpoint(qp) EXCEPT !.remote = remote]]
      BY <2>1 DEF ClientConnect, NewEndpoint
    <3>2. /\ c \notin Range(backlog) /\ remote_sock # c /\ down[c] = None /\ up[c] = None
      BY <3>1 DEF Inv, Unaccepted, Answered
    <3>3. /\ Distinct(backlog') /\ Range(backlog') \subseteq Range(backlog) \cup {c}
          /\ cpc'[c] = "qp" => Range(backlog') = Range(backlog)
      <4>1. Distinct(backlog)  BY DEF Inv, Unaccepted
      <4>2. /\ Range(Append(backlog, c)) = Range(backlog) \cup {c}
            /\ Distinct(Append(backlog, c))
        BY <1>a, <3>2, <4>1, RangeOfAppend, DistinctAppend
      <4>3. CASE cpc'[c] = "recv"
        <5>1. backlog' = Append(backlog, c)  BY <3>1, <4>3
        <5> QED  BY <4>2, <4>3, <5>1
      <4>4. CASE cpc'[c] = "qp"
        <5>1. backlog' = backlog  BY <3>1, <4>4
        <5> QED  BY <4>1, <5>1
      <4> QED  BY <3>1, <4>3, <4>4
    <3>4. \A d \in Clients : d # c => cpc'[d] = cpc[d] /\ client'[d] = client[d]
      BY <1>a, <3>1, <3>a
    <3>5. client'[c].remote \in {None, Garbage}
      BY <1>a, <3>a DEF NewEndpoint
    <3>6. Unaccepted'
      BY <2>0, <3>1, <3>2, <3>3, <3>4 DEF Inv, Unaccepted
    <3>7. Sent'  BY <2>0 DEF Inv, Sent, Current
    <3>8. Answered'
      BY <2>0, <3>1, <3>2, <3>4, <3>5 DEF Inv, Answered
    <3>9. Learnt'
      BY <2>0, <3>1, <3>4 DEF Inv, Learnt, Dead
    <3> QED  BY <1>0, <3>6, <3>7, <3>8, <3>9 DEF Inv
  <2>2. CASE ClientRecv(c) \/ ClientSend(c)
    <3>1. /\ UNCHANGED backlog
          /\ cpc[c] \in {"recv", "send"} /\ cpc'[c] \in {"send", "qp"}
          /\ \A d \in Clients : d # c => /\ cpc'[d] = cpc[d] /\ client'[d] = client[d]
                                        /\ up'[d] = up[d]
      BY <1>a, <2>2 DEF ClientRecv, ClientSend, Learn, Move, server, tcp
    <3>2. \/ /\ cpc[c] = "recv" /\ up'[c] = up[c]
             /\ \/ client'[c].remote = down[c] /\ down[c] # None
                \/ client'[c].remote = Garbage /\ cpc'[c] = "qp"
          \/ /\ cpc[c] = "send" /\ cpc'[c] = "qp"
             /\ up'[c] = c /\ client'[c] = client[c]
      BY <1>a, <2>2 DEF ClientRecv, ClientSend, Learn, Move, tcp, Endpoint
    <3>3. Unaccepted'
      BY <2>0, <3>1 DEF Inv, Unaccepted
    <3>4. Sent'  BY <2>0 DEF Inv, Sent, Current
    <3>5. Answered'
      BY <2>0, <3>1, <3>2 DEF Inv, Answered
    <3>6. Learnt'
      BY <2>0, <3>1, <3>2 DEF Inv, Learnt, Dead
    <3> QED  BY <1>0, <3>3, <3>4, <3>5, <3>6 DEF Inv
  <2>3. CASE ClientQP(c)
    <3>1. PICK f \in Connected(client[c]) : client' = [client EXCEPT ![c] = f]
      BY <2>3 DEF ClientQP
    <3>2. f.remote = client[c].remote  BY <1>a, ConnectedType
    <3>3. \A d \in Clients : client'[d].remote = client[d].remote
      BY <1>a, <3>1, <3>2
    <3>4. /\ UNCHANGED <<backlog, up>> /\ cpc[c] = "qp"
          /\ cpc' = [cpc EXCEPT ![c] = "done"]
      BY <2>3 DEF ClientQP, Move, server, tcp
    <3>5. \A d \in Clients : cpc'[d] = cpc[d]
                                  \/ (cpc'[d] \in {"done", "crashed"} /\ ~Dead(d))
      BY <1>a, <3>4 DEF Dead
    <3> QED  BY <1>0, <2>0, <3>3, <3>4, <3>5, Quiet
  <2>4. CASE Crash(c)
    <3>1. /\ UNCHANGED <<backlog, up, client>>
          /\ cpc[c] \in {"connect", "recv", "send"}
          /\ cpc' = [cpc EXCEPT ![c] = "crashed"]
      BY <2>4 DEF Crash, Move, server, tcp
    <3>2. \A d \in Clients : cpc'[d] = cpc[d]
                                  \/ (cpc'[d] \in {"done", "crashed"} /\ ~Dead(d))
      BY <1>a, <3>1 DEF Dead
    <3> QED  BY <1>0, <2>0, <3>1, <3>2, Quiet
  <2> QED  BY <1>8, <2>1, <2>2, <2>3, <2>4 DEF Client
<1> QED
  BY <1>1, <1>2, <1>3, <1>4, <1>5, <1>6, <1>7, <1>8 DEF Next, Server

\* The inductive invariant holds of every reachable state.
THEOREM Invariance == Spec => []Inv
BY InvInit, InvStep, PTL DEF Spec

\* For any clients, whichever of them die: two endpoints that have each learnt a
\* peer have learnt each other (exchange_qp_data over the shared remote_sock_).
THEOREM AgreementCorrect == Spec => []Agreement
<1>1. Inv => Agreement
  <2> SUFFICES ASSUME Inv, NEW i \in 1..Len(endpoints), NEW c \in Clients
               PROVE  /\ endpoints[i].remote = c => client[c].remote = i \/ Dead(c)
                      /\ client[c].remote = i => endpoints[i].remote \in {c, None, Garbage}
                      /\ client[c].remote = i /\ endpoints[i].remote = Garbage => Dead(c)
    BY DEF Agreement
  <2>1. /\ endpoints[i] \in Endpoint(Clients)
        /\ i # None /\ i # Garbage /\ c # None
    BY ElementOfSeq, LenProperties, NamesAssumption DEF Inv, TypeInv, TypeOK
  <2>2. client[c].remote = i => down[c] = i
    BY <2>1 DEF Inv, Answered
  <2>3. endpoints[i].remote = c => client[c].remote = i
    BY <2>1 DEF Inv, Learnt, Answered
  <2>4. endpoints[i].remote \in Clients /\ down[c] = i => endpoints[i].remote = c
    BY <2>1 DEF Inv, Learnt, Sent
  <2> QED  BY <2>1, <2>2, <2>3, <2>4 DEF Inv, Learnt, Endpoint
<1> QED  BY Invariance, <1>1, PTL

=============================================================================
