------------------------------ MODULE Session ------------------------------
(***************************************************************************)
(* The protocol the sessions speak over their message channels: the pull   *)
(* of a buffer (READ_REQUEST, RDMA READ, READ_OVER), the sync barrier and  *)
(* the close handshake, run by the application's thread, the channel's     *)
(* pools and the completion thread of each session                         *)
(* (src/src/rdma_message.cpp, src/src/rdma_channel.cpp,                    *)
(* src/src/rdma_endpoint.cpp).                                             *)
(*                                                                         *)
(* A channel is used here as the one-slot mailbox that module              *)
(* ChannelRefinement proves it to be: one lock per end stands for          *)
(* local_status_ and remote_status_, and a task may run before the         *)
(* WorkThreads - 1 tasks ahead of it.  What a queue pair has posted is     *)
(* executed in order; a message stays in flight until the completion       *)
(* thread of the peer handles it.  When the application has returned and   *)
(* the completion thread has ended, the destructors wait for the pools of  *)
(* each channel and destroy its queue pair.                                *)
(***************************************************************************)
EXTENDS Naturals, Sequences, FiniteSets, Functions

CONSTANTS
    Ends,             \* the two ends of every connection
    Peer,             \* Peer[e]: the other end
    SessionOf,        \* SessionOf[e]: the session that owns the end
    Setups,           \* the applications to choose from
    Buffers,          \* the RDMA_Buffers sent, each once
    Addr, Size,       \* Addr[b], Size[b]: address and size of buffer b
    WorkThreads,      \* DEFAULT_WORK_POOL_THREADS
    SpuriousWakeups,  \* may condition_variable::wait return for no reason
    LossyDestroy,     \* may a queue pair be destroyed before it has sent all
    None              \* the null pointer

Sessions == Range(SessionOf)

ASSUME PeerAssumption ==
    Peer \in [Ends -> Ends] /\ \A e \in Ends : Peer[e] # e /\ Peer[Peer[e]] = e
ASSUME SessionOfAssumption == SessionOf \in [Ends -> Sessions]
ASSUME AddrAssumption == Addr \in [Buffers -> Range(Addr)]
ASSUME SizeAssumption == Size \in [Buffers -> Nat \ {0}]
ASSUME WorkThreadsAssumption == WorkThreads \in Nat \ {0}
ASSUME NoneAssumption == None \notin Buffers \cup Range(Addr) \cup Ends

\* The calls of an endpoint an application makes.
Calls == [op : {"set_sync_barrier"}, end : Ends, size : Nat]
         \cup [op : {"send_data"}, end : Ends, buf : Buffers]
         \cup [op : {"wait_for_sync"}]
         \cup [op : {"close"}, end : Ends]

ASSUME SetupsAssumption == \A u \in Setups :
    u.program \in [Sessions -> Seq(Calls)] /\ u.daemons \subseteq Sessions
\* An application calls the endpoints of its own session.
ASSUME OwnEndsAssumption == \A u \in Setups : \A s \in Sessions :
    \A i \in 1..Len(u.program[s]) :
        u.program[s][i].op # "wait_for_sync" => SessionOf[u.program[s][i].end] = s
ASSUME LossyAssumption == LossyDestroy \in BOOLEAN

VARIABLES
    setup,        \* the applications that run
    pc,           \* pc[s]: calls the application of s has made
    waiting,      \* waiting[s]: it is blocked in sync_cv.wait
    sync_flag,    \* sync_flag[s]: the global of the process of s
    status,       \* status[s]: status_
    terminating,  \* terminating[s]: end about to post CLOSE_TERMINATE, or None
    stopped,      \* stopped[s]: session_processCQ has returned
    tasks,        \* tasks[e]: messages of the tasks in work_pool_, oldest first
    locked,       \* locked[e]: a message of e is not acknowledged
    net,          \* net[e]: messages posted by e and not yet handled by its peer
    fetches,      \* fetches[e]: requests whose task is in nolock_pool_
    reads,        \* reads[e]: RDMA READs posted by e, oldest first
    read_cqes,    \* read_cqes[e]: their completions not yet handled
    map_table,    \* map_table[e]: map_table_, key -> value
    total,        \* total[e]: total_recv_data_
    target,       \* target[e]: target_recv_data_
    deleted,      \* RDMA_Buffers deleted by their sender
    destroyed,    \* ends whose channel and queue pair are destroyed
    received      \* history: buffers whose data the peer has

app == <<setup, pc, waiting, sync_flag>>
sess == <<status, terminating, stopped>>
chan == <<tasks, locked, net>>
pull == <<fetches, reads, read_cqes>>
count == <<total, target>>
gone == <<deleted, destroyed>>
vars == <<app, sess, chan, pull, map_table, count, gone, received>>

Empty == <<>>
Message(type) == [type |-> type]

\* The calls of each session, and the sessions with a pre_ (daemon_connect).
Program == setup.program
Daemons == setup.daemons

\* session_processCQ starts at WORK on a session that has its connections.
Init ==
    /\ setup \in Setups
    /\ pc = [s \in Sessions |-> 0]
    /\ waiting = [s \in Sessions |-> FALSE]
    /\ sync_flag = [s \in Sessions |-> FALSE]
    /\ status = [s \in Sessions |-> "WORK"]
    /\ terminating = [s \in Sessions |-> None]
    /\ stopped = [s \in Sessions |-> FALSE]
    /\ tasks = [e \in Ends |-> <<>>]
    /\ locked = [e \in Ends |-> FALSE]
    /\ net = [e \in Ends |-> <<>>]
    /\ fetches = [e \in Ends |-> {}]
    /\ reads = [e \in Ends |-> <<>>]
    /\ read_cqes = [e \in Ends |-> <<>>]
    /\ map_table = [e \in Ends |-> Empty]
    /\ total = [e \in Ends |-> 0]
    /\ target = [e \in Ends |-> 0]
    /\ deleted = {}
    /\ destroyed = {}
    /\ received = {}

-----------------------------------------------------------------------------
(* map_table_: at the sender, from the address of a buffer to its           *)
(* RDMA_Buffer; at the reader, from its own RDMA_Buffer, named here by the  *)
(* buffer it copies, to the sender's address.                               *)

\* (mutation) the entry is forgotten
InsertNothing(t, key, value) == t

\* std::map::insert leaves an entry that is already there.
InsertToTable(t, key, value) ==
    [k \in DOMAIN t \cup {key} |-> IF k \in DOMAIN t THEN t[k] ELSE value]

\* (mutation) what was looked for is returned, not what was found
FindKey(t, key) == IF key \in DOMAIN t THEN key ELSE None

\* What find_in_table returns, and what it leaves in the table.
FindInTable(t, key) == IF key \in DOMAIN t THEN t[key] ELSE None

\* (mutation) find_in_table called with erase = false
EraseNothing(t, key) == t

Erase(t, key) == Restrict(t, DOMAIN t \ {key})

TableEmpty(t) == DOMAIN t = {}

-----------------------------------------------------------------------------
(* The application: one thread per session. *)

Call(s) == Program[s][pc[s] + 1]
Returned(s) == pc[s] = Len(Program[s])
Makes(s, op) == /\ ~Returned(s)
                /\ ~waiting[s]
                /\ Call(s).op = op
Return(s) == pc' = [pc EXCEPT ![s] = @ + 1]
AddTask(e, m) == tasks' = [tasks EXCEPT ![e] = Append(@, m)]

SetSyncBarrier(s) ==
    /\ Makes(s, "set_sync_barrier")
    /\ Return(s)
    /\ sync_flag' = [sync_flag EXCEPT ![s] = FALSE]
    /\ AddTask(Call(s).end, [type |-> "SYNC_REQUEST", size |-> Call(s).size])
    /\ UNCHANGED <<setup, waiting, sess, locked, net, pull, map_table, count, gone, received>>

SendData(s) ==
    /\ Makes(s, "send_data")
    /\ Return(s)
    /\ AddTask(Call(s).end, [type |-> "READ_REQUEST", buf |-> Call(s).buf])
    /\ UNCHANGED <<setup, waiting, sync_flag, sess, locked, net, pull, map_table, count,
                   gone, received>>

\* Nothing rechecks sync_flag after the wait.
WaitForSync(s) ==
    /\ Makes(s, "wait_for_sync")
    /\ IF sync_flag[s] THEN Return(s) /\ UNCHANGED waiting
                       ELSE waiting' = [waiting EXCEPT ![s] = TRUE] /\ UNCHANGED pc
    /\ UNCHANGED <<setup, sync_flag, sess, chan, pull, map_table, count, gone, received>>

Wake(s) == /\ waiting' = [waiting EXCEPT ![s] = FALSE]
           /\ Return(s)

SpuriousWakeup(s) ==
    /\ SpuriousWakeups
    /\ waiting[s]
    /\ Wake(s)
    /\ UNCHANGED <<setup, sync_flag, sess, chan, pull, map_table, count, gone, received>>

\* CLOSE is posted at once: it waits for no task of the pool and no lock.
Close(s) ==
    /\ Makes(s, "close")
    /\ Return(s)
    /\ net' = [net EXCEPT ![Call(s).end] = Append(@, Message("CLOSE"))]
    /\ UNCHANGED <<setup, waiting, sync_flag, sess, tasks, locked, pull, map_table, count,
                   gone, received>>

-----------------------------------------------------------------------------
(* The pools of a channel. *)

Without(s, i) == SubSeq(s, 1, i - 1) \o SubSeq(s, i + 1, Len(s))

\* A worker runs the body of task i under the lock: a READ_REQUEST enters its
\* buffer in the table, then the message is filled in and posted.
RunTask(e, i) ==
    LET m == tasks[e][i] IN
    /\ ~locked[e]
    /\ locked' = [locked EXCEPT ![e] = TRUE]
    /\ tasks' = [tasks EXCEPT ![e] = Without(@, i)]
    /\ net' = [net EXCEPT ![e] = Append(@, m)]
    /\ map_table' = IF m.type = "READ_REQUEST"
                    THEN [map_table EXCEPT ![e] = InsertToTable(@, Addr[m.buf], m.buf)]
                    ELSE map_table
    /\ UNCHANGED <<app, sess, pull, count, gone, received>>

\* (mutation) READ_OVER is asked for when the READ is posted, not when it is done
ReadDataThenOver(e, b) ==
    /\ b \in fetches[e]
    /\ fetches' = [fetches EXCEPT ![e] = @ \ {b}]
    /\ reads' = [reads EXCEPT ![e] = Append(@, b)]
    /\ AddTask(e, [type |-> "READ_OVER", addr |-> Addr[b], buf |-> b])
    /\ UNCHANGED <<app, sess, locked, net, read_cqes, map_table, count, gone, received>>

\* The task of a READ_REQUEST: a new RDMA_Buffer, its entry, the RDMA READ.
ReadData(e, b) ==
    /\ b \in fetches[e]
    /\ fetches' = [fetches EXCEPT ![e] = @ \ {b}]
    /\ map_table' = [map_table EXCEPT ![e] = InsertToTable(@, b, Addr[b])]
    /\ reads' = [reads EXCEPT ![e] = Append(@, b)]
    /\ UNCHANGED <<app, sess, chan, read_cqes, count, gone, received>>

\* The NIC executes one READ at a time (max_rd_atomic = 1).
ExecuteRead(e) ==
    /\ reads[e] # <<>>
    /\ Peer[e] \notin destroyed
    /\ reads' = [reads EXCEPT ![e] = Tail(@)]
    /\ read_cqes' = [read_cqes EXCEPT ![e] = Append(@, Head(reads[e]))]
    /\ received' = received \cup {Head(reads[e])}
    /\ UNCHANGED <<app, sess, chan, fetches, map_table, count, gone>>

-----------------------------------------------------------------------------
(* The completion thread of a session: the handlers of its ends.  The rest  *)
(* of a batch is still handled once status_ is CLOSED.                      *)

Handling(s) == ~stopped[s] /\ terminating[s] = None

Receives(e, type) == /\ Handling(SessionOf[e])
                     /\ net[Peer[e]] # <<>>
                     /\ Head(net[Peer[e]]).type = type

Received(e) == Head(net[Peer[e]])

\* The handler of e consumes a message of its peer and posts answers to it.
Answer(e, answers) ==
    net' = [net EXCEPT ![Peer[e]] = Tail(@), ![e] = @ \o answers]

SetStatus(s, to) == status' = [status EXCEPT ![s] = to]

ProcessAck(e) ==
    /\ Receives(e, "ACK")
    /\ Answer(e, <<>>)
    /\ locked' = [locked EXCEPT ![e] = FALSE]
    /\ UNCHANGED <<app, sess, tasks, pull, map_table, count, gone, received>>

\* (mutation) the test of status_ is inverted
DroppedInWork(e) == status[SessionOf[e]] = "WORK"

\* Out of WORK a request is dropped and not even acknowledged.
Dropped(e) == status[SessionOf[e]] # "WORK"

ProcessSyncRequest(e) ==
    /\ Receives(e, "SYNC_REQUEST")
    /\ IF Dropped(e)
       THEN Answer(e, <<>>) /\ UNCHANGED count
       ELSE /\ Answer(e, <<Message("ACK")>>)
            /\ total' = [total EXCEPT ![e] = 0]
            /\ target' = [target EXCEPT ![e] = Received(e).size]
    /\ UNCHANGED <<app, sess, tasks, locked, pull, map_table, gone, received>>

ProcessReadRequest(e) ==
    /\ Receives(e, "READ_REQUEST")
    /\ IF Dropped(e)
       THEN Answer(e, <<>>) /\ UNCHANGED fetches
       ELSE /\ Answer(e, <<Message("ACK")>>)
            /\ fetches' = [fetches EXCEPT ![e] = @ \cup {Received(e).buf}]
    /\ UNCHANGED <<app, sess, tasks, locked, reads, read_cqes, map_table, count,
                   gone, received>>

\* (mutation) the sync target is taken as reached by any count
AnyData(e, b) == target[e] > 0

\* data_recv_success: the count includes b and is exactly the target.
SyncTargetGet(e, b) == total[e] + Size[b] = target[e]

ProcessReadSuccess(e) ==
    LET b == Head(read_cqes[e]) IN
    /\ Handling(SessionOf[e])
    /\ read_cqes[e] # <<>>
    /\ read_cqes' = [read_cqes EXCEPT ![e] = Tail(@)]
    /\ total' = [total EXCEPT ![e] = @ + Size[b]]
    /\ net' = IF SyncTargetGet(e, b)
              THEN [net EXCEPT ![e] = Append(@, Message("SYNC_ACK"))]
              ELSE net
    /\ AddTask(e, [type |-> "READ_OVER", addr |-> FindInTable(map_table[e], b),
                   buf |-> b])
    /\ map_table' = [map_table EXCEPT ![e] = Erase(@, b)]
    /\ UNCHANGED <<app, sess, locked, fetches, reads, target, gone, received>>

\* (mutation) an empty table ends a session that nobody closes
EndsEmpty(s, t) == TableEmpty(t)

\* Is the last READ_OVER of a closing session handled.
EndsClosing(s, t) == status[s] = "CLOSING" /\ TableEmpty(t)

\* A session whose table has become empty says so, in a second step below; the
\* workers of the channel run on in between.
ProcessReadOver(e) ==
    LET s == SessionOf[e]
        addr == Received(e).addr
        rest == Erase(map_table[e], addr) IN
    /\ Receives(e, "READ_OVER")
    /\ Answer(e, <<Message("ACK")>>)
    /\ map_table' = [map_table EXCEPT ![e] = rest]
    /\ deleted' = deleted \cup ({FindInTable(map_table[e], addr)} \ {None})
    /\ terminating' = [terminating EXCEPT ![s] =
                         IF EndsClosing(s, rest) THEN e ELSE None]
    /\ UNCHANGED <<app, status, stopped, tasks, locked, pull, count, destroyed, received>>

\* Only a session in ptp mode starts to close.
ProcessClose(e) ==
    LET s == SessionOf[e] IN
    /\ Receives(e, "CLOSE")
    /\ Answer(e, <<Message("CLOSE_ACK")>>)
    /\ IF s \in Daemons THEN UNCHANGED status ELSE SetStatus(s, "CLOSING")
    /\ UNCHANGED <<app, terminating, stopped, tasks, locked, pull, map_table, count,
                   gone, received>>

\* (mutation) CLOSE_ACK ends the session at once, whatever is in the table
CloseNow(t) == TRUE

\* May a session that has its CLOSE_ACK end at once.
ReadyToTerminate(t) == TableEmpty(t)

ProcessCloseAck(e) ==
    LET s == SessionOf[e] IN
    /\ Receives(e, "CLOSE_ACK")
    /\ Answer(e, <<>>)
    /\ IF ReadyToTerminate(map_table[e])
       THEN terminating' = [terminating EXCEPT ![s] = e] /\ UNCHANGED status
       ELSE SetStatus(s, "CLOSING") /\ UNCHANGED terminating
    /\ UNCHANGED <<app, stopped, tasks, locked, pull, map_table, count, gone, received>>

Terminate(s) ==
    /\ terminating[s] # None
    /\ net' = [net EXCEPT ![terminating[s]] = Append(@, Message("CLOSE_TERMINATE"))]
    /\ SetStatus(s, "CLOSED")
    /\ terminating' = [terminating EXCEPT ![s] = None]
    /\ UNCHANGED <<app, stopped, tasks, locked, pull, map_table, count, gone, received>>

ProcessCloseTerminate(e) ==
    /\ Receives(e, "CLOSE_TERMINATE")
    /\ Answer(e, <<>>)
    /\ SetStatus(SessionOf[e], "CLOSED")
    /\ UNCHANGED <<app, terminating, stopped, tasks, locked, pull, map_table, count,
                   gone, received>>

ProcessSyncAck(e) ==
    LET s == SessionOf[e] IN
    /\ Receives(e, "SYNC_ACK")
    /\ Answer(e, <<>>)
    /\ sync_flag' = [sync_flag EXCEPT ![s] = TRUE]
    /\ IF waiting[s] THEN Wake(s) ELSE UNCHANGED <<pc, waiting>>
    /\ UNCHANGED <<setup, sess, tasks, locked, pull, map_table, count, gone, received>>

\* The loop of session_processCQ ends; nothing of the session is handled again.
StopProcess(s) ==
    /\ Handling(s)
    /\ status[s] = "CLOSED"
    /\ stopped' = [stopped EXCEPT ![s] = TRUE]
    /\ UNCHANGED <<app, status, terminating, chan, pull, map_table, count, gone, received>>

\* The queue pair of the peer is gone: what e has posted to it may fail, and a
\* bad completion ends the completion thread with status_ as it is.
BadCompletion(e) ==
    /\ Handling(SessionOf[e])
    /\ Peer[e] \in destroyed
    /\ net[e] # <<>> \/ reads[e] # <<>>
    /\ stopped' = [stopped EXCEPT ![SessionOf[e]] = TRUE]
    /\ UNCHANGED <<app, status, terminating, chan, pull, map_table, count, gone, received>>

-----------------------------------------------------------------------------
(* The destructors, run by the application's thread. *)

\* (mutation) the completion thread is not joined
JoinNothing(s) == Returned(s)

\* ~RDMA_Session joins the completion thread before it deletes the endpoints.
Joined(s) == Returned(s) /\ stopped[s]

\* ~RDMA_Channel waits for each pool.
PoolsEmpty(e) == tasks[e] = <<>> /\ fetches[e] = {}

\* ~RDMA_Endpoint: what was posted and not executed dies with the queue pair.
DestroyEndpoint(e) ==
    /\ Joined(SessionOf[e])
    /\ PoolsEmpty(e)
    /\ e \notin destroyed
    /\ destroyed' = destroyed \cup {e}
    /\ \E n \in 0..Len(net[e]) :
         /\ n < Len(net[e]) => LossyDestroy
         /\ net' = [net EXCEPT ![e] = SubSeq(@, 1, n)]
    /\ reads' = [reads EXCEPT ![e] = <<>>]
    /\ UNCHANGED <<app, sess, tasks, locked, fetches, read_cqes, map_table, count,
                   deleted, received>>

-----------------------------------------------------------------------------

Application(s) == \/ SetSyncBarrier(s)
                  \/ SendData(s)
                  \/ WaitForSync(s)
                  \/ Close(s)

Pool(e) == \/ \E i \in 1..Len(tasks[e]) : i <= WorkThreads /\ RunTask(e, i)
           \/ \E b \in fetches[e] : ReadData(e, b)

Handlers(e) == \/ ProcessAck(e)
               \/ ProcessSyncRequest(e)
               \/ ProcessReadRequest(e)
               \/ ProcessReadSuccess(e)
               \/ ProcessReadOver(e)
               \/ ProcessClose(e)
               \/ ProcessCloseAck(e)
               \/ ProcessCloseTerminate(e)
               \/ ProcessSyncAck(e)

Next == \/ \E s \in Sessions : \/ Application(s)
                               \/ SpuriousWakeup(s)
                               \/ Terminate(s)
                               \/ StopProcess(s)
        \/ \E e \in Ends : \/ Pool(e)
                           \/ ExecuteRead(e)
                           \/ Handlers(e)
                           \/ BadCompletion(e)
                           \/ DestroyEndpoint(e)

Spec == Init /\ [][Next]_vars

\* Every thread runs when it can and the queue pairs execute what was posted.
Fairness ==
    /\ \A s \in Sessions : /\ WF_vars(Application(s))
                           /\ WF_vars(Terminate(s))
                           /\ WF_vars(StopProcess(s))
    /\ \A e \in Ends : /\ WF_vars(Pool(e))
                       /\ WF_vars(ExecuteRead(e))
                       /\ WF_vars(Handlers(e))
                       /\ WF_vars(DestroyEndpoint(e))

FairSpec == Spec /\ Fairness

-----------------------------------------------------------------------------
(* What the theorems ask of buffers and applications, each for itself.       *)
(* MCSession says which of its instances have it.                            *)

\* No two buffers in flight share an address, and none is an address.
AddressesDiffer ==
    /\ \A b, c \in Buffers : Addr[b] = Addr[c] => b = c
    /\ Buffers \cap Range(Addr) = {}

\* Each buffer is given to send_data once, wherever.
SentOnce == \A u \in Setups : \A s, r \in Sessions :
    \A i \in 1..Len(u.program[s]), j \in 1..Len(u.program[r]) :
        /\ u.program[s][i].op = "send_data" /\ u.program[r][j].op = "send_data"
        /\ u.program[s][i].buf = u.program[r][j].buf
        => s = r /\ i = j

\* The bytes of a set of buffers, and their number.
Bytes(S) == UNION {{b} \X (1..Size[b]) : b \in S}
DataSize(S) == Cardinality(Bytes(S))

\* Before call i of program p, every barrier and every send has its wait.
Settled(p, i) == \A j \in 1..i - 1 : p[j].op \in {"set_sync_barrier", "send_data"} =>
    \E w \in j + 1..i - 1 : p[w].op = "wait_for_sync"

\* The sends between the barrier at i and the next one, and their buffers.
RoundOf(p, i) == {j \in i + 1..Len(p) :
    p[j].op = "send_data" /\ \A k \in i + 1..j : p[k].op # "set_sync_barrier"}
RoundBuffers(p, i) == {p[j].buf : j \in RoundOf(p, i)}

\* A barrier comes when what was sent before is settled, and is for no less than
\* the data sent up to the next barrier.
BarrierRounds == \A u \in Setups : \A s \in Sessions : \A i \in 1..Len(u.program[s]) :
    u.program[s][i].op = "set_sync_barrier" =>
        /\ Settled(u.program[s], i)
        /\ u.program[s][i].size >= DataSize(RoundBuffers(u.program[s], i))

\* A close is the last call, comes when all is settled, and the peer only connects.
ClosesLast == \A u \in Setups : \A e \in Ends : LET p == u.program[SessionOf[e]] IN
    \A i \in 1..Len(p) : p[i].op = "close" =>
        /\ i = Len(p)
        /\ Settled(p, i)
        /\ u.program[SessionOf[Peer[e]]] = <<>>

\* Each session has one connection.
OneEndEach == \A e, f \in Ends : SessionOf[e] = SessionOf[f] => e = f

-----------------------------------------------------------------------------
(* Properties. *)

Messages ==
    {Message(type) : type \in {"ACK", "CLOSE", "CLOSE_ACK", "CLOSE_TERMINATE", "SYNC_ACK"}}
    \cup [type : {"SYNC_REQUEST"}, size : Nat]
    \cup [type : {"READ_REQUEST"}, buf : Buffers]
    \cup [type : {"READ_OVER"}, addr : Range(Addr) \cup {None}, buf : Buffers]

\* Every variable has its type.
TypeOK ==
    /\ setup \in Setups
    /\ pc \in [Sessions -> Nat]
    /\ waiting \in [Sessions -> BOOLEAN]
    /\ sync_flag \in [Sessions -> BOOLEAN]
    /\ status \in [Sessions -> {"WORK", "CLOSING", "CLOSED"}]
    /\ terminating \in [Sessions -> Ends \cup {None}]
    /\ stopped \in [Sessions -> BOOLEAN]
    /\ tasks \in [Ends -> Seq(Messages)]
    /\ locked \in [Ends -> BOOLEAN]
    /\ net \in [Ends -> Seq(Messages)]
    /\ fetches \in [Ends -> SUBSET Buffers]
    /\ reads \in [Ends -> Seq(Buffers)]
    /\ read_cqes \in [Ends -> Seq(Buffers)]
    /\ \A e \in Ends : /\ DOMAIN map_table[e] \subseteq Range(Addr) \cup Buffers
                       /\ Range(map_table[e]) \subseteq Buffers \cup Range(Addr)
    /\ total \in [Ends -> Nat]
    /\ target \in [Ends -> Nat]
    /\ deleted \subseteq Buffers
    /\ destroyed \subseteq Ends
    /\ received \subseteq Buffers

\* The address in a READ_OVER, asked for or in flight, leads its receiver to the
\* buffer that was read: no entry of map_table_ is missing or out of date when
\* find_in_table is called with it.
OwnBuffer == \A e \in Ends : \A m \in Range(tasks[e]) \cup Range(net[e]) :
    m.type = "READ_OVER" => FindInTable(map_table[Peer[e]], m.addr) = m.buf

\* The messages posted by e and not handled that go past the lock of the channel,
\* the ACK aside.
NoticesUnderWay(e) == {i \in 1..Len(net[e]) :
    net[e][i].type \in {"SYNC_ACK", "CLOSE", "CLOSE_ACK", "CLOSE_TERMINATE"}}

\* No lock bounds them, but the barrier and the close handshake do: no more than three
\* are under way.  With the message and the ACK that the locks allow, an end needs no
\* more than five of the 100 receives of its peer.
FewNotices == \A e \in Ends : Cardinality(NoticesUnderWay(e)) <= 3

\* The calls s has returned from.
Made(s) == {i \in 1..Len(Program[s]) : i <= pc[s]}

\* The buffers given to send_data.
Sent == UNION {{Program[s][i].buf : i \in {j \in Made(s) : Program[s][j].op = "send_data"}} :
               s \in Sessions}

\* The sessions transfer buffers as Transfer promises: whatever the applications
\* close and whenever, no RDMA READ finds the region of its buffer gone.
TransferOf == INSTANCE Transfer WITH sent <- Sent, read <- received
TransferSpec == TransferOf!Spec

\* When wait_for_sync returns, the peer has the data of every send_data between
\* the barrier and the wait, and of those of earlier rounds.
SyncSound == \A s \in Sessions : \A i \in Made(s) : \A j \in 1..i :
    Program[s][i].op = "wait_for_sync" /\ Program[s][j].op = "send_data"
        => Program[s][j].buf \in received

\* A session that is CLOSED has no read under way and no entry in a table: all
\* that was asked of it is over.
QuietAtClose == \A e \in Ends : status[SessionOf[e]] = "CLOSED" =>
    /\ fetches[e] = {}
    /\ reads[e] = <<>>
    /\ read_cqes[e] = <<>>
    /\ TableEmpty(map_table[e])

\* A queue pair is destroyed only when its peer has nothing under way to it: no
\* bad completion ends the peer's completion thread.
CleanGoodbye == \A e \in destroyed : net[Peer[e]] = <<>> /\ reads[Peer[e]] = <<>>

\* A session that is CLOSED stays so.
ClosedIsFinal == [][\A s \in Sessions : status[s] = "CLOSED" => status'[s] = "CLOSED"]_vars

\* Every buffer sent is read by the peer and deleted in the end.
EverySendOver == \A b \in Buffers : b \in Sent ~> b \in deleted

\* An application that waits for its barrier goes on in the end.
WaitReturns == \A s \in Sessions : waiting[s] ~> ~waiting[s]

\* Once an application has called close, the sessions of both ends end.
CloseEnds == \A e \in Ends :
    (\E i \in Made(SessionOf[e]) : Program[SessionOf[e]][i] = [op |-> "close", end |-> e])
        ~> stopped[SessionOf[e]] /\ stopped[SessionOf[Peer[e]]]

\* The destructors return once the completion thread has ended: no pool keeps a
\* task that waits for an ACK nobody handles.
DestructorReturns == \A e \in Ends :
    stopped[SessionOf[e]] /\ Returned(SessionOf[e]) ~> e \in destroyed

=============================================================================
