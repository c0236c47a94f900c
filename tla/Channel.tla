------------------------------ MODULE Channel ------------------------------
(***************************************************************************)
(* The message channel of one connection: an RDMA_Channel at each of two   *)
(* ends, its thread pools, the queue pair between them and the thread of   *)
(* each session that polls completions (src/src/rdma_channel.cpp and the   *)
(* completion handlers of src/src/rdma_message.cpp).                       *)
(*                                                                         *)
(* An attached message is copied to the one outgoing buffer of its end and *)
(* written to the one incoming buffer of the peer.  Nothing is queued in   *)
(* those buffers, so a sender holds two locks from the copy on:            *)
(* local_status_ until its own write has completed, remote_status_ until   *)
(* the peer has parsed the message and its ACK has come back.  Worker      *)
(* threads wait for both on one condition variable, and the tasks that     *)
(* release them run on a third pool, in any order.                         *)
(*                                                                         *)
(* A message stands for its imm_data and its content together; the model   *)
(* still reads the content from the buffers when the program or the NIC    *)
(* does, so an overwritten buffer shows as a message that was not sent.    *)
(* Completions of one kind stay in order, of different kinds do not: the   *)
(* hardware promises more.                                                 *)
(*                                                                         *)
(* SYNC_ACK, CLOSE, CLOSE_ACK and CLOSE_TERMINATE go past the locks, like  *)
(* the ACK.  Here they are notices, not told apart: what matters is that   *)
(* each uses up a receive of the peer, and what its handler may do.  How   *)
(* many of them an end has under way is up to the applications; Session    *)
(* counts them for those of the repository (FewNotices).                   *)
(***************************************************************************)
EXTENDS Naturals, Sequences, FiniteSets, Functions

CONSTANTS
    A, B,         \* the two ends
    Msgs,         \* Msgs[e]: the attached messages requested at end e, each once
    Requests,     \* those a peer that has left WORK ignores: *_REQUEST
    WorkThreads,  \* DEFAULT_WORK_POOL_THREADS
    RecvDepth,    \* receives posted by the constructor (100)
    Notices,      \* Notices[e]: bound of the notices e has posted and its peer not handled
    None          \* no message

Ends == {A, B}
Peer(e) == IF e = A THEN B ELSE A
Msg == Msgs[A] \cup Msgs[B]

ASSUME EndsAssumption == A # B
ASSUME MsgsAssumption == /\ DOMAIN Msgs = Ends
                         /\ None \notin Msg
ASSUME WorkThreadsAssumption == WorkThreads \in Nat \ {0}
ASSUME NoticesAssumption == Notices \in [Ends -> Nat]
\* A message, an ACK and the notices of the peer.
ASSUME RecvDepthAssumption ==
    RecvDepth \in Nat /\ \A e \in Ends : RecvDepth >= 2 + Notices[e]

VARIABLES
    queue,          \* queue[e]: tasks in work_pool_ no thread has taken yet
    ready,          \* ready[e]: tasks of threads that want channel_cv_mutex_
    asleep,         \* asleep[e]: tasks of threads blocked in channel_cv_.wait
    local_status,   \* local_status[e]: may outgoing_ be filled
    remote_status,  \* remote_status[e]: may the peer's incoming_ be written
    unlock_local,   \* unlock_local[e]: release_local tasks in unlock_pool_
    unlock_remote,  \* unlock_remote[e]: release_remote tasks in unlock_pool_
    outgoing,       \* outgoing[e]: content of the outgoing buffer
    incoming,       \* incoming[e]: content of the incoming buffer
    writes,         \* writes[e]: posted WRITE_WITH_IMMs not yet executed
    acks,           \* acks[e]: posted SENDs of an ACK not yet executed
    notices,        \* notices[e]: posted SENDs of a notice not yet executed
    recvs,          \* recvs[e]: posted receives not yet consumed
    write_cqes,     \* write_cqes[e]: completions of e's own writes, not handled
    recv_cqes,      \* recv_cqes[e]: completions of the peer's writes (imm_data)
    ack_cqes,       \* ack_cqes[e]: completions of the peer's ACKs
    notice_cqes,    \* notice_cqes[e]: completions of the peer's notices
    handling,       \* handling[e]: message parsed by the CQ thread, ACK not sent
    status,         \* status[e]: status_ of e's session
    requested,      \* history: requested[e], the messages asked for, in order
    sent,           \* history: sent[e], the messages copied to outgoing, in order
    got             \* history: got[e], what e parsed from incoming, in order

pool == <<queue, ready, asleep>>
locks == <<local_status, remote_status>>
unlocks == <<unlock_local, unlock_remote>>
buffers == <<outgoing, incoming>>
wire == <<writes, acks, notices, recvs>>
cqes == <<write_cqes, recv_cqes, ack_cqes, notice_cqes>>
history == <<requested, sent, got>>
vars == <<pool, locks, unlocks, buffers, wire, cqes, handling, status, history>>

-----------------------------------------------------------------------------
(* The constructor posts the receives and leaves both locks IDLE. *)

Init ==
    /\ queue = [e \in Ends |-> <<>>]
    /\ ready = [e \in Ends |-> {}]
    /\ asleep = [e \in Ends |-> {}]
    /\ local_status = [e \in Ends |-> "IDLE"]
    /\ remote_status = [e \in Ends |-> "IDLE"]
    /\ unlock_local = [e \in Ends |-> 0]
    /\ unlock_remote = [e \in Ends |-> 0]
    /\ outgoing = [e \in Ends |-> None]
    /\ incoming = [e \in Ends |-> None]
    /\ writes = [e \in Ends |-> <<>>]
    /\ acks = [e \in Ends |-> 0]
    /\ notices = [e \in Ends |-> 0]
    /\ recvs = [e \in Ends |-> RecvDepth]
    /\ write_cqes = [e \in Ends |-> 0]
    /\ recv_cqes = [e \in Ends |-> <<>>]
    /\ ack_cqes = [e \in Ends |-> 0]
    /\ notice_cqes = [e \in Ends |-> 0]
    /\ handling = [e \in Ends |-> None]
    /\ status = [e \in Ends |-> "WORK"]
    /\ requested = [e \in Ends |-> <<>>]
    /\ sent = [e \in Ends |-> <<>>]
    /\ got = [e \in Ends |-> <<>>]

-----------------------------------------------------------------------------
(* Worker threads: task_with_lock and the body it wraps. *)

TaskWithLock(e, m) ==
    /\ m \notin Range(requested[e])
    /\ requested' = [requested EXCEPT ![e] = Append(@, m)]
    /\ queue' = [queue EXCEPT ![e] = Append(@, m)]
    /\ UNCHANGED <<ready, asleep, locks, unlocks, buffers, wire, cqes, handling,
                   status, sent, got>>

\* (mutation) one task more than there are threads
FreeThreadOrOneMore(e) == Cardinality(ready[e] \cup asleep[e]) <= WorkThreads

\* A thread of work_pool_ is free when it runs no task.
FreeThread(e) == Cardinality(ready[e] \cup asleep[e]) < WorkThreads

TakeTask(e) ==
    /\ queue[e] # <<>>
    /\ FreeThread(e)
    /\ ready' = [ready EXCEPT ![e] = @ \cup {Head(queue[e])}]
    /\ queue' = [queue EXCEPT ![e] = Tail(@)]
    /\ UNCHANGED <<asleep, locks, unlocks, buffers, wire, cqes, handling, status,
                   history>>

\* (mutations) only one of the two locks is waited for
UnlockedLocally(e) == local_status[e] # "LOCK"
UnlockedRemotely(e) == remote_status[e] # "LOCK"

\* write: the message is posted to the incoming buffer of the peer.
Write(e, m) == writes' = [writes EXCEPT ![e] = Append(@, m)]

\* The predicate of channel_cv_.wait.
Unlocked(e) == local_status[e] # "LOCK" /\ remote_status[e] # "LOCK"

\* The thread has the mutex and both locks are free: it takes them, fills
\* outgoing_ and posts the write, all under the mutex.
RunTask(e, m) ==
    /\ m \in ready[e]
    /\ Unlocked(e)
    /\ local_status' = [local_status EXCEPT ![e] = "LOCK"]
    /\ remote_status' = [remote_status EXCEPT ![e] = "LOCK"]
    /\ outgoing' = [outgoing EXCEPT ![e] = m]
    /\ Write(e, m)
    /\ sent' = [sent EXCEPT ![e] = Append(@, m)]
    /\ ready' = [ready EXCEPT ![e] = @ \ {m}]
    /\ UNCHANGED <<queue, asleep, unlocks, incoming, acks, notices, recvs, cqes,
                   handling, status, requested, got>>

\* The thread has the mutex and a lock is taken: it sleeps on channel_cv_.
WaitTask(e, m) ==
    /\ m \in ready[e]
    /\ ~Unlocked(e)
    /\ ready' = [ready EXCEPT ![e] = @ \ {m}]
    /\ asleep' = [asleep EXCEPT ![e] = @ \cup {m}]
    /\ UNCHANGED <<queue, locks, unlocks, buffers, wire, cqes, handling, status,
                   history>>

\* The standard allows wait to return for no reason; the predicate is rechecked.
SpuriousWakeup(e, m) ==
    /\ m \in asleep[e]
    /\ asleep' = [asleep EXCEPT ![e] = @ \ {m}]
    /\ ready' = [ready EXCEPT ![e] = @ \cup {m}]
    /\ UNCHANGED <<queue, locks, unlocks, buffers, wire, cqes, handling, status,
                   history>>

-----------------------------------------------------------------------------
(* Unlock threads: the tasks of release_local and release_remote. *)

\* (mutation) the notification is forgotten
NotifyNone(e) == UNCHANGED <<ready, asleep>>

NotifyOne(e) ==
    \/ asleep[e] = {} /\ UNCHANGED <<ready, asleep>>
    \/ \E m \in asleep[e] :
         /\ asleep' = [asleep EXCEPT ![e] = @ \ {m}]
         /\ ready' = [ready EXCEPT ![e] = @ \cup {m}]

ReleaseLocal(e) ==
    /\ unlock_local[e] > 0
    /\ unlock_local' = [unlock_local EXCEPT ![e] = @ - 1]
    /\ local_status' = [local_status EXCEPT ![e] = "IDLE"]
    /\ NotifyOne(e)
    /\ UNCHANGED <<queue, remote_status, unlock_remote, buffers, wire, cqes,
                   handling, status, history>>

ReleaseRemote(e) ==
    /\ unlock_remote[e] > 0
    /\ unlock_remote' = [unlock_remote EXCEPT ![e] = @ - 1]
    /\ remote_status' = [remote_status EXCEPT ![e] = "IDLE"]
    /\ NotifyOne(e)
    /\ UNCHANGED <<queue, local_status, unlock_local, buffers, wire, cqes,
                   handling, status, history>>

-----------------------------------------------------------------------------
(* The reliable connection.  Each operation consumes a receive of the peer *)
(* and waits for one without limit (rnr_retry = 7).                        *)

\* The NIC reads outgoing_ now, not when the write was posted.
ExecuteWrite(e) ==
    /\ writes[e] # <<>>
    /\ recvs[Peer(e)] > 0
    /\ incoming' = [incoming EXCEPT ![Peer(e)] = outgoing[e]]
    /\ recv_cqes' = [recv_cqes EXCEPT ![Peer(e)] = Append(@, Head(writes[e]))]
    /\ writes' = [writes EXCEPT ![e] = Tail(@)]
    /\ write_cqes' = [write_cqes EXCEPT ![e] = @ + 1]
    /\ recvs' = [recvs EXCEPT ![Peer(e)] = @ - 1]
    /\ UNCHANGED <<pool, locks, unlocks, outgoing, acks, notices, ack_cqes,
                   notice_cqes, handling, status, history>>

ExecuteAck(e) ==
    /\ acks[e] > 0
    /\ recvs[Peer(e)] > 0
    /\ ack_cqes' = [ack_cqes EXCEPT ![Peer(e)] = @ + 1]
    /\ acks' = [acks EXCEPT ![e] = @ - 1]
    /\ recvs' = [recvs EXCEPT ![Peer(e)] = @ - 1]
    /\ UNCHANGED <<pool, locks, unlocks, buffers, writes, notices, write_cqes,
                   recv_cqes, notice_cqes, handling, status, history>>

ExecuteNotice(e) ==
    /\ notices[e] > 0
    /\ recvs[Peer(e)] > 0
    /\ notice_cqes' = [notice_cqes EXCEPT ![Peer(e)] = @ + 1]
    /\ notices' = [notices EXCEPT ![e] = @ - 1]
    /\ recvs' = [recvs EXCEPT ![Peer(e)] = @ - 1]
    /\ UNCHANGED <<pool, locks, unlocks, buffers, writes, acks, write_cqes, recv_cqes,
                   ack_cqes, handling, status, history>>

-----------------------------------------------------------------------------
(* The CQ thread of a session: one handler at a time. *)

\* (mutations) the receive is not reposted, or twice
RecvNever(e) == UNCHANGED recvs
RecvTwice(e) == recvs' = [recvs EXCEPT ![e] = @ + 2]

\* Every receive completion is answered by a new receive, before anything else.
Recv(e) == recvs' = [recvs EXCEPT ![e] = @ + 1]

ProcessWriteSuccess(e) ==
    /\ handling[e] = None
    /\ write_cqes[e] > 0
    /\ write_cqes' = [write_cqes EXCEPT ![e] = @ - 1]
    /\ unlock_local' = [unlock_local EXCEPT ![e] = @ + 1]
    /\ UNCHANGED <<pool, locks, unlock_remote, buffers, wire, recv_cqes, ack_cqes,
                   notice_cqes, handling, status, history>>

\* (mutation) the test of status_ is inverted
IgnoredInWork(e, m) == m \in Requests /\ status[e] = "WORK"

\* A request that finds the session out of WORK is dropped: no parse, no ACK.
Ignored(e, m) == m \in Requests /\ status[e] # "WORK"

ProcessAttachedMessage(e) ==
    /\ handling[e] = None
    /\ recv_cqes[e] # <<>>
    /\ recv_cqes' = [recv_cqes EXCEPT ![e] = Tail(@)]
    /\ Recv(e)
    /\ IF Ignored(e, Head(recv_cqes[e]))
       THEN UNCHANGED <<handling, got>>
       ELSE /\ handling' = [handling EXCEPT ![e] = incoming[e]]
            /\ got' = [got EXCEPT ![e] = Append(@, incoming[e])]
    /\ UNCHANGED <<pool, locks, unlocks, buffers, writes, acks, notices, write_cqes,
                   ack_cqes, notice_cqes, status, requested, sent>>

\* send: the ACK is posted.
Send(e) == acks' = [acks EXCEPT ![e] = @ + 1]

\* send: a notice is posted, within the bound of the model.
PostNotice(e) ==
    /\ notices[e] + notice_cqes[Peer(e)] < Notices[e]
    /\ notices' = [notices EXCEPT ![e] = @ + 1]

\* The same handler goes on: the ACK is posted; a READ_OVER may be the last that
\* a CLOSING session has waited for.
SendAck(e) ==
    /\ handling[e] # None
    /\ handling' = [handling EXCEPT ![e] = None]
    /\ Send(e)
    /\ \/ UNCHANGED <<notices, status>>
       \/ /\ handling[e] \notin Requests /\ status[e] = "CLOSING"
          /\ PostNotice(e)
          /\ status' = [status EXCEPT ![e] = "CLOSED"]
    /\ UNCHANGED <<pool, locks, unlocks, buffers, writes, recvs, cqes, history>>

ProcessAck(e) ==
    /\ handling[e] = None
    /\ ack_cqes[e] > 0
    /\ ack_cqes' = [ack_cqes EXCEPT ![e] = @ - 1]
    /\ Recv(e)
    /\ unlock_remote' = [unlock_remote EXCEPT ![e] = @ + 1]
    /\ UNCHANGED <<pool, locks, unlock_local, buffers, writes, acks, notices,
                   write_cqes, recv_cqes, notice_cqes, handling, status, history>>

\* The application closes (CLOSE), or the last READ of a round is done (SYNC_ACK).
SendNotice(e) ==
    /\ PostNotice(e)
    /\ UNCHANGED <<pool, locks, unlocks, buffers, writes, acks, recvs, cqes, handling,
                   status, history>>

\* A handler may answer, CLOSE with CLOSE_ACK and CLOSE_ACK with CLOSE_TERMINATE,
\* and may set status_; none looks at it first, so a CLOSED session may be CLOSING
\* again.
ProcessNotice(e) ==
    /\ handling[e] = None
    /\ notice_cqes[e] > 0
    /\ notice_cqes' = [notice_cqes EXCEPT ![e] = @ - 1]
    /\ Recv(e)
    /\ PostNotice(e) \/ UNCHANGED notices
    /\ \E to \in {status[e], "CLOSING", "CLOSED"} : status' = [status EXCEPT ![e] = to]
    /\ UNCHANGED <<pool, locks, unlocks, buffers, writes, acks, write_cqes, recv_cqes,
                   ack_cqes, handling, history>>

-----------------------------------------------------------------------------

Worker(e, m) == RunTask(e, m) \/ WaitTask(e, m)

\* The CQ thread of a session runs until the session is CLOSED.
Polls(e) == status[e] # "CLOSED"

Next == \E e \in Ends :
    \/ \E m \in Msgs[e] : \/ TaskWithLock(e, m)
                          \/ RunTask(e, m)
                          \/ WaitTask(e, m)
                          \/ SpuriousWakeup(e, m)
    \/ TakeTask(e)
    \/ ReleaseLocal(e)
    \/ ReleaseRemote(e)
    \/ ExecuteWrite(e)
    \/ ExecuteAck(e)
    \/ ExecuteNotice(e)
    \/ ProcessWriteSuccess(e)
    \/ ProcessAttachedMessage(e)
    \/ SendAck(e)
    \/ ProcessAck(e)
    \/ SendNotice(e)
    \/ ProcessNotice(e)

Spec == Init /\ [][Next]_vars

\* Every thread runs when it can and the reliable connection executes what was
\* posted.  The completion queue is first-in, first-out: a CQ thread that polls
\* comes to the completions of every kind.
Fairness == \A e \in Ends :
    /\ WF_vars(TakeTask(e))
    /\ \A m \in Msgs[e] : WF_vars(Worker(e, m))
    /\ WF_vars(ReleaseLocal(e))
    /\ WF_vars(ReleaseRemote(e))
    /\ WF_vars(ExecuteWrite(e))
    /\ WF_vars(ExecuteAck(e))
    /\ WF_vars(ExecuteNotice(e))
    /\ WF_vars(Polls(e) /\ ProcessWriteSuccess(e))
    /\ WF_vars(Polls(e) /\ ProcessAttachedMessage(e))
    /\ WF_vars(Polls(e) /\ SendAck(e))
    /\ WF_vars(Polls(e) /\ ProcessAck(e))
    /\ WF_vars(Polls(e) /\ ProcessNotice(e))

FairSpec == Spec /\ Fairness

-----------------------------------------------------------------------------
(* Properties. *)

PoolTypeOK == /\ queue \in [Ends -> Seq(Msg)]
              /\ ready \in [Ends -> SUBSET Msg]
              /\ asleep \in [Ends -> SUBSET Msg]

LocksTypeOK == /\ local_status \in [Ends -> {"IDLE", "LOCK"}]
               /\ remote_status \in [Ends -> {"IDLE", "LOCK"}]
               /\ unlock_local \in [Ends -> Nat]
               /\ unlock_remote \in [Ends -> Nat]

BuffersTypeOK == /\ outgoing \in [Ends -> Msg \cup {None}]
                 /\ incoming \in [Ends -> Msg \cup {None}]
                 /\ handling \in [Ends -> Msg \cup {None}]

WireTypeOK == /\ writes \in [Ends -> Seq(Msg)]
              /\ acks \in [Ends -> Nat]
              /\ notices \in [Ends -> Nat]
              /\ recvs \in [Ends -> 0..RecvDepth]

CqesTypeOK == /\ write_cqes \in [Ends -> Nat]
              /\ recv_cqes \in [Ends -> Seq(Msg)]
              /\ ack_cqes \in [Ends -> Nat]
              /\ notice_cqes \in [Ends -> Nat]

HistoryTypeOK == /\ requested \in [Ends -> Seq(Msg)]
                 /\ sent \in [Ends -> Seq(Msg)]
                 /\ got \in [Ends -> Seq(Msg \cup {None})]

\* Every variable has its type, and no end has more than RecvDepth receives
\* posted; that nothing is parsed from an empty buffer is part of IntactInOrder.
TypeOK == /\ PoolTypeOK
          /\ LocksTypeOK
          /\ BuffersTypeOK
          /\ WireTypeOK
          /\ CqesTypeOK
          /\ status \in [Ends -> {"WORK", "CLOSING", "CLOSED"}]
          /\ HistoryTypeOK

\* What an end parses is what the peer copied out, message by message, in that
\* order and unchanged, and the peer copies no second message out before the
\* first is parsed: the two one-message buffers lose, repeat and tear nothing
\* (task_with_lock, ExecuteWrite, process_attached_message).
IntactInOrder == \A e \in Ends :
    \/ sent[e] = got[Peer(e)]
    \/ \E m \in Msgs[e] : sent[e] = Append(got[Peer(e)], m)

One(lock) == IF lock = "LOCK" THEN 1 ELSE 0
OneIfAny(m) == IF m = None THEN 0 ELSE 1

\* The places where the token that will release a lock can be.
LocalToken(e) == Len(writes[e]) + write_cqes[e] + unlock_local[e]
Outbound(e) ==
    Len(writes[e]) + Len(recv_cqes[Peer(e)]) + OneIfAny(handling[Peer(e)])
Returning(e) == acks[Peer(e)] + ack_cqes[e] + unlock_remote[e]
RemoteToken(e) == Outbound(e) + Returning(e)

\* A taken lock is owed exactly one release, a free lock none: no completion or
\* ACK of an earlier message can free the lock of a later one.  Only a request
\* ignored by a peer out of WORK leaves remote_status_ taken for good.
LocksAccounted == \A e \in Ends :
    /\ LocalToken(e) = One(local_status[e])
    /\ RemoteToken(e) <= One(remote_status[e])
    /\ status[Peer(e)] = "WORK" =>
         RemoteToken(e) = One(remote_status[e])

\* notify_one never wakes the wrong moment: when both locks are free and a thread
\* sleeps on channel_cv_, some thread is on its way to recheck the predicate.
NoLostWakeup == \A e \in Ends :
    Unlocked(e) /\ asleep[e] # {} => ready[e] # {}

\* The outgoing buffer is not refilled while the NIC may still read it, that is
\* until the write posted from it has completed.
OutgoingStable ==
    [][\A e \in Ends : Len(writes[e]) + write_cqes[e] > 0
                           => outgoing'[e] = outgoing[e]]_vars

\* Reposting one receive per receive completion is enough: whatever an end has
\* posted, message, ACK or notice, finds a receive at its peer; the connection never
\* waits for one as long as the depth is two more than the notices under way.
ReceiverReady == \A e \in Ends :
    (writes[e] # <<>> \/ acks[e] > 0 \/ notices[e] > 0) => recvs[Peer(e)] > 0

\* The channel is not FIFO, but a message overtakes at most WorkThreads - 1
\* messages requested before it: one per other thread of the pool.
BoundedOvertaking ==
    [][\A e \in Ends : \A i \in DOMAIN requested[e] :
          requested[e][i] \in Range(sent'[e]) \ Range(sent[e]) =>
             Cardinality({j \in 1..(i - 1) :
                            requested[e][j] \notin Range(sent[e])}) < WorkThreads]_vars

\* The channel implements the one-slot mailbox.
ToDo == [e \in Ends |-> Range(queue[e]) \cup ready[e] \cup asleep[e]]
MB == INSTANCE Mailbox WITH todo <- ToDo
MailboxSpec == MB!Spec

\* While both sessions stay in WORK every requested message is parsed by the peer.
EveryRequestDelivered == \A e \in Ends : \A m \in Msgs[e] :
    m \in Range(requested[e]) ~> \/ m \in Range(got[Peer(e)])
                                \/ \E x \in Ends : status[x] # "WORK"

=============================================================================
