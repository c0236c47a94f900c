---------------------------- MODULE ChannelProofs ----------------------------
(***************************************************************************)
(* The safety of Channel for any messages, any number of worker threads,   *)
(* any number of notices under way and any depth two above it.             *)
(*                                                                         *)
(* Neither lock alone says where a message is, so the properties are not   *)
(* inductive one by one.  The invariant IInv counts, for each direction,   *)
(* the token that will release each lock (LocalOwed, RemoteOwed), ties     *)
(* every place the remote token can be in to what has been sent and parsed *)
(* (Flight), and counts the receives.                                      *)
(***************************************************************************)
EXTENDS Channel, SequenceLemmas, TLAPS

-----------------------------------------------------------------------------
(* The inductive invariant. *)

Accounted(e) ==
    recvs[e] + Len(recv_cqes[e]) + ack_cqes[e] + notice_cqes[e] = RecvDepth
ReceivesAccounted == \A e \in Ends : Accounted(e)

NoticesBounded == \A e \in Ends : notices[e] + notice_cqes[Peer(e)] <= Notices[e]

\* LocksAccounted for one end and one lock.
LocalOwed(e) == LocalToken(e) = One(local_status[e])

RemoteOwed(e) ==
    /\ RemoteToken(e) <= One(remote_status[e])
    /\ status[Peer(e)] = "WORK" => RemoteToken(e) = One(remote_status[e])

\* Where the one message on its way from e is: while its write is posted or its
\* completion waits at the peer, the buffer it is in; with the lock free or the
\* token on its way back it has been parsed.
Flight(e) ==
    /\ writes[e] # <<>> =>
         outgoing[e] \in Msgs[e] /\ sent[e] = Append(got[Peer(e)], outgoing[e])
    /\ recv_cqes[Peer(e)] # <<>> =>
         /\ incoming[Peer(e)] \in Msgs[e]
         /\ sent[e] = Append(got[Peer(e)], incoming[Peer(e)])
    /\ (\/ remote_status[e] = "IDLE"
        \/ handling[Peer(e)] # None
        \/ acks[Peer(e)] > 0
        \/ ack_cqes[e] > 0
        \/ unlock_remote[e] > 0) => sent[e] = got[Peer(e)]
    /\ \/ sent[e] = got[Peer(e)]
       \/ \E m \in Msgs[e] : sent[e] = Append(got[Peer(e)], m)

IInv == /\ TypeOK
        /\ ReceivesAccounted
        /\ NoticesBounded
        /\ \A e \in Ends : LocalOwed(e) /\ RemoteOwed(e) /\ Flight(e)

-----------------------------------------------------------------------------
(* Lemmas about the two ends and their messages. *)

LEMMA PeerFacts ==
    /\ \A e \in Ends : Peer(e) \in Ends /\ Peer(e) # e /\ Peer(Peer(e)) = e
    /\ \A e, f \in Ends : f = e \/ f = Peer(e)
  BY EndsAssumption DEF Ends, Peer

LEMMA MsgFacts == /\ \A e \in Ends : Msgs[e] \subseteq Msg
                  /\ None \notin Msg
  BY MsgsAssumption DEF Ends, Msg

-----------------------------------------------------------------------------
(* The type invariant, with the count of receives that bounds recvs. *)

\* A notice more, one less, or one moved, under the bound.
LEMMA UnderBound ==
    ASSUME NEW n \in Nat, NEW k \in Nat, NEW b \in Nat, n + k <= b
    PROVE  /\ n + k < b => (n + 1) + k <= b
           /\ n + (k - 1) <= b
           /\ (n - 1) + (k + 1) <= b
  OBVIOUS

\* A receive that is used up turns into a completion.
LEMMA OneForOne == \A r, n, a, k \in Nat :
    /\ (r - 1) + (n + 1) + a + k = r + n + a + k
    /\ (r - 1) + n + (a + 1) + k = r + n + a + k
    /\ (r - 1) + n + a + (k + 1) = r + n + a + k
OBVIOUS

\* Every step keeps the number of receives of an end.
LEMMA ReceivesStep ==
    TypeOK /\ ReceivesAccounted /\ [Next]_vars => ReceivesAccounted'
<1> SUFFICES ASSUME WireTypeOK, CqesTypeOK, ReceivesAccounted, [Next]_vars,
                    NEW f \in Ends
             PROVE  Accounted(f)'
  BY DEF ReceivesAccounted, TypeOK
<1>0. Accounted(f)
  BY DEF ReceivesAccounted
<1> USE DEF WireTypeOK, CqesTypeOK
<1>1. ASSUME NEW e \in Ends, ExecuteWrite(e)
      PROVE  Accounted(f)'
  <2>1. Peer(e) \in Ends
    BY PeerFacts
  <2>2. CASE f = Peer(e)
    <3> DEFINE r == recvs[f]
               n == Len(recv_cqes[f])
               a == ack_cqes[f]
               k == notice_cqes[f]
    <3>1. /\ recvs'[f] = recvs[f] - 1
          /\ recv_cqes'[f] = Append(recv_cqes[f], Head(writes[e]))
          /\ ack_cqes'[f] = ack_cqes[f]
          /\ notice_cqes'[f] = notice_cqes[f]
      BY <1>1, <2>1, <2>2 DEF ExecuteWrite
    <3>2. Len(recv_cqes'[f]) = Len(recv_cqes[f]) + 1
      <4>1. writes[e] \in Seq(Msg) /\ writes[e] # <<>> /\ recv_cqes[f] \in Seq(Msg)
        BY <1>1 DEF ExecuteWrite
      <4>2. Head(writes[e]) \in Msg
        BY <4>1
      <4>3. QED
        BY <3>1, <4>1, <4>2
    <3>3. r \in Nat /\ n \in Nat /\ a \in Nat /\ k \in Nat
      BY RecvDepthAssumption
    <3>4. /\ recvs'[f] + Len(recv_cqes'[f]) + ack_cqes'[f] + notice_cqes'[f]
             = (r - 1) + (n + 1) + a + k
          /\ r + n + a + k = RecvDepth
      BY <1>0, <3>1, <3>2, Zenon DEF Accounted
    <3>5. recvs'[f] + Len(recv_cqes'[f]) + ack_cqes'[f] + notice_cqes'[f] = RecvDepth
      <4> HIDE DEF r, n, a, k
      <4>1. (r - 1) + (n + 1) + a + k = r + n + a + k
        BY <3>3, OneForOne
      <4>2. QED
        BY <3>4, <4>1, Zenon
    <3>6. QED
      BY <3>5 DEF Accounted
  <2>3. CASE f # Peer(e)
    BY <1>0, <1>1, <2>1, <2>3 DEF Accounted, ExecuteWrite, cqes
  <2>4. QED
    BY <2>2, <2>3
<1>2. ASSUME NEW e \in Ends, ExecuteAck(e)
      PROVE  Accounted(f)'
  <2>1. Peer(e) \in Ends
    BY PeerFacts
  <2>2. CASE f = Peer(e)
    <3> DEFINE r == recvs[f]
               n == Len(recv_cqes[f])
               a == ack_cqes[f]
               k == notice_cqes[f]
    <3>1. /\ recvs'[f] = recvs[f] - 1
          /\ recv_cqes'[f] = recv_cqes[f]
          /\ ack_cqes'[f] = ack_cqes[f] + 1
          /\ notice_cqes'[f] = notice_cqes[f]
      BY <1>2, <2>1, <2>2 DEF ExecuteAck
    <3>2. r \in Nat /\ n \in Nat /\ a \in Nat /\ k \in Nat
      BY RecvDepthAssumption
    <3>3. /\ recvs'[f] + Len(recv_cqes'[f]) + ack_cqes'[f] + notice_cqes'[f]
             = (r - 1) + n + (a + 1) + k
          /\ r + n + a + k = RecvDepth
      BY <1>0, <3>1, Zenon DEF Accounted
    <3>4. recvs'[f] + Len(recv_cqes'[f]) + ack_cqes'[f] + notice_cqes'[f] = RecvDepth
      <4> HIDE DEF r, n, a, k
      <4>1. (r - 1) + n + (a + 1) + k = r + n + a + k
        BY <3>2, OneForOne
      <4>2. QED
        BY <3>3, <4>1, Zenon
    <3>5. QED
      BY <3>4 DEF Accounted
  <2>3. CASE f # Peer(e)
    BY <1>0, <1>2, <2>1, <2>3 DEF Accounted, ExecuteAck, cqes
  <2>4. QED
    BY <2>2, <2>3
<1>3. ASSUME NEW e \in Ends, ProcessAttachedMessage(e)
      PROVE  Accounted(f)'
  BY <1>0, <1>3, RecvDepthAssumption DEF Accounted, ProcessAttachedMessage, Recv, cqes
<1>4. ASSUME NEW e \in Ends, ProcessAck(e)
      PROVE  Accounted(f)'
  BY <1>0, <1>4, RecvDepthAssumption DEF Accounted, ProcessAck, Recv, cqes
<1>5. ASSUME UNCHANGED <<recvs, recv_cqes, ack_cqes, notice_cqes>>
      PROVE  Accounted(f)'
  BY <1>0, <1>5 DEF Accounted
<1>6. ASSUME NEW e \in Ends, ExecuteNotice(e)
      PROVE  Accounted(f)'
  <2>1. Peer(e) \in Ends
    BY PeerFacts
  <2>2. CASE f = Peer(e)
    <3> DEFINE r == recvs[f]
               n == Len(recv_cqes[f])
               a == ack_cqes[f]
               k == notice_cqes[f]
    <3>1. /\ recvs'[f] = recvs[f] - 1
          /\ recv_cqes'[f] = recv_cqes[f]
          /\ ack_cqes'[f] = ack_cqes[f]
          /\ notice_cqes'[f] = notice_cqes[f] + 1
      BY <1>6, <2>1, <2>2 DEF ExecuteNotice
    <3>2. r \in Nat /\ n \in Nat /\ a \in Nat /\ k \in Nat
      BY RecvDepthAssumption
    <3>3. /\ recvs'[f] + Len(recv_cqes'[f]) + ack_cqes'[f] + notice_cqes'[f]
             = (r - 1) + n + a + (k + 1)
          /\ r + n + a + k = RecvDepth
      BY <1>0, <3>1, Zenon DEF Accounted
    <3>4. recvs'[f] + Len(recv_cqes'[f]) + ack_cqes'[f] + notice_cqes'[f] = RecvDepth
      <4> HIDE DEF r, n, a, k
      <4>1. (r - 1) + n + a + (k + 1) = r + n + a + k
        BY <3>2, OneForOne
      <4>2. QED
        BY <3>3, <4>1, Zenon
    <3>5. QED
      BY <3>4 DEF Accounted
  <2>3. CASE f # Peer(e)
    BY <1>0, <1>6, <2>1, <2>3 DEF Accounted, ExecuteNotice, cqes
  <2>4. QED
    BY <2>2, <2>3
<1>7. ASSUME NEW e \in Ends, ProcessNotice(e)
      PROVE  Accounted(f)'
  BY <1>0, <1>7, RecvDepthAssumption DEF Accounted, ProcessNotice, Recv, cqes
<1>8. QED
  BY <1>1, <1>2, <1>3, <1>4, <1>5, <1>6, <1>7
  DEF Next, vars, wire, cqes, TaskWithLock, TakeTask, RunTask, Write, WaitTask,
      SpuriousWakeup, ReleaseLocal, ReleaseRemote, ProcessWriteSuccess, SendAck,
      Send, SendNotice

\* Every step keeps the notices of an end under their bound.
LEMMA NoticesStep ==
    TypeOK /\ NoticesBounded /\ [Next]_vars => NoticesBounded'
<1> SUFFICES ASSUME WireTypeOK, CqesTypeOK, NoticesBounded, [Next]_vars,
                    NEW f \in Ends, NEW p \in Ends, p = Peer(f)
             PROVE  notices'[f] + notice_cqes'[p] <= Notices[f]
  BY PeerFacts DEF NoticesBounded, TypeOK
<1>0. /\ notices[f] + notice_cqes[p] <= Notices[f]
      /\ notices[f] \in Nat /\ notice_cqes[p] \in Nat /\ Notices[f] \in Nat
      /\ \A e \in Ends : Peer(e) = p => e = f
  BY PeerFacts, NoticesAssumption DEF NoticesBounded, WireTypeOK, CqesTypeOK
<1> USE DEF WireTypeOK, CqesTypeOK
<1>1. ASSUME NEW e \in Ends, UNCHANGED notices \/ PostNotice(e),
             \/ notice_cqes'[p] = notice_cqes[p]
             \/ e = p /\ notice_cqes'[p] = notice_cqes[p] - 1
      PROVE  notices'[f] + notice_cqes'[p] <= Notices[f]
  <2>0. \/ notice_cqes'[p] = notice_cqes[p]
        \/ notice_cqes'[p] = notice_cqes[p] - 1
    BY <1>1
  <2>1. CASE UNCHANGED notices
    <3>1. notices'[f] = notices[f]
      BY <2>1
    <3>2. QED
      BY <1>0, <2>0, <3>1, UnderBound, Zenon
  <2>2. CASE PostNotice(e) /\ e = f
    <3>1. notices'[f] = notices[f] + 1 /\ notices[f] + notice_cqes[p] < Notices[f]
      BY <2>2 DEF PostNotice
    <3>2. notice_cqes'[p] = notice_cqes[p]
      BY <1>1, <2>2, PeerFacts
    <3>3. QED
      BY <1>0, <3>1, <3>2, UnderBound, Zenon
  <2>3. CASE PostNotice(e) /\ e # f
    <3>1. notices'[f] = notices[f]
      BY <2>3 DEF PostNotice
    <3>2. QED
      BY <1>0, <2>0, <3>1, UnderBound, Zenon
  <2>4. QED
    BY <1>1, <2>1, <2>2, <2>3
<1>2. ASSUME NEW e \in Ends, ExecuteNotice(e)
      PROVE  notices'[f] + notice_cqes'[p] <= Notices[f]
  <2>0. Peer(e) \in Ends
    BY PeerFacts
  <2>1. CASE e = f
    <3>1. notices'[f] = notices[f] - 1 /\ notice_cqes'[p] = notice_cqes[p] + 1
      BY <1>2, <2>0, <2>1 DEF ExecuteNotice
    <3>2. QED
      BY <1>0, <3>1
  <2>2. CASE e # f
    <3>1. notices'[f] = notices[f] /\ notice_cqes'[p] = notice_cqes[p]
      BY <1>0, <1>2, <2>0, <2>2 DEF ExecuteNotice
    <3>2. QED
      BY <1>0, <3>1
  <2>3. QED
    BY <2>1, <2>2
<1>3. ASSUME NEW e \in Ends, ProcessNotice(e)
      PROVE  notices'[f] + notice_cqes'[p] <= Notices[f]
  <2>1. \/ notice_cqes'[p] = notice_cqes[p]
        \/ e = p /\ notice_cqes'[p] = notice_cqes[p] - 1
    BY <1>3 DEF ProcessNotice
  <2>2. QED
    BY <1>1, <1>3, <2>1 DEF ProcessNotice
<1>4. ASSUME NEW e \in Ends, SendNotice(e) \/ SendAck(e)
      PROVE  notices'[f] + notice_cqes'[p] <= Notices[f]
  <2>1. notice_cqes' = notice_cqes /\ (UNCHANGED notices \/ PostNotice(e))
    BY <1>4 DEF SendNotice, SendAck, Send, cqes
  <2>2. QED
    BY <1>1, <2>1
<1>5. ASSUME UNCHANGED <<notices, notice_cqes>>
      PROVE  notices'[f] + notice_cqes'[p] <= Notices[f]
  BY <1>0, <1>5
<1>6. QED
  BY <1>2, <1>3, <1>4, <1>5
  DEF Next, vars, wire, cqes, TaskWithLock, TakeTask, RunTask, Write, WaitTask,
      SpuriousWakeup, ReleaseLocal, ReleaseRemote, ExecuteWrite, ExecuteAck,
      ProcessWriteSuccess, ProcessAttachedMessage, Recv, ProcessAck

\* A notification moves a task between the sets of the pool.
LEMMA NotifyType ==
    ASSUME PoolTypeOK, NEW e \in Ends, NotifyOne(e), UNCHANGED queue
    PROVE  PoolTypeOK'
<1>1. CASE UNCHANGED <<ready, asleep>>
  BY <1>1 DEF PoolTypeOK
<1>2. CASE \E m \in asleep[e] :
             /\ asleep' = [asleep EXCEPT ![e] = @ \ {m}]
             /\ ready' = [ready EXCEPT ![e] = @ \cup {m}]
  BY <1>2 DEF PoolTypeOK
<1>3. QED
  BY <1>1, <1>2 DEF NotifyOne

\* Every step keeps the types.
LEMMA TypeStep == TypeOK /\ ReceivesAccounted /\ [Next]_vars => TypeOK'
<1> SUFFICES ASSUME TypeOK, ReceivesAccounted, [Next]_vars
             PROVE  TypeOK'
  OBVIOUS
<1> USE DEF TypeOK
<1>1. ASSUME NEW e \in Ends, NEW m \in Msgs[e], TaskWithLock(e, m)
      PROVE  TypeOK'
  <2>0. m \in Msg
    BY MsgFacts
  <2>1. PoolTypeOK'
    BY <1>1, <2>0 DEF TaskWithLock, PoolTypeOK, pool
  <2>2. HistoryTypeOK'
    BY <1>1, <2>0 DEF TaskWithLock, HistoryTypeOK, history
  <2>3. QED
    BY <1>1, <2>1, <2>2
    DEF TaskWithLock, LocksTypeOK, BuffersTypeOK, WireTypeOK, CqesTypeOK,
        locks, unlocks, buffers, wire, cqes
<1>2. ASSUME NEW e \in Ends, TakeTask(e)
      PROVE  TypeOK'
  <2>1. PoolTypeOK'
    BY <1>2 DEF TakeTask, PoolTypeOK, pool
  <2>2. QED
    BY <1>2, <2>1
    DEF TakeTask, LocksTypeOK, BuffersTypeOK, WireTypeOK, CqesTypeOK, HistoryTypeOK,
        locks, unlocks, buffers, wire, cqes, history
<1>3. ASSUME NEW e \in Ends, NEW m \in Msgs[e], RunTask(e, m)
      PROVE  TypeOK'
  <2>0. m \in Msg
    BY MsgFacts
  <2>1. PoolTypeOK'
    BY <1>3, <2>0 DEF RunTask, Write, PoolTypeOK, pool
  <2>2. LocksTypeOK'
    BY <1>3, <2>0 DEF RunTask, Write, LocksTypeOK, locks, unlocks
  <2>3. BuffersTypeOK'
    BY <1>3, <2>0 DEF RunTask, Write, BuffersTypeOK, buffers
  <2>4. WireTypeOK'
    BY <1>3, <2>0 DEF RunTask, Write, WireTypeOK, wire
  <2>5. HistoryTypeOK'
    BY <1>3, <2>0 DEF RunTask, Write, HistoryTypeOK, history
  <2>6. QED
    BY <1>3, <2>1, <2>2, <2>3, <2>4, <2>5
    DEF RunTask, Write, CqesTypeOK,
        cqes
<1>4. ASSUME NEW e \in Ends, NEW m \in Msgs[e], WaitTask(e, m)
      PROVE  TypeOK'
  <2>0. m \in Msg
    BY MsgFacts
  <2>1. PoolTypeOK'
    BY <1>4, <2>0 DEF WaitTask, PoolTypeOK, pool
  <2>2. QED
    BY <1>4, <2>1
    DEF WaitTask, LocksTypeOK, BuffersTypeOK, WireTypeOK, CqesTypeOK, HistoryTypeOK,
        locks, unlocks, buffers, wire, cqes, history
<1>5. ASSUME NEW e \in Ends, NEW m \in Msgs[e], SpuriousWakeup(e, m)
      PROVE  TypeOK'
  <2>0. m \in Msg
    BY MsgFacts
  <2>1. PoolTypeOK'
    BY <1>5, <2>0 DEF SpuriousWakeup, PoolTypeOK, pool
  <2>2. QED
    BY <1>5, <2>1
    DEF SpuriousWakeup, LocksTypeOK, BuffersTypeOK, WireTypeOK, CqesTypeOK, HistoryTypeOK,
        locks, unlocks, buffers, wire, cqes, history
<1>6. ASSUME NEW e \in Ends, ReleaseLocal(e)
      PROVE  TypeOK'
  <2>1. PoolTypeOK'
    BY <1>6, NotifyType DEF ReleaseLocal
  <2>2. LocksTypeOK'
    BY <1>6 DEF ReleaseLocal, LocksTypeOK, locks, unlocks
  <2>3. QED
    BY <1>6, <2>1, <2>2
    DEF ReleaseLocal, BuffersTypeOK, WireTypeOK, CqesTypeOK, HistoryTypeOK,
        buffers, wire, cqes, history
<1>7. ASSUME NEW e \in Ends, ReleaseRemote(e)
      PROVE  TypeOK'
  <2>1. PoolTypeOK'
    BY <1>7, NotifyType DEF ReleaseRemote
  <2>2. LocksTypeOK'
    BY <1>7 DEF ReleaseRemote, LocksTypeOK, locks, unlocks
  <2>3. QED
    BY <1>7, <2>1, <2>2
    DEF ReleaseRemote, BuffersTypeOK, WireTypeOK, CqesTypeOK, HistoryTypeOK,
        buffers, wire, cqes, history
<1>8. ASSUME NEW e \in Ends, ExecuteWrite(e)
      PROVE  TypeOK'
  <2>0. Peer(e) \in Ends
    BY PeerFacts
  <2>9. recvs[Peer(e)] - 1 \in 0..RecvDepth
    BY <1>8, <2>0, RecvDepthAssumption DEF WireTypeOK, ExecuteWrite
  <2>1. BuffersTypeOK'
    BY <1>8, <2>0, <2>9 DEF ExecuteWrite, BuffersTypeOK, buffers
  <2>2. WireTypeOK'
    BY <1>8, <2>0, <2>9 DEF ExecuteWrite, WireTypeOK, wire
  <2>3. CqesTypeOK'
    <3>1. Head(writes[e]) \in Msg
      BY <1>8 DEF ExecuteWrite, WireTypeOK
    <3>2. Append(recv_cqes[Peer(e)], Head(writes[e])) \in Seq(Msg)
      BY <2>0, <3>1 DEF CqesTypeOK
    <3>3. QED
      BY <1>8, <2>0, <3>2 DEF ExecuteWrite, CqesTypeOK, cqes
  <2>4. QED
    BY <1>8, <2>1, <2>2, <2>3
    DEF ExecuteWrite, PoolTypeOK, LocksTypeOK, HistoryTypeOK,
        pool, locks, unlocks, history
<1>9. ASSUME NEW e \in Ends, ExecuteAck(e)
      PROVE  TypeOK'
  <2>0. Peer(e) \in Ends
    BY PeerFacts
  <2>9. recvs[Peer(e)] - 1 \in 0..RecvDepth
    BY <1>9, <2>0, RecvDepthAssumption DEF WireTypeOK, ExecuteAck
  <2>1. WireTypeOK'
    BY <1>9, <2>0, <2>9 DEF ExecuteAck, WireTypeOK, wire
  <2>2. CqesTypeOK'
    BY <1>9, <2>0, <2>9 DEF ExecuteAck, CqesTypeOK, cqes
  <2>3. QED
    BY <1>9, <2>1, <2>2
    DEF ExecuteAck, PoolTypeOK, LocksTypeOK, BuffersTypeOK, HistoryTypeOK,
        pool, locks, unlocks, buffers, history
<1>10. ASSUME NEW e \in Ends, ProcessWriteSuccess(e)
      PROVE  TypeOK'
  <2>1. LocksTypeOK'
    BY <1>10 DEF ProcessWriteSuccess, LocksTypeOK, locks, unlocks
  <2>2. CqesTypeOK'
    BY <1>10 DEF ProcessWriteSuccess, CqesTypeOK, cqes
  <2>3. QED
    BY <1>10, <2>1, <2>2
    DEF ProcessWriteSuccess, PoolTypeOK, BuffersTypeOK, WireTypeOK, HistoryTypeOK,
        pool, buffers, wire, history
<1>11. ASSUME NEW e \in Ends, ProcessAttachedMessage(e)
      PROVE  TypeOK'
  <2>9. recvs[e] + 1 \in 0..RecvDepth
    BY <1>11, RecvDepthAssumption
    DEF ReceivesAccounted, Accounted, WireTypeOK, CqesTypeOK, ProcessAttachedMessage
  <2>1. BuffersTypeOK'
    <3>1. CASE Ignored(e, Head(recv_cqes[e]))
      BY <1>11, <3>1 DEF ProcessAttachedMessage, BuffersTypeOK, buffers
    <3>2. CASE ~Ignored(e, Head(recv_cqes[e]))
      BY <1>11, <3>2 DEF ProcessAttachedMessage, BuffersTypeOK, buffers
    <3>3. QED
      BY <3>1, <3>2
  <2>2. WireTypeOK'
    BY <1>11, <2>9 DEF ProcessAttachedMessage, Recv, WireTypeOK, wire
  <2>3. CqesTypeOK'
    BY <1>11, <2>9 DEF ProcessAttachedMessage, CqesTypeOK, cqes
  <2>4. HistoryTypeOK'
    <3>1. CASE Ignored(e, Head(recv_cqes[e]))
      BY <1>11, <3>1 DEF ProcessAttachedMessage, HistoryTypeOK, history
    <3>2. CASE ~Ignored(e, Head(recv_cqes[e]))
      <4>1. Append(got[e], incoming[e]) \in Seq(Msg \cup {None})
        BY DEF HistoryTypeOK, BuffersTypeOK
      <4>2. QED
        BY <1>11, <3>2, <4>1 DEF ProcessAttachedMessage, HistoryTypeOK, history
    <3>3. QED
      BY <3>1, <3>2
  <2>5. QED
    BY <1>11, <2>1, <2>2, <2>3, <2>4
    DEF ProcessAttachedMessage, PoolTypeOK, LocksTypeOK,
        pool, locks, unlocks
<1>12. ASSUME NEW e \in Ends, SendAck(e)
      PROVE  TypeOK'
  <2>1. BuffersTypeOK'
    BY <1>12 DEF SendAck, Send, BuffersTypeOK, buffers
  <2>2. WireTypeOK'
    BY <1>12 DEF SendAck, Send, PostNotice, WireTypeOK, wire
  <2>3. status' \in [Ends -> {"WORK", "CLOSING", "CLOSED"}]
    BY <1>12 DEF SendAck
  <2>4. QED
    BY <1>12, <2>1, <2>2, <2>3
    DEF SendAck, Send, PoolTypeOK, LocksTypeOK, CqesTypeOK, HistoryTypeOK,
        pool, locks, unlocks, cqes, history
<1>13. ASSUME NEW e \in Ends, ProcessAck(e)
      PROVE  TypeOK'
  <2>9. recvs[e] + 1 \in 0..RecvDepth
    BY <1>13, RecvDepthAssumption
    DEF ReceivesAccounted, Accounted, WireTypeOK, CqesTypeOK, ProcessAck
  <2>1. LocksTypeOK'
    BY <1>13, <2>9 DEF ProcessAck, LocksTypeOK, locks, unlocks
  <2>2. WireTypeOK'
    BY <1>13, <2>9 DEF ProcessAck, Recv, WireTypeOK, wire
  <2>3. CqesTypeOK'
    BY <1>13, <2>9 DEF ProcessAck, CqesTypeOK, cqes
  <2>4. QED
    BY <1>13, <2>1, <2>2, <2>3
    DEF ProcessAck, PoolTypeOK, BuffersTypeOK, HistoryTypeOK,
        pool, buffers, history
<1>14. ASSUME NEW e \in Ends, ProcessNotice(e)
      PROVE  TypeOK'
  <2>9. recvs[e] + 1 \in 0..RecvDepth
    BY <1>14, RecvDepthAssumption
    DEF ReceivesAccounted, Accounted, WireTypeOK, CqesTypeOK, ProcessNotice
  <2>1. WireTypeOK'
    BY <1>14, <2>9 DEF ProcessNotice, PostNotice, Recv, WireTypeOK, wire
  <2>2. CqesTypeOK'
    BY <1>14 DEF ProcessNotice, CqesTypeOK, cqes
  <2>3. status' \in [Ends -> {"WORK", "CLOSING", "CLOSED"}]
    BY <1>14 DEF ProcessNotice
  <2>4. QED
    BY <1>14, <2>1, <2>2, <2>3
    DEF ProcessNotice, PoolTypeOK, LocksTypeOK, BuffersTypeOK, HistoryTypeOK,
        pool, locks, unlocks, buffers, history
<1>16. ASSUME NEW e \in Ends, SendNotice(e)
      PROVE  TypeOK'
  <2>1. WireTypeOK'
    BY <1>16 DEF SendNotice, PostNotice, WireTypeOK, wire
  <2>2. QED
    BY <1>16, <2>1
    DEF SendNotice, PoolTypeOK, LocksTypeOK, BuffersTypeOK, CqesTypeOK, HistoryTypeOK,
        pool, locks, unlocks, buffers, cqes, history
<1>17. ASSUME NEW e \in Ends, ExecuteNotice(e)
      PROVE  TypeOK'
  <2>0. Peer(e) \in Ends
    BY PeerFacts
  <2>9. recvs[Peer(e)] - 1 \in 0..RecvDepth
    BY <1>17, <2>0, RecvDepthAssumption DEF WireTypeOK, ExecuteNotice
  <2>1. WireTypeOK'
    BY <1>17, <2>0, <2>9 DEF ExecuteNotice, WireTypeOK, wire
  <2>2. CqesTypeOK'
    BY <1>17, <2>0 DEF ExecuteNotice, CqesTypeOK, cqes
  <2>3. QED
    BY <1>17, <2>1, <2>2
    DEF ExecuteNotice, PoolTypeOK, LocksTypeOK, BuffersTypeOK, HistoryTypeOK,
        pool, locks, unlocks, buffers, history
<1>15. CASE UNCHANGED vars
  BY <1>15 DEF vars, pool, locks, unlocks, buffers, wire, cqes, history,
               PoolTypeOK, LocksTypeOK, BuffersTypeOK,
               WireTypeOK, CqesTypeOK, HistoryTypeOK
<1>18. QED
  BY <1>1, <1>2, <1>3, <1>4, <1>5, <1>6, <1>7, <1>8, <1>9, <1>10, <1>11, <1>12, <1>13,
     <1>14, <1>15, <1>16, <1>17 DEF Next

\* The type invariant holds of every behaviour, whatever the messages, the
\* number of worker threads and the receive depth.
THEOREM TypeCorrect == Spec => []TypeOK
<1>1. Init => TypeOK /\ ReceivesAccounted
  BY RecvDepthAssumption
  DEF Init, TypeOK, ReceivesAccounted, Accounted, PoolTypeOK, LocksTypeOK, BuffersTypeOK,
      WireTypeOK, CqesTypeOK, HistoryTypeOK
<1>2. TypeOK /\ ReceivesAccounted /\ [Next]_vars => TypeOK' /\ ReceivesAccounted'
  BY TypeStep, ReceivesStep
<1>3. QED
  BY <1>1, <1>2, PTL DEF Spec
-----------------------------------------------------------------------------
(* The locks and their releases. *)

\* The parts of the two tokens are natural numbers.
LEMMA TokenTypes ==
    ASSUME TypeOK, NEW e \in Ends
    PROVE  /\ writes[e] \in Seq(Msg) /\ Len(writes[e]) \in Nat
           /\ recv_cqes[e] \in Seq(Msg) /\ Len(recv_cqes[e]) \in Nat
           /\ write_cqes[e] \in Nat /\ unlock_local[e] \in Nat
           /\ acks[e] \in Nat /\ ack_cqes[e] \in Nat /\ unlock_remote[e] \in Nat
           /\ local_status[e] \in {"IDLE", "LOCK"}
           /\ remote_status[e] \in {"IDLE", "LOCK"}
  BY DEF TypeOK, LocksTypeOK, WireTypeOK, CqesTypeOK

\* A sequence that is not empty has a head to take off.
LEMMA TailLen ==
    ASSUME NEW S, NEW s \in Seq(S), s # <<>>
    PROVE  Len(s) > 0 /\ Len(Tail(s)) = Len(s) - 1 /\ Head(s) \in S
  BY HeadTailProperties, LenProperties, EmptySeq

\* Every step keeps the release owed to local_status_.
LEMMA LocalStep ==
    ASSUME TypeOK, [Next]_vars, NEW f \in Ends, LocalOwed(f)
    PROVE  LocalOwed(f)'
<1>0. LocalToken(f) = One(local_status[f])
  BY DEF LocalOwed
<1> DEFINE Same == /\ writes'[f] = writes[f]
                   /\ write_cqes'[f] = write_cqes[f]
                   /\ unlock_local'[f] = unlock_local[f]
                   /\ local_status'[f] = local_status[f]
<1>1. ASSUME NEW m \in Msgs[f], RunTask(f, m)
      PROVE  LocalOwed(f)'
  <2>1. /\ local_status[f] # "LOCK"
        /\ local_status'[f] = "LOCK"
        /\ Len(writes'[f]) = Len(writes[f]) + 1
        /\ write_cqes'[f] = write_cqes[f]
        /\ unlock_local'[f] = unlock_local[f]
    BY <1>1, MsgFacts
    DEF RunTask, Write, Unlocked, cqes, unlocks, TypeOK, LocksTypeOK, WireTypeOK
  <2>2. QED
    BY <1>0, <2>1, TokenTypes DEF LocalOwed, LocalToken, One
<1>2. ASSUME ReleaseLocal(f)
      PROVE  LocalOwed(f)'
  <2>1. /\ unlock_local[f] > 0
        /\ local_status'[f] = "IDLE"
        /\ unlock_local'[f] = unlock_local[f] - 1
        /\ writes'[f] = writes[f]
        /\ write_cqes'[f] = write_cqes[f]
    BY <1>2 DEF ReleaseLocal, wire, cqes, TypeOK, LocksTypeOK
  <2>2. QED
    BY <1>0, <2>1, TokenTypes DEF LocalOwed, LocalToken, One
<1>3. ASSUME ExecuteWrite(f)
      PROVE  LocalOwed(f)'
  <2>1. /\ writes[f] # <<>>
        /\ writes'[f] = Tail(writes[f])
        /\ write_cqes'[f] = write_cqes[f] + 1
        /\ unlock_local'[f] = unlock_local[f]
        /\ local_status'[f] = local_status[f]
    BY <1>3 DEF ExecuteWrite, locks, unlocks, TypeOK, WireTypeOK, CqesTypeOK
  <2>2. Len(writes'[f]) = Len(writes[f]) - 1
    BY <2>1, TailLen, TokenTypes
  <2>3. QED
    BY <1>0, <2>1, <2>2, TokenTypes DEF LocalOwed, LocalToken
<1>4. ASSUME ProcessWriteSuccess(f)
      PROVE  LocalOwed(f)'
  <2>1. /\ write_cqes'[f] = write_cqes[f] - 1
        /\ unlock_local'[f] = unlock_local[f] + 1
        /\ writes'[f] = writes[f]
        /\ local_status'[f] = local_status[f]
    BY <1>4 DEF ProcessWriteSuccess, locks, wire, TypeOK, LocksTypeOK, CqesTypeOK
  <2>2. Len(writes[f]) \in Nat
    BY TokenTypes
  <2>3. QED
    BY <1>0, <2>1, <2>2, TokenTypes DEF LocalOwed, LocalToken, One
<1>5. ASSUME NEW e \in Ends, e # f,
             \/ \E m \in Msgs[e] : RunTask(e, m)
             \/ ReleaseLocal(e) \/ ExecuteWrite(e) \/ ProcessWriteSuccess(e)
      PROVE  Same
  BY <1>5
  DEF RunTask, Write, ReleaseLocal, ExecuteWrite, ProcessWriteSuccess, locks, unlocks,
      wire, cqes, TypeOK, LocksTypeOK, WireTypeOK, CqesTypeOK
<1>6. ASSUME NEW e \in Ends,
             \/ \E m \in Msgs[e] : \/ TaskWithLock(e, m) \/ WaitTask(e, m)
                                   \/ SpuriousWakeup(e, m)
             \/ TakeTask(e) \/ ReleaseRemote(e) \/ ExecuteAck(e)
             \/ ProcessAttachedMessage(e) \/ SendAck(e) \/ ProcessAck(e)
             \/ SendNotice(e) \/ ExecuteNotice(e) \/ ProcessNotice(e)
      PROVE  Same
  BY <1>6
  DEF TaskWithLock, WaitTask, SpuriousWakeup, TakeTask, ReleaseRemote, ExecuteAck,
      ProcessAttachedMessage, SendAck, Send, ProcessAck, SendNotice, ExecuteNotice,
      ProcessNotice, locks, unlocks, wire, cqes
<1>7. ASSUME Same PROVE LocalOwed(f)'
  BY <1>0, <1>7 DEF LocalOwed, LocalToken
<1>8. CASE UNCHANGED vars
  BY <1>7, <1>8 DEF vars, locks, unlocks, wire, cqes
<1>9. QED
  BY <1>1, <1>2, <1>3, <1>4, <1>5, <1>6, <1>7, <1>8 DEF Next

\* Handling the ACK moves the token on and changes no count.
LEMMA TokenMoved ==
    ASSUME NEW i \in Nat, NEW j \in Nat, NEW k \in Nat
    PROVE  i + (j - 1) + (k + 1) = i + j + k
  OBVIOUS

\* Every step keeps the release owed to remote_status_.
LEMMA RemoteStep ==
    ASSUME TypeOK, [Next]_vars, NEW f \in Ends, NEW p \in Ends, p = Peer(f),
           RemoteOwed(f),
           recv_cqes[p] # <<>> => incoming[p] # None
    PROVE  RemoteOwed(f)'
<1> DEFINE posted == Len(writes[f])
           arrived == Len(recv_cqes[p])
           parsed == OneIfAny(handling[p])
           out == posted + arrived + parsed
           back == acks[p] + ack_cqes[f] + unlock_remote[f]
           lock == One(remote_status[f])
           Owed == /\ out + back <= lock
                   /\ status[p] = "WORK" => out + back = lock
<1>a. p \in Ends /\ p # f /\ Peer(p) = f /\ \A e \in Ends : e = f \/ e = p
  BY PeerFacts
<1>b. Owed
  BY DEF RemoteOwed, RemoteToken, Outbound, Returning
<1>c. SUFFICES Owed'
  BY DEF RemoteOwed, RemoteToken, Outbound, Returning
<1>d. /\ posted \in Nat /\ arrived \in Nat
      /\ acks[p] \in Nat /\ ack_cqes[f] \in Nat /\ unlock_remote[f] \in Nat
      /\ writes[f] \in Seq(Msg) /\ recv_cqes[p] \in Seq(Msg)
  BY <1>a, TokenTypes
<1>e. parsed \in Nat /\ lock \in {0, 1}
  BY DEF OneIfAny, One
<1> HIDE DEF posted, arrived, parsed, lock
<1>f. out \in Nat /\ back \in Nat
  BY <1>d, <1>e
<1>1. ASSUME NEW m \in Msgs[f], RunTask(f, m)
      PROVE  Owed'
  <2>1. /\ remote_status[f] # "LOCK"
        /\ remote_status'[f] = "LOCK"
        /\ posted' = posted + 1
    BY <1>1, MsgFacts
    DEF RunTask, Write, Unlocked, TypeOK, LocksTypeOK, WireTypeOK, posted
  <2>2. recv_cqes'[p] = recv_cqes[p] /\ handling'[p] = handling[p]
    BY <1>1 DEF RunTask, Write, cqes
  <2>3. /\ acks'[p] = acks[p]
        /\ ack_cqes'[f] = ack_cqes[f]
        /\ unlock_remote'[f] = unlock_remote[f]
    BY <1>1 DEF RunTask, Write, cqes, unlocks
  <2>4. arrived' = arrived /\ parsed' = parsed /\ lock = 0 /\ lock' = 1
    BY <2>1, <2>2 DEF One, arrived, parsed, lock
  <2>5. out' = out + 1 /\ back' = back
    BY <1>d, <1>e, <2>1, <2>2, <2>3, <2>4
  <2> HIDE DEF out, back
  <2>6. QED
    BY <1>b, <1>e, <1>f, <2>4, <2>5
<1>2. ASSUME ReleaseRemote(f)
      PROVE  Owed'
  <2>1. /\ unlock_remote[f] > 0
        /\ remote_status'[f] = "IDLE"
        /\ unlock_remote'[f] = unlock_remote[f] - 1
    BY <1>2 DEF ReleaseRemote, TypeOK, LocksTypeOK
  <2>2. /\ writes'[f] = writes[f]
        /\ recv_cqes'[p] = recv_cqes[p]
        /\ handling'[p] = handling[p]
    BY <1>2 DEF ReleaseRemote, wire, cqes
  <2>3. acks'[p] = acks[p] /\ ack_cqes'[f] = ack_cqes[f]
    BY <1>2 DEF ReleaseRemote, wire, cqes
  <2>4. posted' = posted /\ arrived' = arrived /\ parsed' = parsed /\ lock' = 0
    BY <2>1, <2>2 DEF One, posted, arrived, parsed, lock
  <2>5. out' = out /\ back' = back - 1 /\ back > 0
    BY <1>d, <1>e, <2>1, <2>2, <2>3, <2>4
  <2> HIDE DEF out, back
  <2>6. QED
    BY <1>b, <1>e, <1>f, <2>4, <2>5
<1>3. ASSUME ExecuteWrite(f)
      PROVE  Owed'
  <2>1. /\ writes[f] # <<>>
        /\ writes'[f] = Tail(writes[f])
    BY <1>3 DEF ExecuteWrite, TypeOK, WireTypeOK
  <2>2. recv_cqes'[p] = Append(recv_cqes[p], Head(writes[f]))
    BY <1>3, <1>a DEF ExecuteWrite, TypeOK, CqesTypeOK
  <2>3. /\ posted' = posted - 1
        /\ arrived' = arrived + 1
        /\ handling'[p] = handling[p]
    <3>1. handling' = handling
      BY <1>3 DEF ExecuteWrite
    <3>2. arrived' = arrived + 1
      BY <1>d, <2>1, <2>2, TailLen DEF arrived
    <3>3. posted' = posted - 1
      BY <1>d, <2>1, TailLen DEF posted
    <3>4. QED
      BY <3>1, <3>2, <3>3
  <2>4. /\ acks'[p] = acks[p]
        /\ ack_cqes'[f] = ack_cqes[f]
        /\ unlock_remote'[f] = unlock_remote[f]
    BY <1>3 DEF ExecuteWrite, unlocks
  <2>5. remote_status'[f] = remote_status[f] /\ status'[p] = status[p]
    BY <1>3 DEF ExecuteWrite, locks
  <2>6. parsed' = parsed /\ lock' = lock
    BY <2>3, <2>5 DEF parsed, lock
  <2>7. out' = out /\ back' = back
    BY <1>d, <1>e, <2>3, <2>4, <2>6
  <2> HIDE DEF out, back
  <2>8. QED
    BY <1>b, <2>5, <2>6, <2>7
<1>4. ASSUME ProcessAttachedMessage(p)
      PROVE  Owed'
  <2>1. /\ recv_cqes[p] # <<>>
        /\ recv_cqes'[p] = Tail(recv_cqes[p])
        /\ handling[p] = None
    BY <1>4, <1>a DEF ProcessAttachedMessage, TypeOK, CqesTypeOK
  <2>2. arrived' = arrived - 1
    BY <1>d, <2>1, TailLen DEF arrived
  <2>3. /\ acks'[p] = acks[p]
        /\ ack_cqes'[f] = ack_cqes[f]
        /\ unlock_remote'[f] = unlock_remote[f]
    BY <1>4 DEF ProcessAttachedMessage, unlocks
  <2>4. /\ remote_status'[f] = remote_status[f]
        /\ status'[p] = status[p]
        /\ writes'[f] = writes[f]
    BY <1>4 DEF ProcessAttachedMessage, locks
  <2>5. back' = back /\ lock' = lock /\ posted' = posted
    BY <2>3, <2>4 DEF lock, posted
  <2>6. CASE Ignored(p, Head(recv_cqes[p]))
    <3>1. handling'[p] = handling[p] /\ status[p] # "WORK"
      BY <1>4, <2>6 DEF ProcessAttachedMessage, Ignored
    <3>2. parsed' = parsed
      BY <3>1 DEF parsed
    <3>3. out' = out - 1
      BY <1>d, <1>e, <2>2, <2>5, <3>2
    <3> HIDE DEF out, back
    <3>4. QED
      BY <1>b, <1>e, <1>f, <2>4, <2>5, <3>1, <3>3
  <2>7. CASE ~Ignored(p, Head(recv_cqes[p]))
    <3>1. handling'[p] # None
      BY <1>4, <1>a, <2>1, <2>7 DEF ProcessAttachedMessage, TypeOK, BuffersTypeOK
    <3>2. parsed = 0 /\ parsed' = 1
      BY <2>1, <3>1 DEF OneIfAny, parsed
    <3>3. out' = out
      BY <1>d, <2>2, <2>5, <3>2
    <3> HIDE DEF out, back
    <3>4. QED
      BY <1>b, <2>4, <2>5, <3>3
  <2>8. QED
    BY <2>6, <2>7
<1>5. ASSUME SendAck(p)
      PROVE  Owed'
  <2>1. /\ handling[p] # None
        /\ handling'[p] = None
        /\ acks'[p] = acks[p] + 1
    BY <1>5, <1>a DEF SendAck, Send, TypeOK, BuffersTypeOK, WireTypeOK
  <2>2. /\ writes'[f] = writes[f]
        /\ recv_cqes'[p] = recv_cqes[p]
        /\ ack_cqes'[f] = ack_cqes[f]
        /\ unlock_remote'[f] = unlock_remote[f]
    BY <1>5 DEF SendAck, Send, unlocks, cqes
  <2>3. remote_status'[f] = remote_status[f] /\ (status'[p] = "WORK" => status[p] = "WORK")
    BY <1>5 DEF SendAck, Send, locks, TypeOK
  <2>4. /\ parsed = 1 /\ parsed' = 0
        /\ posted' = posted /\ arrived' = arrived /\ lock' = lock
    BY <2>1, <2>2, <2>3 DEF OneIfAny, parsed, posted, arrived, lock
  <2>5. out' = out - 1 /\ back' = back + 1
    <3>1. out' = out - 1
      BY <1>d, <2>4
    <3>2. back' = back + 1
      BY <1>d, <2>1, <2>2
    <3>3. QED
      BY <3>1, <3>2
  <2> HIDE DEF out, back
  <2>6. QED
    BY <1>b, <1>e, <1>f, <2>3, <2>4, <2>5
<1>6. ASSUME ExecuteAck(p)
      PROVE  Owed'
  <2>1. /\ acks'[p] = acks[p] - 1
        /\ ack_cqes'[f] = ack_cqes[f] + 1
    BY <1>6, <1>a DEF ExecuteAck, TypeOK, WireTypeOK, CqesTypeOK
  <2>2. /\ writes'[f] = writes[f]
        /\ recv_cqes'[p] = recv_cqes[p]
        /\ handling'[p] = handling[p]
        /\ unlock_remote'[f] = unlock_remote[f]
    BY <1>6 DEF ExecuteAck, unlocks
  <2>3. remote_status'[f] = remote_status[f] /\ status'[p] = status[p]
    BY <1>6 DEF ExecuteAck, locks
  <2>4. /\ posted' = posted /\ arrived' = arrived
        /\ parsed' = parsed /\ lock' = lock
    BY <2>2, <2>3 DEF posted, arrived, parsed, lock
  <2>5. out' = out
    BY <2>4
  <2>6. back' = back
    <3>1. back' = (acks[p] - 1) + (ack_cqes[f] + 1) + unlock_remote[f]
      BY <2>1, <2>2
    <3>2. QED
      BY <1>d, <3>1
  <2> HIDE DEF out, back
  <2>7. QED
    BY <1>b, <2>3, <2>4, <2>5, <2>6
<1>7. ASSUME ProcessAck(f)
      PROVE  Owed'
  <2>1. /\ ack_cqes'[f] = ack_cqes[f] - 1
        /\ unlock_remote'[f] = unlock_remote[f] + 1
    BY <1>7 DEF ProcessAck, TypeOK, LocksTypeOK, CqesTypeOK
  <2>2. /\ writes'[f] = writes[f]
        /\ recv_cqes'[p] = recv_cqes[p]
        /\ handling'[p] = handling[p]
        /\ acks'[p] = acks[p]
    BY <1>7 DEF ProcessAck
  <2>3. remote_status'[f] = remote_status[f] /\ status'[p] = status[p]
    BY <1>7 DEF ProcessAck, locks
  <2>4. /\ posted' = posted /\ arrived' = arrived
        /\ parsed' = parsed /\ lock' = lock
    BY <2>2, <2>3 DEF posted, arrived, parsed, lock
  <2>5. out' = out
    BY <2>4
  <2>6. back' = back
    <3>1. back' = acks[p] + (ack_cqes[f] - 1) + (unlock_remote[f] + 1)
      BY <2>1, <2>2
    <3>2. acks[p] \in Nat /\ ack_cqes[f] \in Nat /\ unlock_remote[f] \in Nat
      BY <1>d
    <3>3. acks[p] + (ack_cqes[f] - 1) + (unlock_remote[f] + 1) = back
      BY <3>2, TokenMoved
    <3>4. QED
      BY <3>1, <3>3, Zenon
  <2> HIDE DEF out, back
  <2>7. QED
    BY <1>b, <2>3, <2>4, <2>5, <2>6
<1> DEFINE Same == /\ writes'[f] = writes[f]
                   /\ recv_cqes'[p] = recv_cqes[p]
                   /\ handling'[p] = handling[p]
                   /\ acks'[p] = acks[p]
                   /\ ack_cqes'[f] = ack_cqes[f]
                   /\ unlock_remote'[f] = unlock_remote[f]
                   /\ remote_status'[f] = remote_status[f]
<1>8. ASSUME NEW e \in Ends, SendNotice(e) \/ ExecuteNotice(e) \/ ProcessNotice(e)
      PROVE  Same /\ (status'[p] = "WORK" => status[p] = "WORK")
  BY <1>8, <1>a DEF SendNotice, ExecuteNotice, ProcessNotice, locks, unlocks, TypeOK, cqes
<1>9. ASSUME \/ \E m \in Msgs[p] : RunTask(p, m)
             \/ ReleaseRemote(p) \/ ExecuteWrite(p) \/ ProcessAttachedMessage(f)
             \/ SendAck(f) \/ ExecuteAck(f) \/ ProcessAck(p)
      PROVE  Same /\ status'[p] = status[p]
  <2>1. Peer(f) = p
    OBVIOUS
  <2>2. ASSUME NEW m \in Msgs[p], RunTask(p, m)
        PROVE  Same /\ status'[p] = status[p]
    BY <1>a, <2>2 DEF RunTask, Write, unlocks, cqes, TypeOK, LocksTypeOK, WireTypeOK
  <2>3. CASE ReleaseRemote(p)
    BY <1>a, <2>3 DEF ReleaseRemote, wire, cqes, TypeOK, LocksTypeOK
  <2>4. CASE ExecuteWrite(p)
    BY <1>a, <2>4 DEF ExecuteWrite, locks, unlocks, TypeOK, WireTypeOK, CqesTypeOK
  <2>5. CASE ProcessAttachedMessage(f)
    <3>1. handling'[p] = handling[p]
      BY <1>a, <2>5 DEF ProcessAttachedMessage, TypeOK, BuffersTypeOK
    <3>2. QED
      BY <1>a, <2>5, <3>1
      DEF ProcessAttachedMessage, locks, unlocks, TypeOK, CqesTypeOK
  <2>6. CASE SendAck(f)
    BY <1>a, <2>6 DEF SendAck, Send, locks, unlocks, cqes, TypeOK, BuffersTypeOK, WireTypeOK
  <2>7. CASE ExecuteAck(f)
    BY <1>a, <2>1, <2>7 DEF ExecuteAck, locks, unlocks, TypeOK, WireTypeOK, CqesTypeOK
  <2>8. CASE ProcessAck(p)
    BY <1>a, <2>8 DEF ProcessAck, locks, TypeOK, LocksTypeOK, CqesTypeOK
  <2>9. QED
    BY <1>9, <2>2, <2>3, <2>4, <2>5, <2>6, <2>7, <2>8
<1>10. ASSUME NEW e \in Ends,
              \/ \E m \in Msgs[e] : \/ TaskWithLock(e, m) \/ WaitTask(e, m)
                                    \/ SpuriousWakeup(e, m)
              \/ TakeTask(e) \/ ReleaseLocal(e) \/ ProcessWriteSuccess(e)
       PROVE  Same /\ status'[p] = status[p]
  BY <1>10
  DEF TaskWithLock, WaitTask, SpuriousWakeup, TakeTask, ReleaseLocal,
      ProcessWriteSuccess, locks, unlocks, wire, cqes
<1>11. ASSUME Same, status'[p] = "WORK" => status[p] = "WORK"
       PROVE  Owed'
  <2>1. out' = out /\ back' = back /\ lock' = lock
    BY <1>11 DEF posted, arrived, parsed, lock
  <2> HIDE DEF out, back
  <2>2. QED
    BY <1>b, <1>11, <2>1
<1>12. CASE UNCHANGED vars
  BY <1>11, <1>12 DEF vars, locks, unlocks, wire, cqes
<1>13. QED
  BY <1>a, <1>1, <1>2, <1>3, <1>4, <1>5, <1>6, <1>7, <1>8, <1>9, <1>10, <1>11,
     <1>12 DEF Next
-----------------------------------------------------------------------------
(* Where the message is. *)

\* A free lock leaves nothing on its way; a message that has arrived is alone.
LEMMA OneToken ==
    ASSUME TypeOK, NEW f \in Ends, NEW p \in Ends, p = Peer(f), RemoteOwed(f)
    PROVE  /\ remote_status[f] # "LOCK" =>
                /\ writes[f] = <<>> /\ recv_cqes[p] = <<>> /\ handling[p] = None
                /\ acks[p] = 0 /\ ack_cqes[f] = 0 /\ unlock_remote[f] = 0
           /\ Len(recv_cqes[p]) <= 1
           /\ acks[p] + ack_cqes[f] <= 1
           /\ recv_cqes[p] # <<>> =>
                /\ writes[f] = <<>> /\ Len(recv_cqes[p]) = 1
                /\ acks[p] = 0 /\ ack_cqes[f] = 0 /\ unlock_remote[f] = 0
           /\ writes[f] # <<>> => recv_cqes[p] = <<>>
<1> DEFINE posted == Len(writes[f])
           arrived == Len(recv_cqes[p])
           parsed == OneIfAny(handling[p])
           out == posted + arrived + parsed
           back == acks[p] + ack_cqes[f] + unlock_remote[f]
           lock == One(remote_status[f])
<1>1. out + back <= lock
  BY DEF RemoteOwed, RemoteToken, Outbound, Returning
<1>2. /\ posted \in Nat /\ arrived \in Nat
      /\ acks[p] \in Nat /\ ack_cqes[f] \in Nat /\ unlock_remote[f] \in Nat
      /\ writes[f] \in Seq(Msg) /\ recv_cqes[p] \in Seq(Msg)
  BY TokenTypes
<1>3. parsed \in {0, 1} /\ lock \in {0, 1} /\ (parsed = 0 => handling[p] = None)
  BY DEF OneIfAny, One
<1>4. remote_status[f] # "LOCK" => lock = 0
  BY DEF One
<1>5. /\ posted = 0 <=> writes[f] = <<>>
      /\ arrived = 0 <=> recv_cqes[p] = <<>>
  BY <1>2, EmptySeq, LenProperties
<1> HIDE DEF posted, arrived, parsed, lock
<1>6. /\ out \in Nat /\ out >= posted /\ out >= arrived /\ out >= parsed
      /\ out >= posted + arrived
      /\ out = 0 => posted = 0 /\ arrived = 0 /\ parsed = 0
  BY <1>2, <1>3
<1>7. /\ back \in Nat /\ back >= acks[p] + ack_cqes[f]
      /\ back = 0 => acks[p] = 0 /\ ack_cqes[f] = 0 /\ unlock_remote[f] = 0
  BY <1>2
<1> HIDE DEF out, back
<1>8. out <= 1 /\ back <= 1 /\ (lock = 0 => out = 0 /\ back = 0)
      /\ (out = 1 => back = 0)
  BY <1>1, <1>3, <1>6, <1>7
<1>9. acks[p] + ack_cqes[f] <= 1
  BY <1>2, <1>7, <1>8
<1>10. arrived <= 1 /\ (arrived # 0 => arrived = 1 /\ posted = 0 /\ out = 1)
  BY <1>2, <1>6, <1>8
<1>11. QED
  BY <1>3, <1>4, <1>5, <1>6, <1>7, <1>8, <1>9, <1>10 DEF arrived

\* Every step keeps the message of an end where its tokens say it is.
LEMMA FlightStep ==
    ASSUME TypeOK, [Next]_vars, NEW f \in Ends, NEW p \in Ends, p = Peer(f),
           RemoteOwed(f), Flight(f)
    PROVE  Flight(f)'
<1> DEFINE Settled == \/ remote_status[f] = "IDLE"
                      \/ handling[p] # None
                      \/ acks[p] > 0
                      \/ ack_cqes[f] > 0
                      \/ unlock_remote[f] > 0
           F1 == writes[f] # <<>> =>
                   outgoing[f] \in Msgs[f] /\ sent[f] = Append(got[p], outgoing[f])
           F2 == recv_cqes[p] # <<>> =>
                   incoming[p] \in Msgs[f] /\ sent[f] = Append(got[p], incoming[p])
           F3 == Settled => sent[f] = got[p]
           F4 == \/ sent[f] = got[p]
                 \/ \E m \in Msgs[f] : sent[f] = Append(got[p], m)
<1>a. p # f /\ Peer(p) = f /\ \A e \in Ends : e = f \/ e = p
  BY PeerFacts
<1>b. F1 /\ F2 /\ F3 /\ F4
  BY DEF Flight
<1>c. SUFFICES (F1 /\ F2 /\ F3 /\ F4)'
  BY DEF Flight
<1>d. /\ remote_status[f] \in {"IDLE", "LOCK"}
      /\ acks[p] \in Nat /\ ack_cqes[f] \in Nat /\ unlock_remote[f] \in Nat
      /\ writes[f] \in Seq(Msg) /\ recv_cqes[p] \in Seq(Msg)
  BY TokenTypes
<1>1. ASSUME NEW m \in Msgs[f], RunTask(f, m)
      PROVE  (F1 /\ F2 /\ F3 /\ F4)'
  <2>1. remote_status[f] = "IDLE" /\ remote_status'[f] = "LOCK"
    BY <1>1, <1>d DEF RunTask, Write, Unlocked, TypeOK, LocksTypeOK
  <2>2. /\ recv_cqes[p] = <<>> /\ handling[p] = None
        /\ acks[p] = 0 /\ ack_cqes[f] = 0 /\ unlock_remote[f] = 0
    BY <2>1, OneToken
  <2>3. /\ recv_cqes'[p] = <<>> /\ handling'[p] = None
        /\ acks'[p] = 0 /\ ack_cqes'[f] = 0 /\ unlock_remote'[f] = 0
    BY <1>1, <2>2 DEF RunTask, Write, cqes, unlocks
  <2>4. outgoing'[f] = m /\ sent'[f] = Append(sent[f], m) /\ got'[p] = got[p]
    BY <1>1 DEF RunTask, Write, TypeOK, BuffersTypeOK, HistoryTypeOK
  <2>5. sent'[f] = Append(got'[p], m)
    BY <1>b, <2>1, <2>4
  <2>6. F1' /\ F2' /\ F4'
    BY <2>3, <2>4, <2>5
  <2>7. ~Settled'
    BY <2>1, <2>3
  <2>8. QED
    BY <2>6, <2>7
<1>2. ASSUME ReleaseRemote(f)
      PROVE  (F1 /\ F2 /\ F3 /\ F4)'
  <2>1. unlock_remote[f] > 0
    BY <1>2 DEF ReleaseRemote
  <2>2. /\ writes' = writes /\ recv_cqes' = recv_cqes /\ sent' = sent /\ got' = got
        /\ outgoing' = outgoing /\ incoming' = incoming
    BY <1>2 DEF ReleaseRemote, wire, cqes, buffers, history
  <2>3. sent[f] = got[p]
    BY <1>b, <2>1
  <2>4. QED
    BY <1>b, <2>2, <2>3
<1>3. ASSUME ExecuteWrite(f)
      PROVE  (F1 /\ F2 /\ F3 /\ F4)'
  <2>1. /\ writes[f] # <<>>
        /\ incoming'[p] = outgoing[f]
    BY <1>3 DEF ExecuteWrite, TypeOK, BuffersTypeOK
  <2>2. /\ remote_status' = remote_status /\ handling' = handling
        /\ acks' = acks /\ unlock_remote' = unlock_remote
        /\ outgoing' = outgoing /\ sent' = sent /\ got' = got
    BY <1>3 DEF ExecuteWrite, locks, unlocks, history
  <2>3. ack_cqes' = ack_cqes
    BY <1>3 DEF ExecuteWrite
  <2>4. F1' /\ F2'
    BY <1>b, <2>1, <2>2
  <2>5. F3' /\ F4'
    BY <1>b, <2>2, <2>3
  <2>6. QED
    BY <2>4, <2>5
<1>4. ASSUME ProcessAttachedMessage(p)
      PROVE  (F1 /\ F2 /\ F3 /\ F4)'
  <2>1. /\ recv_cqes[p] # <<>>
        /\ recv_cqes'[p] = Tail(recv_cqes[p])
    BY <1>4 DEF ProcessAttachedMessage, TypeOK, CqesTypeOK
  <2>2. writes[f] = <<>> /\ Len(recv_cqes[p]) = 1
    BY <2>1, OneToken
  <2>3. /\ writes' = writes /\ sent' = sent /\ remote_status' = remote_status
        /\ acks' = acks /\ ack_cqes' = ack_cqes /\ unlock_remote' = unlock_remote
    BY <1>4 DEF ProcessAttachedMessage, locks, unlocks
  <2>4. recv_cqes'[p] = <<>>
    <3>1. Tail(recv_cqes[p]) \in Seq(Msg) /\ Len(Tail(recv_cqes[p])) = 0
      BY <1>d, <2>1, <2>2, HeadTailProperties
    <3>2. QED
      BY <2>1, <3>1, EmptySeq
  <2>5. F1' /\ F2'
    BY <2>2, <2>3, <2>4
  <2>6. CASE Ignored(p, Head(recv_cqes[p]))
    <3>1. handling' = handling /\ got' = got
      BY <1>4, <2>6 DEF ProcessAttachedMessage
    <3>2. QED
      BY <1>b, <2>3, <2>5, <3>1
  <2>7. CASE ~Ignored(p, Head(recv_cqes[p]))
    <3>1. got'[p] = Append(got[p], incoming[p])
      BY <1>4, <2>7 DEF ProcessAttachedMessage, TypeOK, HistoryTypeOK
    <3>2. sent'[f] = got'[p]
      BY <1>b, <2>1, <2>3, <3>1
    <3>3. QED
      BY <2>5, <3>2
  <2>8. QED
    BY <2>6, <2>7
<1>5. ASSUME SendAck(p) \/ ExecuteAck(p) \/ ProcessAck(f)
      PROVE  (F1 /\ F2 /\ F3 /\ F4)'
  <2>1. handling[p] # None \/ acks[p] > 0 \/ ack_cqes[f] > 0
    BY <1>5 DEF SendAck, Send, ExecuteAck, ProcessAck
  <2>2. /\ writes' = writes /\ recv_cqes' = recv_cqes /\ sent' = sent /\ got' = got
        /\ outgoing' = outgoing /\ incoming' = incoming
    BY <1>5 DEF SendAck, Send, ExecuteAck, ProcessAck, cqes, buffers, history
  <2>3. sent[f] = got[p]
    BY <1>b, <2>1
  <2>4. QED
    BY <1>b, <2>2, <2>3
<1> DEFINE Same == /\ writes'[f] = writes[f] /\ recv_cqes'[p] = recv_cqes[p]
                   /\ outgoing'[f] = outgoing[f] /\ incoming'[p] = incoming[p]
                   /\ handling'[p] = handling[p] /\ acks'[p] = acks[p]
                   /\ ack_cqes'[f] = ack_cqes[f]
                   /\ unlock_remote'[f] = unlock_remote[f]
                   /\ remote_status'[f] = remote_status[f]
                   /\ sent'[f] = sent[f] /\ got'[p] = got[p]
<1>6. ASSUME \/ \E m \in Msgs[p] : RunTask(p, m)
             \/ ReleaseRemote(p) \/ ExecuteWrite(p) \/ ProcessAttachedMessage(f)
             \/ SendAck(f) \/ ExecuteAck(f) \/ ProcessAck(p)
      PROVE  Same
  <2>1. Peer(f) = p
    OBVIOUS
  <2>2. ASSUME NEW m \in Msgs[p], RunTask(p, m)
        PROVE  Same
    BY <1>a, <2>2
    DEF RunTask, Write, unlocks, cqes, TypeOK, LocksTypeOK, WireTypeOK, BuffersTypeOK,
        HistoryTypeOK
  <2>3. CASE ReleaseRemote(p)
    BY <1>a, <2>3 DEF ReleaseRemote, wire, cqes, buffers, history, TypeOK, LocksTypeOK
  <2>4. CASE ExecuteWrite(p)
    BY <1>a, <2>4
    DEF ExecuteWrite, locks, unlocks, history, TypeOK, WireTypeOK, CqesTypeOK,
        BuffersTypeOK
  <2>5. CASE ProcessAttachedMessage(f)
    <3>1. handling'[p] = handling[p] /\ got'[p] = got[p]
      BY <1>a, <2>5
      DEF ProcessAttachedMessage, TypeOK, BuffersTypeOK, HistoryTypeOK
    <3>2. QED
      BY <1>a, <2>5, <3>1
      DEF ProcessAttachedMessage, locks, unlocks, buffers, TypeOK, CqesTypeOK
  <2>6. CASE SendAck(f)
    BY <1>a, <2>6
    DEF SendAck, Send, locks, unlocks, cqes, buffers, history, TypeOK, BuffersTypeOK,
        WireTypeOK
  <2>7. CASE ExecuteAck(f)
    BY <1>a, <2>1, <2>7
    DEF ExecuteAck, locks, unlocks, buffers, history, TypeOK, WireTypeOK, CqesTypeOK
  <2>8. CASE ProcessAck(p)
    BY <1>a, <2>8
    DEF ProcessAck, locks, buffers, history, TypeOK, LocksTypeOK, CqesTypeOK
  <2>9. QED
    BY <1>6, <2>2, <2>3, <2>4, <2>5, <2>6, <2>7, <2>8
<1>7. ASSUME NEW e \in Ends,
             \/ \E m \in Msgs[e] : \/ TaskWithLock(e, m) \/ WaitTask(e, m)
                                   \/ SpuriousWakeup(e, m)
             \/ TakeTask(e) \/ ReleaseLocal(e) \/ ProcessWriteSuccess(e)
             \/ SendNotice(e) \/ ExecuteNotice(e) \/ ProcessNotice(e)
      PROVE  Same
  BY <1>7
  DEF TaskWithLock, WaitTask, SpuriousWakeup, TakeTask, ReleaseLocal, SendNotice,
      ExecuteNotice, ProcessNotice, ProcessWriteSuccess, locks, unlocks, wire, cqes, buffers, history
<1>8. ASSUME Same
      PROVE  (F1 /\ F2 /\ F3 /\ F4)'
  BY <1>b, <1>8
<1>9. CASE UNCHANGED vars
  BY <1>8, <1>9 DEF vars, locks, unlocks, wire, cqes, buffers, history
<1>10. QED
  BY <1>a, <1>1, <1>2, <1>3, <1>4, <1>5, <1>6, <1>7, <1>8, <1>9 DEF Next
-----------------------------------------------------------------------------
(* The inductive invariant and what follows from it. *)

\* Initially nothing is owed and nothing is on its way.
LEMMA InvInit == Init => IInv
<1> SUFFICES ASSUME Init PROVE IInv
  OBVIOUS
<1>1. TypeOK /\ ReceivesAccounted
  BY RecvDepthAssumption
  DEF Init, TypeOK, ReceivesAccounted, Accounted, PoolTypeOK, LocksTypeOK, BuffersTypeOK,
      WireTypeOK, CqesTypeOK, HistoryTypeOK
<1>4. NoticesBounded
  BY PeerFacts, NoticesAssumption DEF Init, NoticesBounded
<1>2. ASSUME NEW e \in Ends PROVE LocalOwed(e) /\ RemoteOwed(e) /\ Flight(e)
  <2>1. Peer(e) \in Ends
    BY PeerFacts
  <2>2. LocalOwed(e)
    BY DEF Init, LocalOwed, LocalToken, One
  <2>3. /\ Outbound(e) = 0 /\ Returning(e) = 0 /\ One(remote_status[e]) = 0
    BY <2>1 DEF Init, Outbound, Returning, One, OneIfAny
  <2>4. RemoteOwed(e)
    BY <2>3 DEF RemoteOwed, RemoteToken
  <2>5. Flight(e)
    BY <2>1 DEF Init, Flight
  <2>6. QED
    BY <2>2, <2>4, <2>5
<1>3. QED
  BY <1>1, <1>2, <1>4 DEF IInv

\* An arrived message is a message, so parsing it leaves handling set.
LEMMA InvStep == IInv /\ [Next]_vars => IInv'
<1> SUFFICES ASSUME IInv, [Next]_vars PROVE IInv'
  OBVIOUS
<1>1. TypeOK' /\ ReceivesAccounted' /\ NoticesBounded'
  BY TypeStep, ReceivesStep, NoticesStep DEF IInv
<1>2. ASSUME NEW e \in Ends
      PROVE  LocalOwed(e)' /\ RemoteOwed(e)' /\ Flight(e)'
  <2> DEFINE p == Peer(e)
  <2>1. p \in Ends
    BY PeerFacts
  <2>2. TypeOK /\ LocalOwed(e) /\ RemoteOwed(e) /\ Flight(e)
    BY DEF IInv
  <2>3. recv_cqes[p] # <<>> => incoming[p] # None
    BY <2>2, MsgFacts DEF Flight
  <2> HIDE DEF p
  <2>4. LocalOwed(e)'
    BY <2>2, LocalStep
  <2>5. RemoteOwed(e)'
    BY <2>1, <2>2, <2>3, RemoteStep DEF p
  <2>6. Flight(e)'
    BY <2>1, <2>2, FlightStep DEF p
  <2>7. QED
    BY <2>4, <2>5, <2>6
<1>3. QED
  BY <1>1, <1>2 DEF IInv

\* The invariant holds of every behaviour.
THEOREM Invariance == Spec => []IInv
  BY InvInit, InvStep, PTL DEF Spec

\* Every lock is owed its releases, for any messages, threads and depth.
THEOREM LocksCorrect == Spec => []LocksAccounted
<1>1. IInv => LocksAccounted
  BY DEF IInv, LocksAccounted, LocalOwed, RemoteOwed
<1>2. QED
  BY <1>1, Invariance, PTL

\* Messages arrive intact, once and in the order they were copied out.
THEOREM DeliveryCorrect == Spec => []IntactInOrder
<1>1. IInv => IntactInOrder
  BY DEF IInv, IntactInOrder, Flight
<1>2. QED
  BY <1>1, Invariance, PTL

\* A receive for a message, one for an ACK and one for each notice the peer may have
\* under way are enough, for any number of messages (recv in both handlers of
\* receive completions, and the 100 the constructor posts).
THEOREM ReceiversCorrect == Spec => []ReceiverReady
<1>1. ASSUME IInv, NEW e \in Ends, writes[e] # <<>> \/ acks[e] > 0 \/ notices[e] > 0
      PROVE  recvs[Peer(e)] > 0
  <2>1. PICK p \in Ends : p = Peer(e) /\ Peer(p) = e
    BY PeerFacts
  <2>2. TypeOK /\ RemoteOwed(e) /\ RemoteOwed(p)
    BY <1>1 DEF IInv
  <2>3. /\ Len(recv_cqes[p]) <= 1
        /\ acks[e] + ack_cqes[p] <= 1
        /\ writes[e] # <<>> => recv_cqes[p] = <<>>
    BY <2>1, <2>2, OneToken
  <2>4. /\ recvs[p] + Len(recv_cqes[p]) + ack_cqes[p] + notice_cqes[p] = RecvDepth
        /\ notices[e] + notice_cqes[p] <= Notices[e]
    BY <1>1, <2>1 DEF IInv, ReceivesAccounted, Accounted, NoticesBounded
  <2>5. /\ recvs[p] \in Nat /\ acks[e] \in Nat /\ ack_cqes[p] \in Nat
        /\ Len(recv_cqes[p]) \in Nat
        /\ notices[e] \in Nat /\ notice_cqes[p] \in Nat
    BY <2>2, TokenTypes, RecvDepthAssumption DEF TypeOK, WireTypeOK, CqesTypeOK
  <2>6. recv_cqes[p] = <<>> => Len(recv_cqes[p]) = 0
    BY EmptySeq
  <2>7. RecvDepth \in Nat /\ Notices[e] \in Nat /\ RecvDepth >= 2 + Notices[e]
    BY NoticesAssumption, RecvDepthAssumption
  <2> DEFINE arrived == Len(recv_cqes[p])
  <2>8. /\ arrived <= 1 /\ arrived \in Nat
        /\ recvs[p] + arrived + ack_cqes[p] + notice_cqes[p] = RecvDepth
        /\ arrived = 0 \/ acks[e] > 0 \/ notices[e] > 0
    BY <1>1, <2>3, <2>4, <2>5, <2>6
  <2>11. arrived + ack_cqes[p] + notice_cqes[p] < RecvDepth
    <3> HIDE DEF arrived
    <3>1. acks[e] + ack_cqes[p] <= 1 /\ notices[e] + notice_cqes[p] <= Notices[e]
      BY <2>3, <2>4
    <3>2. ack_cqes[p] <= 1 /\ notice_cqes[p] <= Notices[e]
      BY <2>5, <2>7, <3>1
    <3>3. CASE arrived = 0
      BY <2>5, <2>7, <3>2, <3>3
    <3>4. CASE acks[e] > 0
      <4>1. ack_cqes[p] = 0
        BY <2>5, <3>1, <3>4
      <4>2. QED
        BY <2>5, <2>7, <2>8, <3>2, <4>1
    <3>5. CASE notices[e] > 0
      <4>1. notice_cqes[p] < Notices[e]
        BY <2>5, <2>7, <3>1, <3>5
      <4>2. QED
        BY <2>5, <2>7, <2>8, <3>2, <4>1
    <3>6. QED
      BY <2>8, <3>3, <3>4, <3>5
  <2> HIDE DEF arrived
  <2>9. recvs[p] > 0
    BY <2>5, <2>7, <2>8, <2>11
  <2>10. QED
    BY <2>1, <2>9
<1>2. IInv => ReceiverReady
  BY <1>1 DEF ReceiverReady
<1>3. QED
  BY <1>2, Invariance, PTL

\* No refill of the outgoing buffer before its write has completed.
THEOREM OutgoingCorrect == Spec => OutgoingStable
<1>1. ASSUME IInv, Next, NEW f \in Ends, Len(writes[f]) + write_cqes[f] > 0
      PROVE  outgoing'[f] = outgoing[f]
  <2>1. TypeOK /\ LocalOwed(f)
    BY <1>1 DEF IInv
  <2>2. /\ Len(writes[f]) \in Nat /\ write_cqes[f] \in Nat /\ unlock_local[f] \in Nat
    BY <2>1, TokenTypes
  <2> DEFINE posted == Len(writes[f])
  <2>3. /\ posted + write_cqes[f] + unlock_local[f] = One(local_status[f])
        /\ posted \in Nat /\ posted + write_cqes[f] > 0
    BY <1>1, <2>1, <2>2 DEF LocalOwed, LocalToken
  <2> HIDE DEF posted
  <2>4. local_status[f] = "LOCK"
    BY <2>2, <2>3 DEF One
  <2>5. ASSUME NEW e \in Ends, NEW m \in Msgs[e], RunTask(e, m)
        PROVE  outgoing'[f] = outgoing[f]
    BY <2>1, <2>4, <2>5 DEF RunTask, Write, Unlocked, TypeOK, BuffersTypeOK
  <2>6. ASSUME NEW e \in Ends,
               \/ \E m \in Msgs[e] : \/ TaskWithLock(e, m) \/ WaitTask(e, m)
                                     \/ SpuriousWakeup(e, m)
               \/ TakeTask(e) \/ ReleaseLocal(e) \/ ReleaseRemote(e)
               \/ ExecuteWrite(e) \/ ExecuteAck(e) \/ ProcessWriteSuccess(e)
               \/ ProcessAttachedMessage(e) \/ SendAck(e) \/ ProcessAck(e)
               \/ SendNotice(e) \/ ExecuteNotice(e) \/ ProcessNotice(e)
        PROVE  outgoing' = outgoing
    BY <2>6
    DEF TaskWithLock, WaitTask, SpuriousWakeup, TakeTask, ReleaseLocal,
        ReleaseRemote, ExecuteWrite, ExecuteAck, ProcessWriteSuccess,
        ProcessAttachedMessage, SendAck, Send, ProcessAck, SendNotice, ExecuteNotice,
        ProcessNotice, buffers
  <2>7. QED
    BY <1>1, <2>5, <2>6 DEF Next
<1>2. IInv /\ [Next]_vars =>
        [\A e \in Ends : Len(writes[e]) + write_cqes[e] > 0
                             => outgoing'[e] = outgoing[e]]_vars
  BY <1>1
<1>3. QED
  BY <1>2, Invariance, PTL DEF Spec, OutgoingStable

\* A notification is never lost.
THEOREM WakeupCorrect == Spec => []NoLostWakeup
<1>1. Init => NoLostWakeup
  BY DEF Init, NoLostWakeup
<1>2. ASSUME TypeOK, NoLostWakeup, [Next]_vars, NEW f \in Ends
      PROVE  (Unlocked(f) /\ asleep[f] # {} => ready[f] # {})'
  <2> DEFINE W == Unlocked(f) /\ asleep[f] # {} => ready[f] # {}
  <2>0. W
    BY <1>2 DEF NoLostWakeup
  <2>1. ASSUME NEW e \in Ends, TakeTask(e)
        PROVE  W'
    BY <1>2, <2>0, <2>1 DEF TakeTask, Unlocked, locks, TypeOK, PoolTypeOK
  <2>2. ASSUME NEW e \in Ends, NEW m \in Msgs[e], RunTask(e, m)
        PROVE  W'
    BY <1>2, <2>0, <2>2 DEF RunTask, Write, Unlocked, TypeOK, PoolTypeOK, LocksTypeOK
  <2>3. ASSUME NEW e \in Ends, NEW m \in Msgs[e], WaitTask(e, m)
        PROVE  W'
    BY <1>2, <2>0, <2>3 DEF WaitTask, Unlocked, locks, TypeOK, PoolTypeOK
  <2>4. ASSUME NEW e \in Ends, NEW m \in Msgs[e], SpuriousWakeup(e, m)
        PROVE  W'
    BY <1>2, <2>0, <2>4 DEF SpuriousWakeup, Unlocked, locks, TypeOK, PoolTypeOK
  <2>5. ASSUME NEW e \in Ends, ReleaseLocal(e) \/ ReleaseRemote(e)
        PROVE  W'
    <3>1. CASE e = f
      <4>1. NotifyOne(f)
        BY <2>5, <3>1 DEF ReleaseLocal, ReleaseRemote
      <4>2. CASE asleep[f] = {} /\ UNCHANGED <<ready, asleep>>
        BY <4>2
      <4>3. CASE \E m \in asleep[f] : ready' = [ready EXCEPT ![f] = @ \cup {m}]
        BY <1>2, <4>3 DEF TypeOK, PoolTypeOK
      <4>4. QED
        BY <4>1, <4>2, <4>3 DEF NotifyOne
    <3>2. CASE e # f
      <4>1. /\ local_status'[f] = local_status[f]
            /\ remote_status'[f] = remote_status[f]
        BY <1>2, <2>5, <3>2 DEF ReleaseLocal, ReleaseRemote, TypeOK, LocksTypeOK
      <4>2. asleep'[f] = asleep[f] /\ ready'[f] = ready[f]
        BY <1>2, <2>5, <3>2
        DEF ReleaseLocal, ReleaseRemote, NotifyOne, TypeOK, PoolTypeOK
      <4>3. QED
        BY <2>0, <4>1, <4>2 DEF Unlocked
    <3>3. QED
      BY <3>1, <3>2
  <2>6. ASSUME NEW e \in Ends,
               \/ \E m \in Msgs[e] : TaskWithLock(e, m)
               \/ ExecuteWrite(e) \/ ExecuteAck(e) \/ ProcessWriteSuccess(e)
               \/ ProcessAttachedMessage(e) \/ SendAck(e) \/ ProcessAck(e)
               \/ SendNotice(e) \/ ExecuteNotice(e) \/ ProcessNotice(e)
        PROVE  W'
    BY <2>0, <2>6
    DEF TaskWithLock, ExecuteWrite, ExecuteAck, ProcessWriteSuccess,
        ProcessAttachedMessage, SendAck, Send, ProcessAck, SendNotice, ExecuteNotice,
        ProcessNotice, Unlocked, pool, locks
  <2>7. CASE UNCHANGED vars
    BY <2>0, <2>7 DEF vars, pool, locks, Unlocked
  <2>8. QED
    BY <1>2, <2>1, <2>2, <2>3, <2>4, <2>5, <2>6, <2>7 DEF Next
<1>3. TypeOK /\ NoLostWakeup /\ [Next]_vars => NoLostWakeup'
  BY <1>2 DEF NoLostWakeup
<1>4. QED
  BY <1>1, <1>3, TypeCorrect, PTL DEF Spec
=============================================================================
