----------------------- MODULE CompletionQueueProofs -----------------------
(***************************************************************************)
(* Theorems about CompletionQueue, for a queue of any depth, any number of *)
(* completions, polls that fail, and endpoints that the daemon's thread    *)
(* makes beside the destructor.                                            *)
(***************************************************************************)
EXTENDS CompletionQueue, SequenceTheorems, TLAPS

\* The thread holds no batch before a poll.
Batch == pc \in {"none", "loop", "event", "arm", "poll", "ended"} => wc = <<>>

OrderInv == TypeOK /\ Batch /\ HandledInOrder

\* The calls before there is a thread.
Construction == {"open_ib_device", "alloc_pd", "create_comp_channel", "create_cq",
                 "req_notify_cq", "start_thread", "broken"}

\* What the destructor leaves, from the call on in which the queue goes, when it finds
\* the endpoint of a daemon.
Late == {"context", "pd", "event_channel", "cq", "endpoints"}

\* Where the thread is, and what the session has, at each call of its owner.
Owned ==
    /\ owner \in Construction => pc = "none"
    /\ owner = "built" => pc # "none"
    /\ owner \in Destruction => pc \in {"ended", "failed"}
    /\ owner = "open_ib_device" => objects = {}
    /\ owner = "alloc_pd" => objects = {"context"}
    /\ owner = "create_comp_channel" => objects = {"context", "pd"}
    /\ owner = "create_cq" => objects = {"context", "pd", "event_channel"}
    /\ owner \in {"req_notify_cq", "start_thread"} =>
         objects = {"context", "pd", "event_channel", "cq"}
    /\ owner \in {"built", "delete_endpoints"} =>
         objects \ {"endpoints", "regions"} =
           {"context", "pd", "event_channel", "cq", "mempool"}
    /\ owner = "delete_mempool" =>
         objects \ {"endpoints", "regions"} =
           {"context", "pd", "event_channel", "cq", "mempool"}
    /\ owner = "destroy_cq" =>
         objects \ {"endpoints", "regions"} = {"context", "pd", "event_channel", "cq"}
    /\ owner = "destroy_comp_channel" =>
         objects \ {"regions"} = {"context", "pd", "event_channel"} \/ objects = Late
    /\ owner = "dealloc_pd" => objects \ {"regions"} = {"context", "pd"} \/ objects = Late
    /\ owner = "destroyed" =>
         objects \in {{"context"}, {"context", "pd", "regions"}} \/ objects = Late
    /\ owner \in Destruction \ {"delete_endpoints"} /\ ~daemon => "endpoints" \notin objects
    /\ daemon => "regions" \notin objects
    /\ owner = "broken" => "endpoints" \notin objects
    /\ owner = "crashed" => ThreadHasQueue

\* What a poll leaves in the queue: nothing, unless it was full or has failed.
LeftByPoll == /\ ne \in 0..CQ_SIZE - 1 => cq = <<>>
              /\ ne = CQ_SIZE => Len(cq) <= Depth - CQ_SIZE

\* Between a poll and the next event an empty event channel means an armed queue that
\* holds what the poll has left; at the poll it means an armed one.  The thread finds
\* it armed and empty when it starts.
Watched ==
    /\ pc = "none" => cq = <<>> /\ ne = 0 /\ (owner = "start_thread" => armed)
    /\ events = 0 => /\ pc \in {"loop", "event", "handle", "ended"} => armed /\ LeftByPoll
                     /\ pc = "poll" => armed

-----------------------------------------------------------------------------
(* The three ways the sequences change. *)

\* A completion enters the queue.
LEMMA CompleteConcat ==
    ASSUME NEW S, NEW h \in Seq(S), NEW w \in Seq(S), NEW q \in Seq(S), NEW c \in S
    PROVE  h \o w \o Append(q, c) = Append(h \o w \o q, c)
<1>1. <<c>> \in Seq(S) /\ h \o w \in Seq(S) /\ h \o w \o q \in Seq(S)
  BY ConcatProperties
<1>2. Append(q, c) = q \o <<c>> /\ Append(h \o w \o q, c) = h \o w \o q \o <<c>>
  BY <1>1, AppendIsConcat
<1> QED  BY <1>1, <1>2, ConcatAssociative

\* The same for the queue of the session.
LEMMA CompleteInQueue ==
    \A h, w, q \in Seq(Completion), c \in Completion :
        h \o w \o Append(q, c) = Append(h \o w \o q, c)
<1> TAKE h, w, q \in Seq(Completion), c \in Completion
<1> DEFINE S == Completion
<1> HIDE DEF S
<1>1. h \in Seq(S) /\ w \in Seq(S) /\ q \in Seq(S) /\ c \in S  BY DEF S
<1> QED  BY <1>1, CompleteConcat

\* A batch leaves the queue.
LEMMA PollSplit ==
    ASSUME NEW S, NEW q \in Seq(S), NEW n \in 0..Len(q)
    PROVE  /\ First(q, n) \in Seq(S) /\ Len(First(q, n)) = n
           /\ Others(q, n) \in Seq(S) /\ Len(Others(q, n)) = Len(q) - n
           /\ First(q, n) \o Others(q, n) = q
<1>1. Len(q) \in Nat  BY LenProperties
<1>2. First(q, n) \in Seq(S) /\ Len(First(q, n)) = n
  BY <1>1 DEF First
<1>3. Others(q, n) \in Seq(S) /\ Len(Others(q, n)) = Len(q) - n
  BY <1>1 DEF Others
<1>4. First(q, n) \o Others(q, n) = q
  <2>1. 1 \in 1..(Len(q) + 1) /\ n \in (1 - 1)..Len(q) /\ Len(q) \in n..Len(q)
    BY <1>1
  <2>2. First(q, n) \o Others(q, n) = SubSeq(q, 1, Len(q))
    BY <2>1, ConcatAdjacentSubSeq DEF First, Others
  <2> QED  BY <2>2, SubSeqFull
<1> QED  BY <1>2, <1>3, <1>4

\* The first of the batch is handled.
LEMMA HandleConcat ==
    ASSUME NEW S, NEW h \in Seq(S), NEW w \in Seq(S), w # <<>>
    PROVE  Append(h, Head(w)) \o Tail(w) = h \o w
<1>1. Head(w) \in S /\ Tail(w) \in Seq(S) /\ Len(w) \in Nat \ {0}
  BY HeadTailProperties, EmptySeq
<1>2. w = <<Head(w)>> \o Tail(w)
  <2> DEFINE v == <<Head(w)>> \o Tail(w)
  <2>1. v \in Seq(S) /\ Len(v) = Len(w)
    BY <1>1, ConcatProperties, HeadTailProperties
  <2>2. \A i \in 1..Len(w) : w[i] = v[i]
    BY <1>1
  <2> QED  BY <2>1, <2>2, SeqEqual
<1>3. <<Head(w)>> \in Seq(S)  BY <1>1
<1>4. Append(h, Head(w)) = h \o <<Head(w)>>  BY <1>1, AppendIsConcat
<1> QED  BY <1>1, <1>2, <1>3, <1>4, ConcatAssociative

-----------------------------------------------------------------------------
(* Type and order. *)

LEMMA OrderInit == Init => OrderInv
<1> SUFFICES ASSUME Init PROVE OrderInv  OBVIOUS
<1>1. <<>> \in Seq(Completion) /\ Len(<<>>) = 0  BY EmptySeq
<1>2. <<>> \o <<>> \o <<>> = <<>>  BY <1>1, ConcatEmptySeq
<1>3. owner \in OwnerCalls /\ objects \subseteq Objects
  BY DEF Init, OwnerCalls, Objects
<1>4. /\ cq \in Seq(Completion) /\ Len(cq) <= Depth
      /\ wc \in Seq(Completion) /\ Len(wc) <= CQ_SIZE
      /\ completed \in Seq(Completion) /\ handled \in Seq(Completion)
  BY <1>1, SizeAssumption DEF Init
<1>5. /\ armed \in BOOLEAN /\ events \in Nat /\ status \in {"WORK", "CLOSED"}
      /\ pc = "none" /\ daemon \in BOOLEAN
  BY DEF Init
<1>6. ne \in -1..CQ_SIZE
  BY SizeAssumption DEF Init
<1>7. TypeOK  BY <1>3, <1>4, <1>5, <1>6 DEF TypeOK
<1> QED  BY <1>2, <1>5, <1>7 DEF Init, OrderInv, Batch, HandledInOrder

LEMMA OrderStep == OrderInv /\ Owned /\ [Next]_vars => OrderInv'
<1> SUFFICES ASSUME OrderInv, Owned, [Next]_vars PROVE OrderInv'  OBVIOUS
<1>0. /\ cq \in Seq(Completion)
      /\ wc \in Seq(Completion)
      /\ handled \in Seq(Completion)
      /\ handled \o wc \o cq = completed
  BY DEF OrderInv, TypeOK, HandledInOrder
<1> USE SizeAssumption DEF OrderInv, TypeOK, Batch, HandledInOrder
<1>10. CASE Owner
  <2>1. /\ UNCHANGED <<cq, events, batch, history, daemon>>
        /\ pc' = pc \/ (pc' = "loop" /\ owner = "start_thread")
        /\ status' \in {"WORK", "CLOSED"}
    <3>1. CASE ReqNotifyCq  BY <3>1 DEF ReqNotifyCq, history
    <3>2. CASE StartThread  BY <3>2 DEF StartThread, Creates, history
    <3>3. CASE ~ReqNotifyCq /\ ~StartThread
      <4>1. UNCHANGED thread
        BY <1>10, <3>3 DEF Owner, OpenDevice, AllocPd, CreateCompChannel, CreateCq,
           ConstructorFails, SendRawdata, Join, JoinBroken, DeleteEndpoints,
           DeleteMempool, DestroyCq, DestroyCompChannel, DeallocPd, Destroys
      <4>2. UNCHANGED daemon
        BY <1>10, <3>3 DEF Owner, OpenDevice, AllocPd, CreateCompChannel, CreateCq,
           ConstructorFails, SendRawdata, Join, JoinBroken, DeleteEndpoints,
           DeleteMempool, DestroyCq, DestroyCompChannel, DeallocPd, Creates, Destroys
      <4> QED  BY <4>1, <4>2 DEF thread, history
    <3> QED  BY <3>1, <3>2, <3>3
  <2>2. owner' \in OwnerCalls
    BY <1>10 DEF OwnerCalls, Owner, OpenDevice, AllocPd, CreateCompChannel, CreateCq, ReqNotifyCq,
       StartThread, ConstructorFails, SendRawdata, Join, JoinBroken, DeleteEndpoints,
       DeleteMempool, DestroyCq, DestroyCompChannel, DeallocPd, Creates, Destroys
  <2>3. objects' \subseteq Objects
    BY <1>10 DEF Objects, Owner, OpenDevice, AllocPd, CreateCompChannel, CreateCq, ReqNotifyCq,
       StartThread, ConstructorFails, SendRawdata, Join, JoinBroken, DeleteEndpoints,
       DeleteMempool, DestroyCq, DestroyCompChannel, DeallocPd, Creates, Destroys
  <2>4. pc' = "loop" /\ owner = "start_thread" => wc = <<>>
    BY DEF Owned, Construction
  <2>5. armed' \in BOOLEAN
    BY <1>10 DEF Owner, OpenDevice, AllocPd, CreateCompChannel, CreateCq, ReqNotifyCq,
       StartThread, ConstructorFails, SendRawdata, Join, JoinBroken, DeleteEndpoints,
       DeleteMempool, DestroyCq, DestroyCompChannel, DeallocPd, Destroys, thread
  <2> QED  BY <2>1, <2>2, <2>3, <2>4, <2>5 DEF history, batch
<1>1. ASSUME NEW c \in Completion, Complete(c) PROVE OrderInv'
  <2>1. /\ cq' \in Seq(Completion) /\ Len(cq') <= Depth
        /\ completed' \in Seq(Completion)
        /\ events' \in Nat
    BY <1>1 DEF Complete
  <2>2. handled' \o wc' \o cq' = completed'
    <3> HIDE DEF OrderInv, TypeOK, Batch, HandledInOrder
    <3>1. handled \o wc \o Append(cq, c) = Append(handled \o wc \o cq, c)
      BY <1>0, CompleteInQueue, Zenon
    <3>2. /\ cq' = Append(cq, c) /\ completed' = Append(completed, c)
          /\ handled' = handled /\ wc' = wc
      BY <1>1 DEF Complete, batch
    <3> QED  BY <1>0, <3>1, <3>2, Zenon
  <2> QED  BY <1>1, <2>1, <2>2 DEF Complete, session, batch
<1>11. CASE NewEndpoint \/ NewEndpointCrashes
  BY <1>11 DEF NewEndpoint, NewEndpointCrashes, Objects, OwnerCalls, thread, batch, history
<1>2. CASE Loop      BY <1>2 DEF Loop, session, batch, history
<1>3. CASE GetEvent  BY <1>3 DEF GetEvent, session, batch, history
<1>4. CASE Arm       BY <1>4 DEF Arm, session, batch, history
<1>5. CASE Fail      BY <1>5 DEF Fail, session, batch, history
<1>12. CASE PollFails  BY <1>12 DEF PollFails, session, history
<1>6. CASE Poll
  <2>0. wc = <<>>  BY <1>6 DEF Poll
  <2>1. Polled \in 0..Len(cq) /\ Polled <= CQ_SIZE /\ Len(cq) \in Nat
    BY DEF Polled
  <2>2. /\ pc = "poll"
        /\ ne' = Polled
        /\ wc' = First(cq, Polled)
        /\ cq' = Others(cq, Polled)
        /\ pc' = IF Polled > 0 THEN "handle" ELSE "loop"
        /\ UNCHANGED <<session, armed, events, status, completed, handled>>
    BY <1>6 DEF Poll, history
  <2>3. /\ wc' \in Seq(Completion) /\ Len(wc') = Polled
        /\ cq' \in Seq(Completion) /\ Len(cq') = Len(cq) - Polled
        /\ wc' \o cq' = cq
    BY <1>0, <2>1, <2>2, PollSplit
  <2>4. handled' \o wc' \o cq' = completed'
    <3> HIDE DEF OrderInv, TypeOK, Batch, HandledInOrder
    <3>1. handled \o wc' \o cq' = handled \o (wc' \o cq')
      <4>1. wc' \in Seq(Completion) /\ cq' \in Seq(Completion)  BY <2>3
      <4>2. handled \in Seq(Completion)  BY <1>0
      <4> QED  BY <4>1, <4>2, ConcatAssociative
    <3>2. handled \o wc = handled  BY <1>0, <2>0, ConcatEmptySeq
    <3> QED  BY <1>0, <2>2, <2>3, <3>1, <3>2, Zenon
  <2>5. wc' = <<>> <=> Polled = 0
    BY <2>3, EmptySeq
  <2>6. pc' = "handle" <=> Polled # 0
    BY <2>1, <2>2
  <2>7. Len(cq') <= Depth /\ Len(wc') <= CQ_SIZE /\ ne' \in -1..CQ_SIZE
    BY <2>1, <2>2, <2>3
  <2> QED  BY <2>2, <2>3, <2>4, <2>5, <2>6, <2>7 DEF session
<1>7. CASE Handle
  <2>1. wc # <<>> /\ Len(wc) \in Nat \ {0}
    BY <1>7, EmptySeq DEF Handle
  <2>2. /\ Head(wc) \in Completion
        /\ Tail(wc) \in Seq(Completion) /\ Len(Tail(wc)) = Len(wc) - 1
    BY <2>1, HeadTailProperties
  <2>3. handled' \in Seq(Completion)
    BY <1>7, <2>2 DEF Handle
  <2>4. handled' \o wc' \o cq' = completed'
    BY <1>7, <2>1, HandleConcat DEF Handle, session, history
  <2>5. Len(wc') <= CQ_SIZE
    BY <1>7, <2>1, <2>2 DEF Handle
  <2>6. owner' \in OwnerCalls /\ objects' \subseteq Objects
    BY <1>7 DEF Handle
  <2> QED  BY <1>7, <2>1, <2>2, <2>3, <2>4, <2>5, <2>6 DEF Handle, NextInBatch, history
<1>8. CASE BadCompletion  BY <1>8 DEF BadCompletion, session, batch, history
<1>9. CASE UNCHANGED vars  BY <1>9 DEF vars, session, thread, batch, history
<1> QED
  BY <1>10, <1>11, <1>12, <1>1, <1>2, <1>3, <1>4, <1>5, <1>6, <1>7, <1>8, <1>9
  DEF Next, Thread

\* What the session has is what its thread and its endpoints need.
LEMMA OwnedQueue == OrderInv /\ Owned => ThreadHasQueue
<1> SUFFICES ASSUME OrderInv, Owned PROVE ThreadHasQueue  OBVIOUS
<1>1. CASE owner \in Construction
  BY <1>1 DEF Owned, Construction, ThreadHasQueue
<1>2. CASE owner \in Destruction
  BY <1>2 DEF Owned, Destruction, Late, ThreadHasQueue
<1>3. CASE owner \in {"built", "crashed"}
  BY <1>3 DEF Owned, ThreadHasQueue
<1> QED  BY <1>1, <1>2, <1>3 DEF OrderInv, TypeOK, OwnerCalls, Construction, Destruction

\* The owner's step, and the thread's, keep what the session has.
LEMMA OwnedInit == Init => Owned
BY DEF Init, Owned, Construction, Destruction

LEMMA OwnedStep == OrderInv /\ Owned /\ [Next]_vars => Owned'
<1> SUFFICES ASSUME OrderInv, Owned, [Next]_vars PROVE Owned'  OBVIOUS
<1> USE DEF Owned, Construction, Destruction, Late
<1>1. CASE Owner
  <2> USE DEF Creates, Destroys, thread
  <2>1. CASE OpenDevice         BY <1>1, <2>1 DEF OpenDevice
  <2>2. CASE AllocPd            BY <1>1, <2>2 DEF AllocPd
  <2>3. CASE CreateCompChannel  BY <1>1, <2>3 DEF CreateCompChannel
  <2>4. CASE CreateCq           BY <1>1, <2>4 DEF CreateCq
  <2>5. CASE ReqNotifyCq        BY <1>1, <2>5 DEF ReqNotifyCq
  <2>6. CASE StartThread        BY <1>1, <2>6 DEF StartThread
  <2>7. CASE ConstructorFails   BY <1>1, <2>7 DEF ConstructorFails
  <2>8. CASE Join               BY <1>1, <2>8 DEF Join
  <2>9. CASE JoinBroken         BY <1>1, <2>9 DEF JoinBroken, ThreadHasQueue
  <2>10. CASE DeleteEndpoints   BY <1>1, <2>10 DEF DeleteEndpoints
  <2>11. CASE DeleteMempool     BY <1>1, <2>11 DEF DeleteMempool
  <2>12. CASE DestroyCq         BY <1>1, <2>12 DEF DestroyCq
  <2>13. CASE DestroyCompChannel  BY <1>1, <2>13 DEF DestroyCompChannel
  <2>14. CASE DeallocPd         BY <1>1, <2>14 DEF DeallocPd
  <2>15. CASE SendRawdata       BY <1>1, <2>15 DEF SendRawdata
  <2> QED
    BY <1>1, <2>1, <2>2, <2>3, <2>4, <2>5, <2>6, <2>7, <2>8, <2>9, <2>10, <2>11, <2>12,
       <2>13, <2>14, <2>15 DEF Owner
<1>2. CASE NewEndpoint
  BY <1>2 DEF NewEndpoint, thread
<1>3. CASE NewEndpointCrashes
  <2>1. ThreadHasQueue
    BY <1>3, OwnedQueue DEF NewEndpointCrashes
  <2>2. ThreadHasQueue'
    BY <1>3, <2>1 DEF NewEndpointCrashes, ThreadHasQueue, thread
  <2> QED  BY <1>3, <2>2 DEF NewEndpointCrashes
<1>4. ASSUME UNCHANGED session, \/ UNCHANGED pc
                                \/ pc \notin {"none", "ended", "failed"} /\ pc' # "none"
      PROVE  Owned'
  <2>1. ThreadHasQueue => ThreadHasQueue'
    BY <1>4 DEF session, ThreadHasQueue
  <2> QED  BY <1>4, <2>1 DEF session
<1>5. ASSUME NEW c \in Completion, Complete(c) PROVE Owned'
  BY <1>4, <1>5 DEF Complete
<1>6. CASE Handle /\ owner # "crashed"
  <2>1. owner = "built" /\ owner' = "built" /\ pc' \notin {"none", "ended", "failed"}
    BY <1>6 DEF Handle, NextInBatch, OrderInv, TypeOK, OwnerCalls
  <2>2. /\ objects' \ {"endpoints", "regions"} = objects \ {"endpoints", "regions"}
        /\ objects' \subseteq objects /\ daemon' = daemon
    BY <1>6 DEF Handle
  <2> QED  BY <2>1, <2>2
<1>7. CASE ~Handle /\ (Thread \/ PollFails \/ Fail)
  <2>1. UNCHANGED session
    BY <1>7 DEF Thread, Loop, GetEvent, Arm, Poll, PollFails, BadCompletion, Fail
  <2>2. pc \notin {"none", "ended", "failed"} /\ pc' # "none"
    BY <1>7 DEF Thread, Loop, GetEvent, Arm, Poll, PollFails, BadCompletion, Fail
  <2> QED  BY <1>4, <2>1, <2>2
<1>8. CASE UNCHANGED vars  BY <1>4, <1>8 DEF vars, thread
<1> QED  BY <1>1, <1>2, <1>3, <1>5, <1>6, <1>7, <1>8 DEF Next, Thread

\* Every variable has its type.
THEOREM TypeCorrect == Spec => []TypeOK
<1>1. OrderInv => TypeOK  BY DEF OrderInv
<1> QED  BY OrderInit, OrderStep, OwnedInit, OwnedStep, <1>1, PTL DEF Spec

\* Completions are handled in the order they came, none of a batch skipped (the
\* loop over wc_ in session_processCQ).
THEOREM OrderCorrect == Spec => []HandledInOrder
<1>1. OrderInv => HandledInOrder  BY DEF OrderInv
<1> QED  BY OrderInit, OrderStep, OwnedInit, OwnedStep, <1>1, PTL DEF Spec

\* The completion thread has its queue and event channel while it runs: they are
\* made before it starts and destroyed after it was joined.  An endpoint has them for
\* as long as it exists, also one that a daemon makes beside the destructor or after.
THEOREM QueueCorrect == Spec => []ThreadHasQueue
BY OrderInit, OrderStep, OwnedInit, OwnedStep, OwnedQueue, PTL DEF Spec

\* The destructor of a session that was constructed releases everything but the
\* device, which nothing in the code closes, unless a registered buffer is left or
\* the daemon's thread has made an endpoint too late.
THEOREM CleanupCorrect == Spec => []NothingLeft
<1>1. Owned => NothingLeft
  BY DEF Owned, NothingLeft, Late, Destruction
<1> QED  BY OrderInit, OrderStep, OwnedInit, OwnedStep, <1>1, PTL DEF Spec

-----------------------------------------------------------------------------
(* No completion is missed. *)

LEMMA WatchedInit == Init => Watched
BY DEF Init, Watched

LEMMA WatchedStep == OrderInv /\ Owned /\ Watched /\ [Next]_vars => Watched'
<1> SUFFICES ASSUME OrderInv, Owned, Watched, [Next]_vars PROVE Watched'  OBVIOUS
<1> USE DEF Watched, LeftByPoll
<1>0. /\ cq \in Seq(Completion) /\ Len(cq) \in Nat /\ Len(cq) <= Depth /\ events \in Nat
      /\ Depth \in Nat /\ CQ_SIZE \in Nat \ {0} /\ CQ_SIZE <= Depth
  BY SizeAssumption, LenProperties DEF OrderInv, TypeOK
<1>1. CASE Owner
  <2>1. CASE ReqNotifyCq
    BY <2>1 DEF ReqNotifyCq, Owned, Construction, batch
  <2>2. CASE StartThread
    <3>1. pc = "none" /\ cq = <<>> /\ ne = 0 /\ armed
      BY <2>2 DEF StartThread, Creates, Owned, Construction
    <3>2. pc' = "loop" /\ UNCHANGED <<cq, ne, armed>>
      BY <2>2 DEF StartThread, batch
    <3> QED  BY <1>0, <3>1, <3>2
  <2>3. CASE ~ReqNotifyCq /\ ~StartThread
    <3>1. UNCHANGED thread /\ owner' # "start_thread"
      BY <1>1, <2>3 DEF Owner, OpenDevice, AllocPd, CreateCompChannel, CreateCq,
         ConstructorFails, SendRawdata, Join, JoinBroken, DeleteEndpoints,
         DeleteMempool, DestroyCq, DestroyCompChannel, DeallocPd, Creates, Destroys
    <3> QED  BY <3>1 DEF thread, batch
  <2> QED  BY <2>1, <2>2, <2>3
<1>2. ASSUME NEW c \in Completion, Complete(c), owner # "crashed" PROVE Watched'
  <2>1. pc # "none"
    BY <1>2 DEF Complete, Owned, Construction, Destruction, OrderInv, TypeOK, OwnerCalls
  <2>2. pc' = pc
    BY <1>2 DEF Complete
  <2>3. CASE armed
    <3>1. events' = events + 1
      BY <1>2, <2>3 DEF Complete
    <3> QED  BY <1>0, <2>1, <2>2, <3>1
  <2>4. CASE ~armed
    <3>1. events' = events
      BY <1>2, <2>4 DEF Complete
    <3> QED  BY <2>1, <2>2, <2>4, <3>1
  <2> QED  BY <2>3, <2>4
<1>3. CASE NewEndpoint \/ NewEndpointCrashes
  BY <1>3 DEF NewEndpoint, NewEndpointCrashes, Destruction, thread, batch
<1>4. CASE Loop        BY <1>4 DEF Loop, batch
<1>5. CASE GetEvent    BY <1>5 DEF GetEvent, batch
<1>6. CASE Arm         BY <1>6 DEF Arm, batch
<1>7. CASE Fail        BY <1>7 DEF Fail, batch
<1>8. CASE Poll
  <2>1. /\ ne' = Polled /\ cq' = Others(cq, Polled) /\ pc' \in {"handle", "loop"}
        /\ pc = "poll" /\ UNCHANGED <<armed, events>>
    BY <1>8 DEF Poll
  <2>2. Polled \in 0..Len(cq) /\ Polled <= CQ_SIZE /\ (Polled # CQ_SIZE => Polled = Len(cq))
    BY <1>0 DEF Polled
  <2>3. cq' \in Seq(Completion) /\ Len(cq') = Len(cq) - Polled
    BY <1>0, <2>1, <2>2, PollSplit
  <2>4. LeftByPoll'
    <3>1. ne' \in 0..CQ_SIZE - 1 => Len(cq') = 0
      BY <1>0, <2>1, <2>2, <2>3
    <3>2. ne' = CQ_SIZE => Len(cq') <= Depth - CQ_SIZE
      BY <1>0, <2>1, <2>2, <2>3
    <3> QED  BY <2>3, <3>1, <3>2, EmptySeq
  <2> QED  BY <2>1, <2>4
<1>9. CASE PollFails
  <2>1. ne' = -1 /\ pc' = "loop" /\ pc = "poll" /\ UNCHANGED <<armed, events>>
    BY <1>9 DEF PollFails
  <2>2. LeftByPoll'
    BY <1>0, <2>1
  <2> QED  BY <2>1, <2>2
<1>10. CASE Handle         BY <1>10 DEF Handle, NextInBatch
<1>11. CASE BadCompletion  BY <1>11 DEF BadCompletion, batch
<1>12. CASE UNCHANGED vars  BY <1>12 DEF vars, session, thread, batch, history
<1> QED
  BY <1>1, <1>2, <1>3, <1>4, <1>5, <1>6, <1>7, <1>8, <1>9, <1>10, <1>11, <1>12
  DEF Next, Thread

\* The thread never waits for an event that will not come (ibv_req_notify_cq before
\* ibv_poll_cq in session_processCQ) but after a poll that failed or was full, which
\* leaves no more in the queue than the device has rounded it up by: nothing when the
\* device gives what was asked for.
THEOREM MissedCorrect == Spec => []NoMissedCompletion
<1>1. Watched => NoMissedCompletion  BY DEF Watched, LeftByPoll, NoMissedCompletion
<1> QED
  BY OrderInit, OrderStep, OwnedInit, OwnedStep, WatchedInit, WatchedStep, <1>1, PTL DEF Spec

=============================================================================
