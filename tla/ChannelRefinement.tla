------------------------- MODULE ChannelRefinement -------------------------
(***************************************************************************)
(* Channel implements Mailbox, for any messages, any number of worker      *)
(* threads and any receive depth of at least two.                          *)
(*                                                                         *)
(* The mailbox's todo is every task still in the pool.  A request adds one *)
(* and a put removes one, because no task is in two places of the pool     *)
(* (TasksApart); a put finds the slot empty and a take finds the message   *)
(* put because of the invariant IInv of ChannelProofs.                     *)
(*                                                                         *)
(* The same facts about the tasks bound what the mailbox leaves open: how  *)
(* far a message may overtake those requested before it.                   *)
(***************************************************************************)
EXTENDS ChannelProofs, FiniteSetTheorems

-----------------------------------------------------------------------------
(* The tasks of a pool. *)

\* A task is in one place of the pool, and was requested.
TasksApart(e) ==
    /\ ready[e] \cap asleep[e] = {}
    /\ Range(queue[e]) \cap (ready[e] \cup asleep[e]) = {}
    /\ Distinct(queue[e])
    /\ Range(queue[e]) \cup ready[e] \cup asleep[e] \subseteq Range(requested[e])

Tasks(e) == Range(queue[e]) \cup ready[e] \cup asleep[e]

\* What an action of end f does to its tasks, when they are apart.
LEMMA RequestTasks ==
    ASSUME TypeOK, NEW f \in Ends, TasksApart(f), NEW m \in Msgs[f], TaskWithLock(f, m)
    PROVE  TasksApart(f)' /\ Tasks(f)' = Tasks(f) \cup {m}
<1>1. /\ queue[f] \in Seq(Msg) /\ requested[f] \in Seq(Msg) /\ m \in Msg
      /\ queue'[f] = Append(queue[f], m)
      /\ requested'[f] = Append(requested[f], m)
      /\ ready'[f] = ready[f] /\ asleep'[f] = asleep[f]
      /\ m \notin Range(requested[f])
  BY MsgFacts DEF TaskWithLock, TypeOK, PoolTypeOK, HistoryTypeOK
<1>2. /\ Range(queue'[f]) = Range(queue[f]) \cup {m}
      /\ Range(requested'[f]) = Range(requested[f]) \cup {m}
  BY <1>1, RangeOfAppend
<1>3. m \notin Range(queue[f]) /\ m \notin ready[f] /\ m \notin asleep[f]
  BY <1>1 DEF TasksApart
<1>4. Distinct(queue'[f])
  BY <1>1, <1>3, DistinctAppend DEF TasksApart
<1>5. QED
  BY <1>1, <1>2, <1>3, <1>4 DEF TasksApart, Tasks

LEMMA TakeTasks ==
    ASSUME TypeOK, NEW f \in Ends, TasksApart(f), TakeTask(f)
    PROVE  TasksApart(f)' /\ Tasks(f)' = Tasks(f)
<1>1. /\ queue[f] \in Seq(Msg) /\ queue[f] # <<>>
      /\ queue'[f] = Tail(queue[f])
      /\ ready'[f] = ready[f] \cup {Head(queue[f])}
      /\ asleep'[f] = asleep[f] /\ requested'[f] = requested[f]
  BY DEF TakeTask, TypeOK, PoolTypeOK, history
<1>2. /\ Range(queue[f]) = {Head(queue[f])} \cup Range(queue'[f])
      /\ Distinct(queue'[f]) /\ Head(queue[f]) \notin Range(queue'[f])
  BY <1>1, RangeOfTail, DistinctTail DEF TasksApart
<1>3. QED
  BY <1>1, <1>2 DEF TasksApart, Tasks

LEMMA RunTasks ==
    ASSUME TypeOK, NEW f \in Ends, TasksApart(f), NEW m \in Msgs[f], RunTask(f, m)
    PROVE  TasksApart(f)' /\ m \in Tasks(f) /\ Tasks(f)' = Tasks(f) \ {m}
<1>1. /\ m \in ready[f]
      /\ ready'[f] = ready[f] \ {m}
      /\ queue'[f] = queue[f] /\ asleep'[f] = asleep[f]
      /\ requested'[f] = requested[f]
  BY DEF RunTask, Write, TypeOK, PoolTypeOK
<1>2. QED
  BY <1>1 DEF TasksApart, Tasks

LEMMA MoveTasks ==
    ASSUME TypeOK, NEW f \in Ends, TasksApart(f),
           \/ \E m \in Msgs[f] : WaitTask(f, m) \/ SpuriousWakeup(f, m)
           \/ ReleaseLocal(f) \/ ReleaseRemote(f)
    PROVE  TasksApart(f)' /\ Tasks(f)' = Tasks(f)
<1>1. queue'[f] = queue[f] /\ requested'[f] = requested[f]
  BY DEF WaitTask, SpuriousWakeup, ReleaseLocal, ReleaseRemote, history
<1>2. \/ ready'[f] = ready[f] /\ asleep'[f] = asleep[f]
      \/ \E m \in ready[f] : /\ ready'[f] = ready[f] \ {m}
                             /\ asleep'[f] = asleep[f] \cup {m}
      \/ \E m \in asleep[f] : /\ ready'[f] = ready[f] \cup {m}
                              /\ asleep'[f] = asleep[f] \ {m}
  <2>1. ASSUME NEW m \in Msgs[f], WaitTask(f, m)
        PROVE  /\ m \in ready[f] /\ ready'[f] = ready[f] \ {m}
               /\ asleep'[f] = asleep[f] \cup {m}
    BY <2>1 DEF WaitTask, TypeOK, PoolTypeOK
  <2>2. ASSUME NEW m \in Msgs[f], SpuriousWakeup(f, m)
        PROVE  /\ m \in asleep[f] /\ ready'[f] = ready[f] \cup {m}
               /\ asleep'[f] = asleep[f] \ {m}
    BY <2>2 DEF SpuriousWakeup, TypeOK, PoolTypeOK
  <2>3. CASE NotifyOne(f)
    <3>1. CASE UNCHANGED <<ready, asleep>>
      BY <3>1
    <3>2. ASSUME NEW m \in asleep[f], asleep' = [asleep EXCEPT ![f] = @ \ {m}],
                 ready' = [ready EXCEPT ![f] = @ \cup {m}]
          PROVE  /\ ready'[f] = ready[f] \cup {m}
                 /\ asleep'[f] = asleep[f] \ {m}
      BY <3>2 DEF TypeOK, PoolTypeOK
    <3>3. QED
      BY <2>3, <3>1, <3>2 DEF NotifyOne
  <2>4. QED
    BY <2>1, <2>2, <2>3 DEF ReleaseLocal, ReleaseRemote
<1>3. QED
  BY <1>1, <1>2 DEF TasksApart, Tasks

LEMMA OtherTasks ==
    ASSUME NEW f \in Ends, TasksApart(f),
           queue'[f] = queue[f], ready'[f] = ready[f], asleep'[f] = asleep[f],
           requested'[f] = requested[f]
    PROVE  TasksApart(f)' /\ Tasks(f)' = Tasks(f)
  BY DEF TasksApart, Tasks

\* An action of one end leaves the tasks of the other alone.
LEMMA PeerTasks ==
    ASSUME TypeOK, NEW f \in Ends, NEW e \in Ends, e # f,
           \/ \E m \in Msgs[e] : \/ TaskWithLock(e, m) \/ RunTask(e, m)
                                 \/ WaitTask(e, m) \/ SpuriousWakeup(e, m)
           \/ TakeTask(e) \/ ReleaseLocal(e) \/ ReleaseRemote(e)
    PROVE  /\ queue'[f] = queue[f] /\ ready'[f] = ready[f]
           /\ asleep'[f] = asleep[f] /\ requested'[f] = requested[f]
<1>1. CASE \E m \in Msgs[e] : TaskWithLock(e, m) \/ RunTask(e, m)
  BY <1>1 DEF TaskWithLock, RunTask, Write, TypeOK, PoolTypeOK, HistoryTypeOK
<1>2. CASE TakeTask(e) \/ \E m \in Msgs[e] : WaitTask(e, m) \/ SpuriousWakeup(e, m)
  BY <1>2 DEF TakeTask, WaitTask, SpuriousWakeup, history, TypeOK, PoolTypeOK
<1>3. CASE ReleaseLocal(e) \/ ReleaseRemote(e)
  <2>1. NotifyOne(e) /\ queue' = queue /\ requested' = requested
    BY <1>3 DEF ReleaseLocal, ReleaseRemote, history
  <2>2. QED
    BY <2>1 DEF NotifyOne, TypeOK, PoolTypeOK
<1>4. QED
  BY <1>1, <1>2, <1>3

\* The actions that touch no task.
Untasked(e) == \/ ExecuteWrite(e) \/ ExecuteAck(e) \/ ProcessWriteSuccess(e)
               \/ ProcessAttachedMessage(e) \/ SendAck(e) \/ ProcessAck(e)
               \/ SendNotice(e) \/ ExecuteNotice(e) \/ ProcessNotice(e)

LEMMA UntaskedTasks ==
    ASSUME NEW e \in Ends, Untasked(e)
    PROVE  UNCHANGED <<pool, requested, sent>>
  BY DEF Untasked, ExecuteWrite, ExecuteAck, ProcessWriteSuccess,
         ProcessAttachedMessage, SendAck, Send, ProcessAck, SendNotice, ExecuteNotice,
         ProcessNotice, history

\* Tasks stay apart.
LEMMA TasksStep ==
    ASSUME TypeOK, [Next]_vars, \A e \in Ends : TasksApart(e)
    PROVE  \A e \in Ends : TasksApart(e)'
<1> SUFFICES ASSUME NEW f \in Ends PROVE TasksApart(f)'
  OBVIOUS
<1> DEFINE Same == /\ queue'[f] = queue[f] /\ ready'[f] = ready[f]
                   /\ asleep'[f] = asleep[f] /\ requested'[f] = requested[f]
<1>1. CASE \E m \in Msgs[f] : \/ TaskWithLock(f, m) \/ RunTask(f, m)
                              \/ WaitTask(f, m) \/ SpuriousWakeup(f, m)
  BY <1>1, RequestTasks, RunTasks, MoveTasks
<1>2. CASE TakeTask(f) \/ ReleaseLocal(f) \/ ReleaseRemote(f)
  BY <1>2, TakeTasks, MoveTasks
<1>3. ASSUME NEW e \in Ends, e # f,
             \/ \E m \in Msgs[e] : \/ TaskWithLock(e, m) \/ RunTask(e, m)
                                   \/ WaitTask(e, m) \/ SpuriousWakeup(e, m)
             \/ TakeTask(e) \/ ReleaseLocal(e) \/ ReleaseRemote(e)
      PROVE  Same
  BY <1>3, PeerTasks
<1>4. ASSUME NEW e \in Ends, Untasked(e)
      PROVE  Same
  <2>1. UNCHANGED <<pool, requested, sent>>
    BY <1>4, UntaskedTasks
  <2>2. QED
    BY <2>1 DEF pool
<1>5. ASSUME Same PROVE TasksApart(f)'
  BY <1>5, OtherTasks
<1>6. CASE UNCHANGED vars
  BY <1>5, <1>6 DEF vars, pool, history
<1>7. QED
  BY <1>1, <1>2, <1>3, <1>4, <1>5, <1>6 DEF Next, Untasked

-----------------------------------------------------------------------------
(* The refinement. *)

RInv == IInv /\ \A e \in Ends : TasksApart(e)

LEMMA RInvariance == Spec => []RInv
<1>1. Init => \A e \in Ends : TasksApart(e)
  BY DEF Init, TasksApart, Range, Distinct
<1>2. RInv /\ [Next]_vars => RInv'
  BY InvStep, TasksStep DEF RInv, IInv
<1>3. QED
  BY <1>1, <1>2, InvInit, PTL DEF Spec, RInv

\* How an action of end e moves the tasks of both ends.
LEMMA ToDoOf ==
    ASSUME NEW e \in Ends, NEW S,
           Tasks(e)' = S,
           \A f \in Ends : f # e => Tasks(f)' = Tasks(f)
    PROVE  ToDo' = [ToDo EXCEPT ![e] = S]
<1>1. /\ ToDo = [f \in Ends |-> Tasks(f)]
      /\ ToDo' = [f \in Ends |-> Tasks(f)']
  BY DEF ToDo, Tasks
<1>2. QED
  BY <1>1

\* Every step of the channel is a step of the mailbox or a stutter.
LEMMA StepRefines ==
    ASSUME RInv, [Next]_vars
    PROVE  [MB!Next]_(MB!mvars)
<1> USE DEF MB!mvars
<1>1. /\ TypeOK /\ \A e \in Ends : TasksApart(e)
      /\ \A e \in Ends : RemoteOwed(e) /\ Flight(e)
  BY DEF RInv, IInv
<1>2. ToDo = [f \in Ends |-> Tasks(f)]
  BY DEF ToDo, Tasks
<1>3. ASSUME NEW e \in Ends,
             \/ \E m \in Msgs[e] : \/ TaskWithLock(e, m) \/ RunTask(e, m)
                                   \/ WaitTask(e, m) \/ SpuriousWakeup(e, m)
             \/ TakeTask(e) \/ ReleaseLocal(e) \/ ReleaseRemote(e)
      PROVE  \A f \in Ends : f # e => Tasks(f)' = Tasks(f)
  BY <1>1, <1>3, PeerTasks, OtherTasks
<1>4. ASSUME NEW e \in Ends, NEW m \in Msgs[e], TaskWithLock(e, m)
      PROVE  MB!Next
  <2>1. ToDo' = [ToDo EXCEPT ![e] = ToDo[e] \cup {m}]
    BY <1>1, <1>2, <1>3, <1>4, RequestTasks, ToDoOf
  <2>2. UNCHANGED <<sent, got>>
    BY <1>4 DEF TaskWithLock
  <2>3. QED
    BY <2>1, <2>2 DEF MB!Next, MB!Request
<1>5. ASSUME NEW e \in Ends, NEW m \in Msgs[e], RunTask(e, m)
      PROVE  MB!Next
  <2>1. m \in ToDo[e] /\ ToDo' = [ToDo EXCEPT ![e] = ToDo[e] \ {m}]
    BY <1>1, <1>2, <1>3, <1>5, RunTasks, ToDoOf
  <2>2. sent[e] = got[Peer(e)]
    BY <1>1, <1>5 DEF Flight, RunTask, Write, Unlocked, TypeOK, LocksTypeOK
  <2>3. sent' = [sent EXCEPT ![e] = Append(@, m)] /\ UNCHANGED got
    BY <1>5 DEF RunTask, Write
  <2>4. QED
    BY <2>1, <2>2, <2>3 DEF MB!Next, MB!Put, MB!Full
<1>6. ASSUME NEW e \in Ends,
             \/ \E m \in Msgs[e] : WaitTask(e, m) \/ SpuriousWakeup(e, m)
             \/ TakeTask(e) \/ ReleaseLocal(e) \/ ReleaseRemote(e)
      PROVE  UNCHANGED MB!mvars
  <2>1. Tasks(e)' = Tasks(e)
    BY <1>1, <1>6, TakeTasks, MoveTasks
  <2>2. ToDo' = [ToDo EXCEPT ![e] = Tasks(e)]
    BY <1>3, <1>6, <2>1, ToDoOf
  <2>3. ToDo' = ToDo
    BY <1>2, <2>2
  <2>4. UNCHANGED <<sent, got>>
    BY <1>6
    DEF TakeTask, WaitTask, SpuriousWakeup, ReleaseLocal, ReleaseRemote, history
  <2>5. QED
    BY <2>3, <2>4
<1>7. ASSUME NEW p \in Ends, ProcessAttachedMessage(p),
             ~Ignored(p, Head(recv_cqes[p]))
      PROVE  MB!Next
  <2>1. PICK e \in Ends : Peer(e) = p
    BY PeerFacts
  <2>2. /\ got' = [got EXCEPT ![p] = Append(@, incoming[p])]
        /\ recv_cqes[p] # <<>>
    BY <1>7 DEF ProcessAttachedMessage
  <2>3. incoming[p] \in Msgs[e] /\ sent[e] = Append(got[p], incoming[p])
    BY <1>1, <2>1, <2>2 DEF Flight
  <2>4. sent[e] # got[p]
    <3>1. got[p] \in Seq(Msg \cup {None}) /\ incoming[p] \in Msg \cup {None}
      BY <1>1 DEF TypeOK, HistoryTypeOK, BuffersTypeOK
    <3>2. Len(Append(got[p], incoming[p])) = Len(got[p]) + 1 /\ Len(got[p]) \in Nat
      BY <3>1
    <3>3. QED
      BY <2>3, <3>2
  <2>5. UNCHANGED <<pool, requested, sent>>
    BY <1>7, UntaskedTasks DEF Untasked
  <2>6. UNCHANGED ToDo
    BY <2>5 DEF ToDo, pool
  <2>7. MB!Take(e)
    BY <2>1, <2>2, <2>3, <2>4, <2>5, <2>6 DEF MB!Take, MB!Full
  <2>8. QED
    BY <2>7 DEF MB!Next
<1>8. ASSUME NEW e \in Ends, Untasked(e), UNCHANGED got
      PROVE  UNCHANGED MB!mvars
  <2>1. UNCHANGED <<pool, requested, sent>>
    BY <1>8, UntaskedTasks
  <2>2. UNCHANGED ToDo
    BY <2>1 DEF ToDo, pool
  <2>3. QED
    BY <1>8, <2>1, <2>2
<1>9. ASSUME NEW e \in Ends, Untasked(e)
      PROVE  \/ UNCHANGED got
             \/ ProcessAttachedMessage(e) /\ ~Ignored(e, Head(recv_cqes[e]))
  BY <1>9
  DEF Untasked, ExecuteWrite, ExecuteAck, ProcessWriteSuccess,
      ProcessAttachedMessage, SendAck, Send, ProcessAck, SendNotice, ExecuteNotice,
         ProcessNotice, history
<1>10. CASE UNCHANGED vars
  BY <1>10 DEF vars, pool, history, ToDo
<1>11. QED
  BY <1>4, <1>5, <1>6, <1>7, <1>8, <1>9, <1>10 DEF Next, Untasked

\* The two locks, the two buffers, the thread pools and the completions together
\* behave as a one-slot mailbox in each direction.
THEOREM Refinement == Spec => MailboxSpec
<1>1. Init => MB!Init
  BY DEF Init, MB!Init, ToDo, Range
<1>2. RInv /\ [Next]_vars => [MB!Next]_(MB!mvars)
  BY StepRefines
<1>3. QED
  BY <1>1, <1>2, RInvariance, PTL DEF Spec, MailboxSpec, MB!Spec

-----------------------------------------------------------------------------
(* The order of the tasks.  The queue is the end of what was requested, and *)
(* what was requested before is sent or has one of the threads.             *)

Running(e) == ready[e] \cup asleep[e]
Taken(e) == Len(requested[e]) - Len(queue[e])

InOrder(e) ==
    /\ Distinct(requested[e])
    /\ Taken(e) \in Nat
    /\ \A k \in 1..Len(queue[e]) : queue[e][k] = requested[e][Taken(e) + k]
    /\ \A j \in 1..Taken(e) : requested[e][j] \in Running(e) \cup Range(sent[e])

ThreadsBusy(e) == IsFiniteSet(Running(e)) /\ Cardinality(Running(e)) <= WorkThreads

Queued(e) == InOrder(e) /\ ThreadsBusy(e)

LEMMA TakenFacts ==
    ASSUME TypeOK, NEW f \in Ends, Queued(f)
    PROVE  /\ Taken(f) \in Nat /\ Len(queue[f]) \in Nat /\ Len(requested[f]) \in Nat
           /\ Len(requested[f]) = Taken(f) + Len(queue[f])
<1>1. queue[f] \in Seq(Msg) /\ requested[f] \in Seq(Msg) /\ Taken(f) \in Nat
  BY DEF TypeOK, PoolTypeOK, HistoryTypeOK, Queued, InOrder
<1>2. Len(queue[f]) \in Nat /\ Len(requested[f]) \in Nat
  BY <1>1
<1>3. QED
  BY <1>1, <1>2 DEF Taken

LEMMA RequestOrder ==
    ASSUME TypeOK, NEW f \in Ends, Queued(f), NEW m \in Msgs[f], TaskWithLock(f, m)
    PROVE  Queued(f)'
<1>1. /\ queue[f] \in Seq(Msg) /\ requested[f] \in Seq(Msg) /\ m \in Msg
      /\ queue'[f] = Append(queue[f], m)
      /\ requested'[f] = Append(requested[f], m)
      /\ ready'[f] = ready[f] /\ asleep'[f] = asleep[f] /\ sent'[f] = sent[f]
      /\ m \notin Range(requested[f])
  BY MsgFacts DEF TaskWithLock, TypeOK, PoolTypeOK, HistoryTypeOK
<1>2. /\ Len(queue'[f]) = Len(queue[f]) + 1 /\ Len(requested'[f]) = Len(requested[f]) + 1
      /\ Len(queue[f]) \in Nat /\ Len(requested[f]) \in Nat
      /\ \A k \in 1..Len(queue[f]) : queue'[f][k] = queue[f][k]
      /\ \A k \in 1..Len(requested[f]) : requested'[f][k] = requested[f][k]
      /\ queue'[f][Len(queue[f]) + 1] = m
      /\ requested'[f][Len(requested[f]) + 1] = m
  BY <1>1
<1>3. /\ Running(f)' = Running(f) /\ Taken(f)' = Taken(f)
      /\ Taken(f) \in Nat /\ Len(requested[f]) = Taken(f) + Len(queue[f])
  BY <1>1, <1>2, TakenFacts DEF Running, Taken
<1>4. Distinct(requested'[f])
  BY <1>1, DistinctAppend DEF Queued, InOrder
<1>5. ASSUME NEW k \in 1..Len(queue'[f])
      PROVE  queue'[f][k] = requested'[f][Taken(f) + k]
  <2>1. CASE k \in 1..Len(queue[f])
    <3>1. Taken(f) + k \in 1..Len(requested[f])
      BY <1>2, <1>3, <2>1
    <3>2. QED
      BY <1>2, <2>1, <3>1 DEF Queued, InOrder
  <2>2. CASE k = Len(queue[f]) + 1
    <3>1. Taken(f) + k = Len(requested[f]) + 1
      BY <1>2, <1>3, <2>2
    <3>2. QED
      BY <1>2, <2>2, <3>1
  <2>3. QED
    BY <1>2, <2>1, <2>2
<1>6. ASSUME NEW j \in 1..Taken(f)
      PROVE  requested'[f][j] \in Running(f) \cup Range(sent[f])
  <2>1. j \in 1..Len(requested[f])
    BY <1>2, <1>3
  <2>2. QED
    BY <1>2, <2>1 DEF Queued, InOrder
<1>7. InOrder(f)'
  BY <1>1, <1>3, <1>4, <1>5, <1>6 DEF InOrder
<1>8. QED
  BY <1>3, <1>7 DEF Queued, ThreadsBusy

LEMMA TakeOrder ==
    ASSUME TypeOK, NEW f \in Ends, Queued(f), TakeTask(f)
    PROVE  Queued(f)'
<1>1. /\ queue[f] \in Seq(Msg) /\ requested[f] \in Seq(Msg) /\ queue[f] # <<>>
      /\ queue'[f] = Tail(queue[f])
      /\ ready'[f] = ready[f] \cup {Head(queue[f])}
      /\ asleep'[f] = asleep[f] /\ requested'[f] = requested[f] /\ sent'[f] = sent[f]
      /\ Cardinality(Running(f)) < WorkThreads
  BY DEF TakeTask, TypeOK, PoolTypeOK, HistoryTypeOK, history, FreeThread, Running
<1>2. /\ Len(queue[f]) \in Nat \ {0} /\ Len(requested[f]) \in Nat
      /\ Head(queue[f]) = queue[f][1]
      /\ Len(queue'[f]) = Len(queue[f]) - 1
      /\ \A k \in 1..(Len(queue[f]) - 1) : queue'[f][k] = queue[f][k + 1]
  BY <1>1, HeadTailProperties, LenProperties, EmptySeq
<1>3. Running(f)' = Running(f) \cup {Head(queue[f])}
  BY <1>1 DEF Running
<1>4. PICK n \in Nat :
        /\ n = Taken(f) /\ Len(requested[f]) = n + Len(queue[f])
        /\ Len(requested'[f]) - Len(queue'[f]) = n + 1
  <2>1. Taken(f) \in Nat /\ Len(requested[f]) = Taken(f) + Len(queue[f])
    BY TakenFacts
  <2>2. QED
    BY <1>1, <1>2, <2>1
<1>5. ASSUME NEW k \in 1..Len(queue'[f])
      PROVE  queue'[f][k] = requested'[f][n + 1 + k]
  <2>1. k + 1 \in 1..Len(queue[f]) /\ n + (k + 1) = n + 1 + k
    BY <1>2
  <2>2. queue[f][k + 1] = requested[f][n + (k + 1)]
    BY <1>4, <2>1 DEF Queued, InOrder
  <2>3. QED
    BY <1>1, <1>2, <2>1, <2>2
<1>6. ASSUME NEW j \in 1..(n + 1)
      PROVE  requested'[f][j] \in Running(f)' \cup Range(sent'[f])
  <2>1. CASE j \in 1..n
    BY <1>1, <1>3, <1>4, <2>1 DEF Queued, InOrder
  <2>2. CASE j = n + 1
    <3>1. queue[f][1] = requested[f][n + 1]
      BY <1>2, <1>4 DEF Queued, InOrder
    <3>2. QED
      BY <1>1, <1>2, <1>3, <2>2, <3>1
  <2>3. QED
    BY <2>1, <2>2
<1>7. InOrder(f)'
  <2>1. Distinct(requested'[f])
    BY <1>1 DEF Queued, InOrder
  <2>2. Taken(f)' = n + 1
    BY <1>4 DEF Taken
  <2>3. \A k \in 1..Len(queue'[f]) : queue'[f][k] = requested'[f][Taken(f)' + k]
    BY <1>5, <2>2
  <2>4. \A j \in 1..Taken(f)' : requested'[f][j] \in Running(f)' \cup Range(sent'[f])
    BY <1>6, <2>2
  <2>5. QED
    BY <2>1, <2>2, <2>3, <2>4 DEF InOrder
<1>8. ThreadsBusy(f)'
  <2>1. IsFiniteSet(Running(f)) /\ Cardinality(Running(f)) \in Nat
    BY FS_CardinalityType DEF Queued, ThreadsBusy
  <2> DEFINE R == Running(f) \cup {Head(queue[f])}
  <2>2. IsFiniteSet(R) /\ Cardinality(R) <= Cardinality(Running(f)) + 1
    BY <2>1, FS_AddElement
  <2>3. Cardinality(R) \in Nat
    BY <2>2, FS_CardinalityType
  <2> HIDE DEF R
  <2>4. Cardinality(R) <= WorkThreads
    BY <1>1, <2>1, <2>2, <2>3, WorkThreadsAssumption
  <2>5. QED
    BY <1>3, <2>2, <2>4 DEF ThreadsBusy, R
<1>9. QED
  BY <1>7, <1>8 DEF Queued

LEMMA RunOrder ==
    ASSUME TypeOK, NEW f \in Ends, Queued(f), NEW m \in Msgs[f], RunTask(f, m)
    PROVE  Queued(f)'
<1>1. /\ sent[f] \in Seq(Msg) /\ m \in Msg
      /\ ready'[f] = ready[f] \ {m} /\ sent'[f] = Append(sent[f], m)
      /\ queue'[f] = queue[f] /\ asleep'[f] = asleep[f]
      /\ requested'[f] = requested[f]
  BY MsgFacts DEF RunTask, Write, TypeOK, PoolTypeOK, HistoryTypeOK
<1>2. Range(sent'[f]) = Range(sent[f]) \cup {m}
  BY <1>1, RangeOfAppend
<1>3. /\ Taken(f)' = Taken(f)
      /\ Running(f)' \in SUBSET Running(f) /\ Running(f) \subseteq Running(f)' \cup {m}
  BY <1>1 DEF Taken, Running
<1>4. InOrder(f)'
  BY <1>1, <1>2, <1>3 DEF InOrder, Queued
<1>5. ThreadsBusy(f)'
  <2>1. /\ IsFiniteSet(Running(f)) /\ Cardinality(Running(f)) <= WorkThreads
        /\ Cardinality(Running(f)) \in Nat
    BY FS_CardinalityType DEF Queued, ThreadsBusy
  <2>2. /\ IsFiniteSet(Running(f)') /\ Cardinality(Running(f)') <= Cardinality(Running(f))
        /\ Cardinality(Running(f)') \in Nat
    BY <1>3, <2>1, FS_Subset, FS_CardinalityType
  <2>3. QED
    BY <2>1, <2>2, WorkThreadsAssumption DEF ThreadsBusy
<1>6. QED
  BY <1>4, <1>5 DEF Queued

LEMMA MoveOrder ==
    ASSUME TypeOK, NEW f \in Ends, TasksApart(f), Queued(f),
           \/ \E m \in Msgs[f] : WaitTask(f, m) \/ SpuriousWakeup(f, m)
           \/ ReleaseLocal(f) \/ ReleaseRemote(f)
    PROVE  Queued(f)'
<1>1. queue'[f] = queue[f] /\ requested'[f] = requested[f] /\ sent'[f] = sent[f]
  BY DEF WaitTask, SpuriousWakeup, ReleaseLocal, ReleaseRemote, history
<1>2. Running(f) = Tasks(f) \ Range(queue[f]) /\ Running(f)' = Tasks(f)' \ Range(queue'[f])
  BY MoveTasks DEF Running, Tasks, TasksApart
<1>3. Running(f)' = Running(f)
  BY <1>1, <1>2, MoveTasks
<1>4. QED
  BY <1>1, <1>3 DEF Queued, InOrder, ThreadsBusy, Taken

LEMMA OtherOrder ==
    ASSUME NEW f \in Ends, Queued(f),
           queue'[f] = queue[f], ready'[f] = ready[f], asleep'[f] = asleep[f],
           requested'[f] = requested[f], sent'[f] = sent[f]
    PROVE  Queued(f)'
  BY DEF Queued, InOrder, ThreadsBusy, Taken, Running

\* An action of one end sends nothing at the other.
LEMMA PeerSent ==
    ASSUME TypeOK, NEW f \in Ends, NEW e \in Ends, e # f,
           \/ \E m \in Msgs[e] : \/ TaskWithLock(e, m) \/ RunTask(e, m)
                                 \/ WaitTask(e, m) \/ SpuriousWakeup(e, m)
           \/ TakeTask(e) \/ ReleaseLocal(e) \/ ReleaseRemote(e)
    PROVE  sent'[f] = sent[f]
  BY DEF TaskWithLock, RunTask, WaitTask, SpuriousWakeup, TakeTask, ReleaseLocal,
         ReleaseRemote, history, TypeOK, HistoryTypeOK

LEMMA OrderStep ==
    ASSUME RInv, [Next]_vars, \A e \in Ends : Queued(e)
    PROVE  \A e \in Ends : Queued(e)'
<1> SUFFICES ASSUME NEW f \in Ends PROVE Queued(f)'
  OBVIOUS
<1> DEFINE Same == /\ queue'[f] = queue[f] /\ ready'[f] = ready[f]
                   /\ asleep'[f] = asleep[f] /\ requested'[f] = requested[f]
                   /\ sent'[f] = sent[f]
<1>1. TypeOK /\ TasksApart(f) /\ Queued(f)
  BY DEF RInv, IInv
<1>2. CASE \E m \in Msgs[f] : \/ TaskWithLock(f, m) \/ RunTask(f, m)
                              \/ WaitTask(f, m) \/ SpuriousWakeup(f, m)
  BY <1>1, <1>2, RequestOrder, RunOrder, MoveOrder
<1>3. CASE TakeTask(f) \/ ReleaseLocal(f) \/ ReleaseRemote(f)
  BY <1>1, <1>3, TakeOrder, MoveOrder
<1>4. ASSUME NEW e \in Ends, e # f,
             \/ \E m \in Msgs[e] : \/ TaskWithLock(e, m) \/ RunTask(e, m)
                                   \/ WaitTask(e, m) \/ SpuriousWakeup(e, m)
             \/ TakeTask(e) \/ ReleaseLocal(e) \/ ReleaseRemote(e)
      PROVE  Same
  BY <1>1, <1>4, PeerTasks, PeerSent
<1>5. ASSUME NEW e \in Ends, Untasked(e)
      PROVE  Same
  <2>1. UNCHANGED <<pool, requested, sent>>
    BY <1>5, UntaskedTasks
  <2>2. QED
    BY <2>1 DEF pool
<1>6. ASSUME Same PROVE Queued(f)'
  BY <1>1, <1>6, OtherOrder
<1>7. CASE UNCHANGED vars
  BY <1>6, <1>7 DEF vars, pool, history
<1>8. QED
  BY <1>2, <1>3, <1>4, <1>5, <1>6, <1>7 DEF Next, Untasked

\* Only RunTask sends.
LEMMA SentByRun ==
    ASSUME TypeOK, [Next]_vars, NEW e \in Ends, NEW m \in Range(sent'[e]) \ Range(sent[e])
    PROVE  m \in ready[e]
<1>1. sent'[e] # sent[e]
  OBVIOUS
<1>2. ASSUME NEW f \in Ends, NEW p \in Msgs[f], RunTask(f, p)
      PROVE  m \in ready[e]
  <2>1. f = e
    BY <1>1, <1>2, PeerSent
  <2>2. /\ sent[e] \in Seq(Msg) /\ p \in Msg
        /\ sent'[e] = Append(sent[e], p) /\ p \in ready[e]
    BY <1>2, <2>1, MsgFacts DEF RunTask, Write, TypeOK, HistoryTypeOK
  <2>3. QED
    BY <2>2, RangeOfAppend
<1>3. ASSUME NEW f \in Ends, NEW p \in Msgs[f],
             TaskWithLock(f, p) \/ WaitTask(f, p) \/ SpuriousWakeup(f, p)
      PROVE  FALSE
  BY <1>1, <1>3 DEF TaskWithLock, WaitTask, SpuriousWakeup, history
<1>4. ASSUME NEW f \in Ends, TakeTask(f) \/ ReleaseLocal(f) \/ ReleaseRemote(f)
      PROVE  FALSE
  BY <1>1, <1>4 DEF TakeTask, ReleaseLocal, ReleaseRemote, history
<1>5. ASSUME NEW f \in Ends, Untasked(f) PROVE FALSE
  BY <1>1, <1>5, UntaskedTasks
<1>6. vars' # vars
  BY <1>1 DEF vars, history
<1>7. PICK f \in Ends : \/ \E p \in Msgs[f] : \/ TaskWithLock(f, p) \/ RunTask(f, p)
                                              \/ WaitTask(f, p) \/ SpuriousWakeup(f, p)
                        \/ TakeTask(f) \/ ReleaseLocal(f) \/ ReleaseRemote(f)
                        \/ Untasked(f)
  BY <1>6 DEF Next, Untasked
<1>8. QED
  BY <1>2, <1>3, <1>4, <1>5, <1>7

\* What was requested before a message that a thread runs and is not sent yet has
\* a thread of its own.
LEMMA OvertakenRun ==
    ASSUME TypeOK, NEW e \in Ends, TasksApart(e), Queued(e),
           NEW i \in 1..Len(requested[e]), requested[e][i] \in ready[e]
    PROVE  Cardinality({j \in 1..(i - 1) : requested[e][j] \notin Range(sent[e])})
             < WorkThreads
<1> DEFINE m == requested[e][i]
           U == {j \in 1..(i - 1) : requested[e][j] \notin Range(sent[e])}
           R == Running(e) \ {m}
           F == [j \in U |-> requested[e][j]]
<1>1. /\ queue[e] \in Seq(Msg) /\ Taken(e) \in Nat /\ i \in Nat
      /\ Len(queue[e]) \in Nat /\ Len(requested[e]) = Taken(e) + Len(queue[e])
  BY TakenFacts DEF TypeOK, PoolTypeOK
<1>2. i <= Taken(e)
  <2> SUFFICES ASSUME i > Taken(e) PROVE FALSE
    BY <1>1
  <2>1. i - Taken(e) \in 1..Len(queue[e]) /\ Taken(e) + (i - Taken(e)) = i
    BY <1>1
  <2>2. queue[e][i - Taken(e)] = m
    BY <2>1 DEF Queued, InOrder
  <2>3. m \in Range(queue[e])
    BY <1>1, <2>1, <2>2 DEF Range
  <2>4. QED
    BY <2>3 DEF TasksApart
<1>3. ASSUME NEW j \in U PROVE requested[e][j] \in R
  <2>1. j \in 1..Taken(e) /\ j \in 1..Len(requested[e]) /\ j # i
    BY <1>1, <1>2
  <2>2. requested[e][j] \in Running(e)
    BY <2>1 DEF Queued, InOrder
  <2>3. requested[e][j] # m
    BY <2>1 DEF Queued, InOrder, Distinct
  <2>4. QED
    BY <2>2, <2>3
<1>4. F \in Injection(U, R)
  <2>1. F \in [U -> R]
    BY <1>3
  <2>2. ASSUME NEW j \in U, NEW k \in U, F[j] = F[k] PROVE j = k
    <3>1. j \in 1..Len(requested[e]) /\ k \in 1..Len(requested[e])
      BY <1>1
    <3>2. requested[e][j] = requested[e][k]
      BY <2>2
    <3>3. QED
      BY <3>1, <3>2 DEF Queued, InOrder, Distinct
  <2>3. QED
    BY <2>1, <2>2 DEF Injection, IsInjective
<1>5. /\ IsFiniteSet(Running(e)) /\ Cardinality(Running(e)) \in Nat
      /\ Cardinality(Running(e)) <= WorkThreads /\ m \in Running(e)
  BY FS_CardinalityType DEF Queued, ThreadsBusy, Running
<1>6. IsFiniteSet(R) /\ Cardinality(R) = Cardinality(Running(e)) - 1
  BY <1>5, FS_RemoveElement
<1>7. Cardinality(U) \in Nat /\ Cardinality(U) <= Cardinality(R)
  BY <1>4, <1>6, FS_Injection, FS_CardinalityType
<1> HIDE DEF U, R
<1>8. Cardinality(U) < WorkThreads
  BY <1>5, <1>6, <1>7, WorkThreadsAssumption
<1>9. QED
  BY <1>8 DEF U

OrderInv == RInv /\ \A e \in Ends : Queued(e)

LEMMA OrderInit == ASSUME Init, NEW e \in Ends PROVE Queued(e)
<1>1. /\ queue[e] = <<>> /\ requested[e] = <<>>
      /\ ready[e] = {} /\ asleep[e] = {}
  BY DEF Init
<1>2. Running(e) = {} /\ Taken(e) = 0 /\ Len(queue[e]) = 0 /\ Len(requested[e]) = 0
  BY <1>1 DEF Running, Taken
<1>3. InOrder(e)
  BY <1>2 DEF InOrder, Distinct
<1>4. IsFiniteSet({}) /\ Cardinality({}) = 0
  BY FS_EmptySet
<1>5. QED
  BY <1>2, <1>3, <1>4, WorkThreadsAssumption DEF Queued, ThreadsBusy

LEMMA OrderInvariance == Spec => []OrderInv
<1>1. Init => \A e \in Ends : Queued(e)
  BY OrderInit
<1>2. ASSUME OrderInv, [Next]_vars PROVE OrderInv'
  <2>1. RInv'
    BY <1>2, InvStep, TasksStep DEF OrderInv, RInv, IInv
  <2>2. \A e \in Ends : Queued(e)'
    BY <1>2, OrderStep DEF OrderInv
  <2>3. QED
    BY <2>1, <2>2 DEF OrderInv
<1>3. Init => OrderInv
  <2>1. Init => \A e \in Ends : TasksApart(e)
    BY DEF Init, TasksApart, Range, Distinct
  <2>2. QED
    BY <1>1, <2>1, InvInit DEF OrderInv, RInv
<1>4. QED
  BY <1>2, <1>3, PTL DEF Spec

\* A message that is sent overtakes at most one message for every other thread of
\* the pool: the tasks of task_with_lock start in order, and only those that run
\* compete for the mutex (rdma_channel.cpp).
THEOREM OvertakingCorrect == Spec => BoundedOvertaking
<1>1. ASSUME OrderInv, [Next]_vars,
             NEW e \in Ends, NEW i \in DOMAIN requested[e],
             requested[e][i] \in Range(sent'[e]) \ Range(sent[e])
      PROVE  Cardinality({j \in 1..(i - 1) :
               requested[e][j] \notin Range(sent[e])}) < WorkThreads
  <2>1. TypeOK /\ TasksApart(e) /\ Queued(e)
    BY <1>1 DEF OrderInv, RInv, IInv
  <2>2. i \in 1..Len(requested[e])
    BY <2>1 DEF TypeOK, HistoryTypeOK
  <2>3. requested[e][i] \in ready[e]
    BY <1>1, <2>1, SentByRun
  <2>4. QED
    BY <2>1, <2>2, <2>3, OvertakenRun
<1>2. OrderInv /\ [Next]_vars =>
        [\A e \in Ends : \A i \in DOMAIN requested[e] :
           requested[e][i] \in Range(sent'[e]) \ Range(sent[e]) =>
             Cardinality({j \in 1..(i - 1) :
                            requested[e][j] \notin Range(sent[e])}) < WorkThreads]_vars
  BY <1>1
<1>3. QED
  BY <1>2, OrderInvariance, PTL DEF Spec, BoundedOvertaking
=============================================================================
