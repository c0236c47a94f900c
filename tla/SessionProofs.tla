--------------------------- MODULE SessionProofs ---------------------------
(***************************************************************************)
(* Theorems about Session: its types, and that only what was sent is read  *)
(* and only what was read is deleted, for any connections, applications    *)
(* and interleaving, with closes, spurious wakeups and lossy destructors.  *)
(*                                                                         *)
(* They need that no two buffers have the same address: MCSession has an   *)
(* instance where two do and OwnBuffer fails.                              *)
(***************************************************************************)
EXTENDS Session, SequenceTheorems, TLAPS

-----------------------------------------------------------------------------
(* map_table_ *)

\* At the reader a buffer leads to its address, at the sender back to the buffer.
GoodTable(t) == \A key \in DOMAIN t :
    \/ key \in Buffers /\ t[key] = Addr[key]
    \/ key \in Range(Addr) /\ t[key] \in Buffers /\ Addr[t[key]] = key

LEMMA InsertGood ==
    ASSUME NEW t, GoodTable(t), NEW b \in Buffers
    PROVE  /\ GoodTable(InsertToTable(t, b, Addr[b]))
           /\ GoodTable(InsertToTable(t, Addr[b], b))
<1>1. Addr[b] \in Range(Addr)  BY AddrAssumption
<1> QED  BY <1>1 DEF GoodTable, InsertToTable

LEMMA EraseGood ==
    ASSUME NEW t, GoodTable(t), NEW key
    PROVE  GoodTable(Erase(t, key))
BY DEF GoodTable, Erase, Restrict

LEMMA FindGood ==
    ASSUME AddressesDiffer, NEW t, GoodTable(t), NEW b \in Buffers
    PROVE  /\ FindInTable(t, b) \in {None, Addr[b]}
           /\ FindInTable(t, Addr[b]) \in {None, b}
           /\ FindInTable(t, None) = None
<1>1. Addr[b] \in Range(Addr)  BY AddrAssumption
<1> QED  BY <1>1, NoneAssumption DEF GoodTable, FindInTable, AddressesDiffer

-----------------------------------------------------------------------------
(* Sequences that hold less hold more. *)

LEMMA SeqMono ==
    ASSUME NEW S, NEW T, S \subseteq T
    PROVE  Seq(S) \subseteq Seq(T)
BY SeqDef

LEMMA SeqWithout ==
    ASSUME NEW S, NEW s \in Seq(S), NEW i \in 1..Len(s)
    PROVE  Without(s, i) \in Seq(S)
<1>1. SubSeq(s, 1, i - 1) \in Seq(S) /\ SubSeq(s, i + 1, Len(s)) \in Seq(S)
  BY LenProperties
<1> QED  BY <1>1, ConcatProperties DEF Without

\* The messages about buffers that were sent, of those the peer has read.
Msgs(S, R) ==
    {Message(type) : type \in {"ACK", "CLOSE", "CLOSE_ACK", "CLOSE_TERMINATE", "SYNC_ACK"}}
    \cup [type : {"SYNC_REQUEST"}, size : Nat]
    \cup [type : {"READ_REQUEST"}, buf : S]
    \cup [type : {"READ_OVER"}, addr : {Addr[b] : b \in R} \cup {None}, buf : R]

LEMMA MsgsMono ==
    ASSUME NEW S, NEW T, NEW R, NEW Q, S \subseteq T, R \subseteq Q
    PROVE  Msgs(S, R) \subseteq Msgs(T, Q)
BY DEF Msgs

LEMMA MsgsAreMessages ==
    ASSUME NEW S, NEW R, S \subseteq Buffers, R \subseteq Buffers
    PROVE  Msgs(S, R) \subseteq Messages
<1>1. {Addr[b] : b \in R} \subseteq Range(Addr)  BY AddrAssumption
<1> QED  BY <1>1 DEF Msgs, Messages

-----------------------------------------------------------------------------
(* The calls of the applications. *)

\* Where the applications are; a thread that waits is in wait_for_sync.
Calling ==
    /\ setup \in Setups
    /\ pc \in [Sessions -> Nat]
    /\ waiting \in [Sessions -> BOOLEAN]
    /\ \A s \in Sessions : pc[s] <= Len(Program[s])
    /\ \A s \in Sessions : waiting[s] => ~Returned(s) /\ Call(s).op = "wait_for_sync"

LEMMA ProgramType ==
    ASSUME Calling, NEW s \in Sessions
    PROVE  /\ Program[s] \in Seq(Calls) /\ Len(Program[s]) \in Nat
           /\ \A i \in 1..Len(Program[s]) : Program[s][i] \in Calls
<1>1. Program[s] \in Seq(Calls)  BY SetupsAssumption DEF Calling, Program
<1> QED  BY <1>1, LenProperties, ElementOfSeq

LEMMA CallType ==
    ASSUME Calling, NEW s \in Sessions, ~Returned(s)
    PROVE  /\ Call(s) \in Calls
           /\ Call(s).op = "send_data" => Call(s).buf \in Buffers /\ Call(s).end \in Ends
           /\ Call(s).op = "set_sync_barrier" => Call(s).size \in Nat /\ Call(s).end \in Ends
           /\ Call(s).op = "close" => Call(s).end \in Ends
<1>1. pc[s] + 1 \in 1..Len(Program[s])
  BY ProgramType DEF Calling, Returned
<1>2. Call(s) \in Calls  BY <1>1, ProgramType DEF Call
<1> QED  BY <1>2 DEF Calls

LEMMA SentType == Calling => Sent \subseteq Buffers
<1> SUFFICES ASSUME Calling, NEW s \in Sessions, NEW i \in 1..Len(Program[s]),
                    Program[s][i].op = "send_data"
             PROVE  Program[s][i].buf \in Buffers
  BY DEF Sent, Made
<1> QED  BY ProgramType DEF Calls

\* A call that returns is a step of its application only.
LEMMA ReturnSent ==
    ASSUME Calling, NEW s \in Sessions, ~Returned(s), Return(s), UNCHANGED setup
    PROVE  Sent' = Sent \cup (IF Call(s).op = "send_data" THEN {Call(s).buf} ELSE {})
<1>1. /\ Program' = Program
      /\ pc' = [pc EXCEPT ![s] = pc[s] + 1]
      /\ pc[s] + 1 \in 1..Len(Program[s])
  BY ProgramType DEF Program, Return, Calling, Returned
<1>2. \A r \in Sessions : r # s => Made(r)' = Made(r)
  BY <1>1 DEF Made, Calling
<1>3. Made(s)' = Made(s) \cup {pc[s] + 1}
  BY <1>1 DEF Made, Calling
<1>4. Call(s) = Program[s][pc[s] + 1]  BY DEF Call
<1> HIDE DEF Made, Program
<1> QED  BY <1>1, <1>2, <1>3, <1>4 DEF Sent

LEMMA QuietSent == UNCHANGED <<setup, pc>> => UNCHANGED Sent
BY DEF Sent, Made, Program

-----------------------------------------------------------------------------
(* The inductive invariant. *)

\* The flags of the threads and the counters.
Control ==
    /\ sync_flag \in [Sessions -> BOOLEAN]
    /\ status \in [Sessions -> {"WORK", "CLOSING", "CLOSED"}]
    /\ terminating \in [Sessions -> Ends \cup {None}]
    /\ stopped \in [Sessions -> BOOLEAN]
    /\ locked \in [Ends -> BOOLEAN]
    /\ total \in [Ends -> Nat]
    /\ target \in [Ends -> Nat]
    /\ destroyed \subseteq Ends

\* Every entry of every table is a good one.
Tables ==
    /\ map_table = [e \in Ends |-> map_table[e]]
    /\ \A e \in Ends : GoodTable(map_table[e])

\* What is under way concerns the buffers S that were sent; the READs that are
\* done, and the READ_OVERs, concern the buffers R that were read.
Flow(S, R) ==
    /\ tasks \in [Ends -> Seq(Msgs(S, R))]
    /\ net \in [Ends -> Seq(Msgs(S, R))]
    /\ fetches \in [Ends -> SUBSET S]
    /\ reads \in [Ends -> Seq(S)]
    /\ read_cqes \in [Ends -> Seq(R)]

\* What is sent, read and deleted, in that order.
Stages == deleted \subseteq received /\ received \subseteq Sent

IInv == Calling /\ Control /\ Tables /\ Flow(Sent, received) /\ Stages

\* Flow after a step.
NextFlow(S, R) ==
    /\ tasks' \in [Ends -> Seq(Msgs(S, R))]
    /\ net' \in [Ends -> Seq(Msgs(S, R))]
    /\ fetches' \in [Ends -> SUBSET S]
    /\ reads' \in [Ends -> Seq(S)]
    /\ read_cqes' \in [Ends -> Seq(R)]

LEMMA FlowGrows ==
    ASSUME NEW S, NEW T, NEW R, NEW Q, S \subseteq T, R \subseteq Q, Flow(S, R)
    PROVE  Flow(T, Q)
<1>1. Seq(Msgs(S, R)) \subseteq Seq(Msgs(T, Q))  BY MsgsMono, SeqMono
<1>2. Seq(S) \subseteq Seq(T) /\ Seq(R) \subseteq Seq(Q)  BY SeqMono
<1> QED  BY <1>1, <1>2 DEF Flow

LEMMA EndFacts ==
    ASSUME NEW e \in Ends
    PROVE  Peer[e] \in Ends /\ Peer[e] # e /\ Peer[Peer[e]] = e /\ SessionOf[e] \in Sessions
BY PeerAssumption, SessionOfAssumption

\* A bare message is one about nothing.
LEMMA BareMessage ==
    ASSUME NEW S, NEW R,
           NEW type \in {"ACK", "CLOSE", "CLOSE_ACK", "CLOSE_TERMINATE", "SYNC_ACK"}
    PROVE  Message(type) \in Msgs(S, R)
BY DEF Msgs

-----------------------------------------------------------------------------
(* The calls. *)

LEMMA ReturnCalling ==
    ASSUME Calling, NEW s \in Sessions, ~Returned(s), Return(s), UNCHANGED setup,
           \/ ~waiting[s] /\ waiting' = waiting
           \/ waiting' = [waiting EXCEPT ![s] = FALSE]
    PROVE  Calling'
<1>1. /\ Program' = Program
      /\ pc' = [pc EXCEPT ![s] = pc[s] + 1]
      /\ pc[s] \in Nat /\ pc[s] + 1 <= Len(Program[s])
  BY ProgramType DEF Program, Return, Calling, Returned
<1>2. /\ setup' \in Setups
      /\ pc' \in [Sessions -> Nat]
      /\ waiting' \in [Sessions -> BOOLEAN]
      /\ ~waiting'[s]
  <2>1. waiting \in [Sessions -> BOOLEAN]  BY DEF Calling
  <2>2. waiting' \in [Sessions -> BOOLEAN] /\ ~waiting'[s]
    BY <2>1, Zenon
  <2>3. setup' \in Setups /\ pc' \in [Sessions -> Nat]
    BY <1>1 DEF Calling
  <2> QED  BY <2>2, <2>3
<1>3. \A r \in Sessions : pc'[r] <= Len(Program'[r])
  BY <1>1 DEF Calling
<1>4. ASSUME NEW r \in Sessions, waiting'[r]
      PROVE  Returned(r)' = Returned(r) /\ Call(r)' = Call(r) /\ waiting[r]
  BY <1>1, <1>2, <1>4 DEF Calling, Returned, Call
<1> QED  BY <1>2, <1>3, <1>4 DEF Calling

LEMMA QuietCalling == Calling /\ UNCHANGED <<setup, pc, waiting>> => Calling'
BY DEF Calling, Program, Returned, Call

\* The buffers each kind of step adds to those sent.
LEMMA CallingStep ==
    ASSUME Calling, [Next]_vars
    PROVE  /\ Calling'
           /\ \/ Sent' = Sent
              \/ \E s \in Sessions : SendData(s) /\ Sent' = Sent \cup {Call(s).buf}
<1>1. ASSUME NEW s \in Sessions, SetSyncBarrier(s) \/ Close(s)
      PROVE  Calling' /\ Sent' = Sent
  <2>1. /\ ~Returned(s) /\ Return(s) /\ UNCHANGED <<setup, waiting>> /\ ~waiting[s]
        /\ Call(s).op # "send_data"
    BY <1>1 DEF SetSyncBarrier, Close, Makes
  <2> QED  BY <2>1, ReturnCalling, ReturnSent
<1>2. ASSUME NEW s \in Sessions, SendData(s)
      PROVE  Calling' /\ Sent' = Sent \cup {Call(s).buf}
  <2>1. /\ ~Returned(s) /\ Return(s) /\ UNCHANGED <<setup, waiting>> /\ ~waiting[s]
        /\ Call(s).op = "send_data"
    BY <1>2 DEF SendData, Makes
  <2> QED  BY <2>1, ReturnCalling, ReturnSent
<1>3. ASSUME NEW s \in Sessions, waiting[s], Wake(s), UNCHANGED setup
      PROVE  Calling' /\ Sent' = Sent
  <2>1. /\ ~Returned(s) /\ Return(s) /\ waiting' = [waiting EXCEPT ![s] = FALSE]
        /\ Call(s).op # "send_data"
    BY <1>3 DEF Wake, Calling
  <2> QED  BY <1>3, <2>1, ReturnCalling, ReturnSent
<1>4. ASSUME NEW s \in Sessions, WaitForSync(s)
      PROVE  Calling' /\ Sent' = Sent
  <2>1. /\ ~Returned(s) /\ ~waiting[s] /\ Call(s).op = "wait_for_sync"
        /\ UNCHANGED setup
    BY <1>4 DEF WaitForSync, Makes
  <2>2. CASE Return(s) /\ UNCHANGED waiting
    BY <2>1, <2>2, ReturnCalling, ReturnSent
  <2>3. CASE waiting' = [waiting EXCEPT ![s] = TRUE] /\ UNCHANGED pc
    <3>1. Calling'
      BY <2>1, <2>3 DEF Calling, Program, Returned, Call
    <3> QED  BY <2>1, <2>3, <3>1, QuietSent
  <2> QED  BY <2>2, <2>3, <1>4 DEF WaitForSync
<1>5. ASSUME NEW e \in Ends, ProcessSyncAck(e)
      PROVE  Calling' /\ Sent' = Sent
  <2>1. CASE waiting[SessionOf[e]]
    BY <1>3, <1>5, <2>1, EndFacts DEF ProcessSyncAck
  <2>2. CASE ~waiting[SessionOf[e]]
    BY <1>5, <2>2, QuietCalling, QuietSent DEF ProcessSyncAck
  <2> QED  BY <2>1, <2>2
<1>6. ASSUME UNCHANGED <<setup, pc, waiting>>
      PROVE  Calling' /\ Sent' = Sent
  BY <1>6, QuietCalling, QuietSent
<1>7. ASSUME NEW s \in Sessions, SpuriousWakeup(s)
      PROVE  Calling' /\ Sent' = Sent
  BY <1>3, <1>7 DEF SpuriousWakeup
<1>8. ASSUME NEW s \in Sessions, Terminate(s) \/ StopProcess(s)
      PROVE  UNCHANGED <<setup, pc, waiting>>
  BY <1>8 DEF Terminate, StopProcess, app
<1>9. ASSUME NEW e \in Ends, Pool(e) \/ ExecuteRead(e) \/ BadCompletion(e) \/ DestroyEndpoint(e)
      PROVE  UNCHANGED <<setup, pc, waiting>>
  BY <1>9 DEF Pool, RunTask, ReadData, ExecuteRead, BadCompletion, DestroyEndpoint, app
<1>10. ASSUME NEW e \in Ends, Handlers(e), ~ProcessSyncAck(e)
       PROVE  UNCHANGED <<setup, pc, waiting>>
  BY <1>10 DEF Handlers, ProcessAck, ProcessSyncRequest, ProcessReadRequest,
      ProcessReadSuccess, ProcessReadOver, ProcessClose, ProcessCloseAck,
      ProcessCloseTerminate, app
<1>11. CASE UNCHANGED vars
  BY <1>6, <1>11 DEF vars, app
<1> QED  BY <1>1, <1>2, <1>4, <1>5, <1>6, <1>7, <1>8, <1>9, <1>10, <1>11
         DEF Next, Application

-----------------------------------------------------------------------------
(* The flags, the counters and the tables. *)

LEMMA ReceivedType ==
    ASSUME NEW S, NEW R, Flow(S, R), NEW e \in Ends, net[Peer[e]] # <<>>
    PROVE  /\ Received(e) \in Msgs(S, R)
           /\ Tail(net[Peer[e]]) \in Seq(Msgs(S, R))
BY EndFacts, HeadTailProperties DEF Flow, Received

\* What a message says, by its type.
LEMMA Said ==
    ASSUME NEW S, NEW R, NEW m \in Msgs(S, R)
    PROVE  /\ m.type = "SYNC_REQUEST" => m.size \in Nat
           /\ m.type = "READ_REQUEST" => m.buf \in S
           /\ m.type = "READ_OVER" =>
                m.buf \in R /\ (m.addr = None \/ \E b \in R : m.addr = Addr[b])
BY DEF Msgs, Message

LEMMA ControlStep ==
    ASSUME Calling, Control, NEW S, NEW R, S \subseteq Buffers, R \subseteq Buffers,
           Flow(S, R), [Next]_vars
    PROVE  Control'
<1>1. ASSUME NEW s \in Sessions, Application(s) \/ SpuriousWakeup(s)
      PROVE  Control'
  <2>1. UNCHANGED <<sess, locked, count, destroyed>>
    BY <1>1 DEF Application, SetSyncBarrier, SendData, WaitForSync, Close,
        SpuriousWakeup, gone, chan
  <2>2. sync_flag' \in [Sessions -> BOOLEAN]
    BY <1>1, Zenon DEF Application, SetSyncBarrier, SendData, WaitForSync, Close,
        SpuriousWakeup, Control
  <2> QED  BY <2>1, <2>2 DEF Control, sess, count
<1>2. ASSUME NEW s \in Sessions, Terminate(s) \/ StopProcess(s)
      PROVE  Control'
  <2>1. UNCHANGED <<sync_flag, locked, count, destroyed>>
    BY <1>2 DEF Terminate, StopProcess, app, chan, gone
  <2>2. stopped' \in [Sessions -> BOOLEAN]
    BY <1>2, Zenon DEF Terminate, StopProcess, Control
  <2>3. /\ status' \in [Sessions -> {"WORK", "CLOSING", "CLOSED"}]
        /\ terminating' \in [Sessions -> Ends \cup {None}]
    BY <1>2 DEF Terminate, StopProcess, SetStatus, Control
  <2> QED  BY <2>1, <2>2, <2>3 DEF Control, count
<1>3. ASSUME NEW e \in Ends, Pool(e) \/ ExecuteRead(e) \/ DestroyEndpoint(e)
      PROVE  Control'
  <2>1. UNCHANGED <<sync_flag, sess, count>>
    BY <1>3 DEF Pool, RunTask, ReadData, ExecuteRead, DestroyEndpoint, app
  <2>2. locked' \in [Ends -> BOOLEAN]
    BY <1>3, Zenon DEF Pool, RunTask, ReadData, ExecuteRead, DestroyEndpoint, chan, Control
  <2>3. destroyed' \subseteq Ends
    BY <1>3 DEF Pool, RunTask, ReadData, ExecuteRead, DestroyEndpoint, gone, Control
  <2> QED  BY <2>1, <2>2, <2>3 DEF Control, sess, count
<1>4. ASSUME NEW e \in Ends, BadCompletion(e)
      PROVE  Control'
  <2>1. UNCHANGED <<sync_flag, status, terminating, locked, count, destroyed>>
    BY <1>4 DEF BadCompletion, app, chan, gone
  <2>2. stopped' \in [Sessions -> BOOLEAN]
    BY <1>4, Zenon DEF BadCompletion, Control
  <2> QED  BY <2>1, <2>2 DEF Control, count
<1>5. ASSUME NEW e \in Ends, Handlers(e)
      PROVE  Control'
  <2>1. UNCHANGED <<stopped, destroyed>>
    BY <1>5 DEF Handlers, ProcessAck, ProcessSyncRequest, ProcessReadRequest,
        ProcessReadSuccess, ProcessReadOver, ProcessClose, ProcessCloseAck,
        ProcessCloseTerminate, ProcessSyncAck, sess, gone
  <2>2. sync_flag' \in [Sessions -> BOOLEAN]
    BY <1>5, Zenon DEF Handlers, ProcessAck, ProcessSyncRequest, ProcessReadRequest,
        ProcessReadSuccess, ProcessReadOver, ProcessClose, ProcessCloseAck,
        ProcessCloseTerminate, ProcessSyncAck, app, Control
  <2>3. locked' \in [Ends -> BOOLEAN]
    BY <1>5, Zenon DEF Handlers, ProcessAck, ProcessSyncRequest, ProcessReadRequest,
        ProcessReadSuccess, ProcessReadOver, ProcessClose, ProcessCloseAck,
        ProcessCloseTerminate, ProcessSyncAck, Control
  <2>4. status' \in [Sessions -> {"WORK", "CLOSING", "CLOSED"}]
    BY <1>5 DEF Handlers, ProcessAck, ProcessSyncRequest, ProcessReadRequest,
        ProcessReadSuccess, ProcessReadOver, ProcessClose, ProcessCloseAck,
        ProcessCloseTerminate, ProcessSyncAck, sess, SetStatus, Control
  <2>5. terminating' \in [Sessions -> Ends \cup {None}]
    BY <1>5 DEF Handlers, ProcessAck, ProcessSyncRequest, ProcessReadRequest,
        ProcessReadSuccess, ProcessReadOver, ProcessClose, ProcessCloseAck,
        ProcessCloseTerminate, ProcessSyncAck, sess, Control
  <2>6. total' \in [Ends -> Nat] /\ target' \in [Ends -> Nat]
    <3>1. CASE ProcessSyncRequest(e)
      <4>1. Dropped(e) \/ Received(e).size \in Nat
        BY <3>1, ReceivedType, Said DEF ProcessSyncRequest, Receives, Received
      <4> QED  BY <3>1, <4>1 DEF ProcessSyncRequest, count, Control
    <3>2. CASE ProcessReadSuccess(e)
      <4>1. Size[Head(read_cqes[e])] \in Nat
        BY <3>2, HeadTailProperties, SizeAssumption DEF ProcessReadSuccess, Flow
      <4> QED  BY <3>2, <4>1 DEF ProcessReadSuccess, Control
    <3>3. CASE ~ProcessSyncRequest(e) /\ ~ProcessReadSuccess(e)
      BY <1>5, <3>3 DEF Handlers, ProcessAck, ProcessReadRequest, ProcessReadOver,
          ProcessClose, ProcessCloseAck, ProcessCloseTerminate, ProcessSyncAck,
          count, Control
    <3> QED  BY <3>1, <3>2, <3>3
  <2> QED  BY <2>1, <2>2, <2>3, <2>4, <2>5, <2>6 DEF Control
<1>6. CASE UNCHANGED vars
  BY <1>6 DEF vars, app, sess, chan, count, gone, Control
<1> QED  BY <1>1, <1>2, <1>3, <1>4, <1>5, <1>6 DEF Next

LEMMA TablesStep ==
    ASSUME Tables, NEW S, NEW R, S \subseteq Buffers, R \subseteq Buffers,
           Flow(S, R), [Next]_vars
    PROVE  Tables'
<1>1. ASSUME NEW e \in Ends, NEW t, GoodTable(t), map_table' = [map_table EXCEPT ![e] = t]
      PROVE  Tables'
  BY <1>1 DEF Tables
<1>2. ASSUME UNCHANGED map_table
      PROVE  Tables'
  BY <1>2 DEF Tables
<1>3. ASSUME NEW e \in Ends
      PROVE  GoodTable(map_table[e])
  BY DEF Tables
<1>4. ASSUME NEW e \in Ends, NEW i \in 1..Len(tasks[e]), RunTask(e, i)
      PROVE  Tables'
  <2>1. tasks[e][i] \in Msgs(S, R)
    BY <1>4, ElementOfSeq DEF Flow
  <2>2. CASE tasks[e][i].type = "READ_REQUEST"
    <3>1. tasks[e][i].buf \in Buffers
      BY <2>1, <2>2, Said
    <3> QED  BY <1>1, <1>3, <1>4, <2>2, <3>1, InsertGood DEF RunTask
  <2> QED  BY <1>2, <1>4, <2>2 DEF RunTask
<1>5. ASSUME NEW e \in Ends, NEW b \in fetches[e], ReadData(e, b)
      PROVE  Tables'
  <2>1. b \in Buffers  BY <1>5 DEF Flow
  <2> QED  BY <1>1, <1>3, <1>5, <2>1, InsertGood DEF ReadData
<1>6. ASSUME NEW e \in Ends, ProcessReadSuccess(e) \/ ProcessReadOver(e)
      PROVE  Tables'
  BY <1>1, <1>3, <1>6, EraseGood DEF ProcessReadSuccess, ProcessReadOver
<1>7. ASSUME NEW e \in Ends, Handlers(e), ~ProcessReadSuccess(e), ~ProcessReadOver(e)
      PROVE  UNCHANGED map_table
  BY <1>7 DEF Handlers, ProcessAck, ProcessSyncRequest, ProcessReadRequest,
      ProcessClose, ProcessCloseAck, ProcessCloseTerminate, ProcessSyncAck
<1>8. ASSUME NEW e \in Ends, ExecuteRead(e) \/ BadCompletion(e) \/ DestroyEndpoint(e)
      PROVE  UNCHANGED map_table
  BY <1>8 DEF ExecuteRead, BadCompletion, DestroyEndpoint
<1>9. ASSUME NEW s \in Sessions,
             Application(s) \/ SpuriousWakeup(s) \/ Terminate(s) \/ StopProcess(s)
      PROVE  UNCHANGED map_table
  BY <1>9 DEF Application, SetSyncBarrier, SendData, WaitForSync, Close,
      SpuriousWakeup, Terminate, StopProcess
<1>10. CASE UNCHANGED vars
  BY <1>2, <1>10 DEF vars
<1> QED  BY <1>2, <1>4, <1>5, <1>6, <1>7, <1>8, <1>9, <1>10 DEF Next, Pool

-----------------------------------------------------------------------------
(* What is under way. *)

LEMMA AddTaskFlow ==
    ASSUME NEW S, NEW R, Flow(S, R), NEW e \in Ends, NEW m \in Msgs(S, R), AddTask(e, m)
    PROVE  tasks' \in [Ends -> Seq(Msgs(S, R))]
BY AppendProperties DEF Flow, AddTask

LEMMA PostFlow ==
    ASSUME NEW S, NEW R, Flow(S, R), NEW e \in Ends, NEW m \in Msgs(S, R),
           net' = [net EXCEPT ![e] = Append(@, m)]
    PROVE  net' \in [Ends -> Seq(Msgs(S, R))]
BY AppendProperties DEF Flow

LEMMA AnswerFlow ==
    ASSUME NEW S, NEW R, Flow(S, R), NEW e \in Ends, net[Peer[e]] # <<>>,
           NEW answers \in Seq(Msgs(S, R)), Answer(e, answers)
    PROVE  net' \in [Ends -> Seq(Msgs(S, R))]
<1>1. Tail(net[Peer[e]]) \in Seq(Msgs(S, R))  BY ReceivedType
<1>2. net[e] \o answers \in Seq(Msgs(S, R))  BY ConcatProperties DEF Flow
<1> QED  BY <1>1, <1>2, EndFacts DEF Flow, Answer

\* The application and the pools: S holds what is sent after the step.
LEMMA ApplicationFlow ==
    ASSUME Calling, NEW S, NEW R, Flow(S, R), NEW s \in Sessions,
           Application(s) \/ SpuriousWakeup(s), SendData(s) => Call(s).buf \in S
    PROVE  NextFlow(S, R)
<1>1. UNCHANGED pull
  BY DEF Application, SetSyncBarrier, SendData, WaitForSync, Close, SpuriousWakeup
<1>2. CASE SetSyncBarrier(s)
  <2>1. Call(s).end \in Ends /\ Call(s).size \in Nat
    BY <1>2, CallType DEF SetSyncBarrier, Makes
  <2>2. [type |-> "SYNC_REQUEST", size |-> Call(s).size] \in Msgs(S, R)
    BY <2>1 DEF Msgs
  <2>3. tasks' \in [Ends -> Seq(Msgs(S, R))]
    BY <1>2, <2>1, <2>2, AddTaskFlow DEF SetSyncBarrier
  <2> QED  BY <1>1, <1>2, <2>3 DEF SetSyncBarrier, Flow, NextFlow, pull
<1>3. CASE SendData(s)
  <2>1. Call(s).end \in Ends
    BY <1>3, CallType DEF SendData, Makes
  <2>2. [type |-> "READ_REQUEST", buf |-> Call(s).buf] \in Msgs(S, R)
    BY <1>3 DEF Msgs
  <2>3. tasks' \in [Ends -> Seq(Msgs(S, R))]
    BY <1>3, <2>1, <2>2, AddTaskFlow DEF SendData
  <2> QED  BY <1>1, <1>3, <2>3 DEF SendData, Flow, NextFlow, pull
<1>4. CASE Close(s)
  <2>1. Call(s).end \in Ends
    BY <1>4, CallType DEF Close, Makes
  <2>2. net' \in [Ends -> Seq(Msgs(S, R))]
    BY <1>4, <2>1, BareMessage, PostFlow DEF Close
  <2> QED  BY <1>1, <1>4, <2>2 DEF Close, Flow, NextFlow, pull
<1>5. CASE WaitForSync(s) \/ SpuriousWakeup(s)
  BY <1>1, <1>5 DEF WaitForSync, SpuriousWakeup, Flow, NextFlow, pull, chan
<1> QED  BY <1>2, <1>3, <1>4, <1>5 DEF Application

LEMMA PoolFlow ==
    ASSUME NEW S, NEW R, Flow(S, R), NEW e \in Ends, Pool(e)
    PROVE  NextFlow(S, R)
<1>1. ASSUME NEW i \in 1..Len(tasks[e]), RunTask(e, i)
      PROVE  NextFlow(S, R)
  <2>1. tasks[e] \in Seq(Msgs(S, R))  BY DEF Flow
  <2>2. /\ tasks[e][i] \in Msgs(S, R)
        /\ Without(tasks[e], i) \in Seq(Msgs(S, R))
    BY <2>1, ElementOfSeq, SeqWithout
  <2>3. net' \in [Ends -> Seq(Msgs(S, R))]
    BY <1>1, <2>2, PostFlow DEF RunTask
  <2>4. tasks' \in [Ends -> Seq(Msgs(S, R))]
    BY <1>1, <2>2 DEF RunTask, Flow
  <2> QED  BY <1>1, <2>3, <2>4 DEF RunTask, pull, Flow, NextFlow
<1>2. ASSUME NEW b \in fetches[e], ReadData(e, b)
      PROVE  NextFlow(S, R)
  <2>1. b \in S  BY <1>2 DEF Flow
  <2>2. reads' \in [Ends -> Seq(S)]
    BY <1>2, <2>1, AppendProperties DEF ReadData, Flow
  <2>3. fetches' \in [Ends -> SUBSET S]
    BY <1>2 DEF ReadData, Flow
  <2> QED  BY <1>2, <2>2, <2>3 DEF ReadData, chan, Flow, NextFlow
<1> QED  BY <1>1, <1>2 DEF Pool

\* The queue pairs: R holds what is read after the step.
LEMMA QueuePairFlow ==
    ASSUME NEW S, NEW R, Flow(S, R), NEW e \in Ends,
           \/ ExecuteRead(e) /\ Head(reads[e]) \in R
           \/ BadCompletion(e)
           \/ DestroyEndpoint(e)
    PROVE  NextFlow(S, R)
<1>1. CASE ExecuteRead(e) /\ Head(reads[e]) \in R
  <2>1. reads' \in [Ends -> Seq(S)]
    BY <1>1, HeadTailProperties DEF ExecuteRead, Flow
  <2>2. read_cqes' \in [Ends -> Seq(R)]
    BY <1>1, AppendProperties DEF ExecuteRead, Flow
  <2> QED  BY <1>1, <2>1, <2>2 DEF ExecuteRead, chan, Flow, NextFlow
<1>2. CASE BadCompletion(e)
  BY <1>2 DEF BadCompletion, chan, pull, Flow, NextFlow
<1>3. CASE DestroyEndpoint(e)
  <2>1. PICK n \in 0..Len(net[e]) : net' = [net EXCEPT ![e] = SubSeq(net[e], 1, n)]
    BY <1>3 DEF DestroyEndpoint
  <2>2. net[e] \in Seq(Msgs(S, R)) /\ Len(net[e]) \in Nat
    BY DEF Flow
  <2>3. SubSeq(net[e], 1, n) \in Seq(Msgs(S, R))
    BY <2>2, SubSeqProperties
  <2>4. net' \in [Ends -> Seq(Msgs(S, R))]
    BY <2>1, <2>3 DEF Flow
  <2>5. reads' \in [Ends -> Seq(S)]
    BY <1>3 DEF DestroyEndpoint, Flow
  <2> QED  BY <1>3, <2>4, <2>5 DEF DestroyEndpoint, Flow, NextFlow
<1> QED  BY <1>1, <1>2, <1>3

LEMMA HandlersFlow ==
    ASSUME AddressesDiffer, NEW S, NEW R, S \subseteq Buffers, R \subseteq Buffers,
           Flow(S, R), Tables, NEW e \in Ends, Handlers(e)
    PROVE  NextFlow(S, R)
<1>1. <<>> \in Seq(Msgs(S, R)) /\ <<Message("ACK")>> \in Seq(Msgs(S, R))
      /\ <<Message("CLOSE_ACK")>> \in Seq(Msgs(S, R))
  BY BareMessage
<1>2. CASE ProcessReadSuccess(e)
  <2> DEFINE b == Head(read_cqes[e])
             over == [type |-> "READ_OVER", addr |-> FindInTable(map_table[e], b), buf |-> b]
  <2>1. b \in R /\ Tail(read_cqes[e]) \in Seq(R)
    BY <1>2, HeadTailProperties DEF ProcessReadSuccess, Flow
  <2>2. FindInTable(map_table[e], b) \in {None, Addr[b]}
    BY <2>1, FindGood DEF Tables
  <2>3. over \in Msgs(S, R)
    BY <2>1, <2>2 DEF Msgs
  <2>4. tasks' \in [Ends -> Seq(Msgs(S, R))]
    BY <1>2, <2>3, AddTaskFlow DEF ProcessReadSuccess
  <2>5. net' \in [Ends -> Seq(Msgs(S, R))]
    <3>1. CASE SyncTargetGet(e, b)
      BY <1>2, <3>1, BareMessage, PostFlow DEF ProcessReadSuccess
    <3>2. CASE ~SyncTargetGet(e, b)
      BY <1>2, <3>2 DEF ProcessReadSuccess, Flow
    <3> QED  BY <3>1, <3>2
  <2>6. read_cqes' \in [Ends -> Seq(R)]
    BY <1>2, <2>1 DEF ProcessReadSuccess, Flow
  <2> QED  BY <1>2, <2>4, <2>5, <2>6 DEF ProcessReadSuccess, Flow, NextFlow
<1>3. CASE ProcessReadRequest(e)
  <2>1. net[Peer[e]] # <<>> /\ UNCHANGED <<tasks, reads, read_cqes>>
    BY <1>3 DEF ProcessReadRequest, Receives
  <2>2. net' \in [Ends -> Seq(Msgs(S, R))]
    BY <1>1, <1>3, <2>1, AnswerFlow DEF ProcessReadRequest
  <2>3. Received(e).buf \in S
    BY <1>3, ReceivedType, Said DEF ProcessReadRequest, Receives, Received
  <2>4. fetches' \in [Ends -> SUBSET S]
    BY <1>3, <2>3 DEF ProcessReadRequest, Flow
  <2> QED  BY <2>1, <2>2, <2>4 DEF Flow, NextFlow
<1>4. CASE ~ProcessReadSuccess(e) /\ ~ProcessReadRequest(e)
  <2>1. UNCHANGED <<tasks, pull>>
    BY <1>4 DEF Handlers, ProcessAck, ProcessSyncRequest, ProcessReadOver,
        ProcessClose, ProcessCloseAck, ProcessCloseTerminate, ProcessSyncAck
  <2>2. net[Peer[e]] # <<>>
    BY <1>4 DEF Handlers, ProcessAck, ProcessSyncRequest, ProcessReadOver,
        ProcessClose, ProcessCloseAck, ProcessCloseTerminate, ProcessSyncAck, Receives
  <2>3. \/ Answer(e, <<>>)
        \/ Answer(e, <<Message("ACK")>>)
        \/ Answer(e, <<Message("CLOSE_ACK")>>)
    BY <1>4 DEF Handlers, ProcessAck, ProcessSyncRequest, ProcessReadOver,
        ProcessClose, ProcessCloseAck, ProcessCloseTerminate, ProcessSyncAck
  <2>4. net' \in [Ends -> Seq(Msgs(S, R))]
    BY <1>1, <2>2, <2>3, AnswerFlow
  <2> QED  BY <2>1, <2>4 DEF pull, Flow, NextFlow
<1> QED  BY <1>2, <1>3, <1>4

LEMMA TerminateFlow ==
    ASSUME Control, NEW S, NEW R, Flow(S, R), NEW s \in Sessions,
           Terminate(s) \/ StopProcess(s)
    PROVE  NextFlow(S, R)
<1>1. CASE Terminate(s)
  <2>1. terminating[s] \in Ends  BY <1>1 DEF Terminate, Control
  <2>2. net' \in [Ends -> Seq(Msgs(S, R))]
    BY <1>1, <2>1, BareMessage, PostFlow DEF Terminate
  <2> QED  BY <1>1, <2>2 DEF Terminate, pull, Flow, NextFlow
<1>2. CASE StopProcess(s)
  BY <1>2 DEF StopProcess, chan, pull, Flow, NextFlow
<1> QED  BY <1>1, <1>2

-----------------------------------------------------------------------------
(* What a step does to the buffers sent, read and deleted. *)

\* The only steps that do anything to them: a buffer more is sent, one is read
\* that was sent, or one is deleted that was read.
Reads(e) ==
    /\ ExecuteRead(e)
    /\ Head(reads[e]) \in Sent
    /\ received' = received \cup {Head(reads[e])}
    /\ UNCHANGED <<Sent, deleted>>
Deletes(b) ==
    /\ b \in received
    /\ deleted' = deleted \cup {b}
    /\ UNCHANGED <<Sent, received>>
Advances ==
    \/ UNCHANGED <<Sent, received, deleted>>
    \/ \E b \in Buffers : Sent' = Sent \cup {b} /\ UNCHANGED <<received, deleted>>
    \/ \E e \in Ends : Reads(e)
    \/ \E b \in Buffers : Deletes(b)

LEMMA SendDataAdvances ==
    ASSUME Calling, NEW s \in Sessions, SendData(s)
    PROVE  /\ Advances
           /\ Call(s).buf \in Buffers
           /\ Sent' = Sent \cup {Call(s).buf}
<1>1. /\ ~Returned(s) /\ Return(s) /\ UNCHANGED <<setup, received, deleted>>
      /\ Call(s).op = "send_data"
  BY DEF SendData, Makes, gone
<1>2. Sent' = Sent \cup {Call(s).buf} /\ Call(s).buf \in Buffers
  BY <1>1, ReturnSent, CallType
<1> QED  BY <1>1, <1>2 DEF Advances

LEMMA ExecuteReadAdvances ==
    ASSUME IInv, NEW e \in Ends, ExecuteRead(e)
    PROVE  Reads(e)
<1>1. Head(reads[e]) \in Sent
  BY HeadTailProperties DEF ExecuteRead, IInv, Flow
<1>2. UNCHANGED Sent
  BY QuietSent DEF ExecuteRead, app
<1> QED  BY <1>1, <1>2 DEF Reads, ExecuteRead, gone

\* The buffer deleted is one that was read, whichever the table leads to.
LEMMA ReadOverAdvances ==
    ASSUME AddressesDiffer, IInv, NEW e \in Ends, ProcessReadOver(e)
    PROVE  Advances
<1> DEFINE found == FindInTable(map_table[e], Received(e).addr)
<1>1. UNCHANGED <<Sent, received>>
  BY QuietSent DEF ProcessReadOver, app
<1>2. found = None \/ found \in received
  <2>1. Received(e) \in Msgs(Sent, received) /\ Received(e).type = "READ_OVER"
    BY ReceivedType DEF ProcessReadOver, Receives, Received, IInv
  <2>2. \/ Received(e).addr = None
        \/ \E b \in received : Received(e).addr = Addr[b]
    BY <2>1, Said
  <2>3. GoodTable(map_table[e]) /\ received \subseteq Buffers
    BY SentType DEF IInv, Tables, Stages
  <2>4. CASE Received(e).addr = None
    BY <2>3, <2>4, NoneAssumption DEF GoodTable, FindInTable
  <2>5. ASSUME NEW b \in received, Received(e).addr = Addr[b]
        PROVE  found \in {None, b}
    BY <2>3, <2>5, FindGood
  <2> QED  BY <2>2, <2>4, <2>5
<1>3. CASE found = None
  BY <1>1, <1>3 DEF ProcessReadOver, Advances
<1>4. CASE found # None
  <2>1. found \in received  BY <1>2, <1>4
  <2>2. deleted' = deleted \cup {found}
    BY <1>4 DEF ProcessReadOver
  <2>3. found \in Buffers
    BY <2>1, SentType DEF IInv, Stages
  <2> QED  BY <1>1, <2>1, <2>2, <2>3 DEF Deletes, Advances
<1> QED  BY <1>3, <1>4

LEMMA AdvancesStep ==
    ASSUME AddressesDiffer, IInv, [Next]_vars
    PROVE  Advances
<1>1. CASE \E s \in Sessions : SendData(s)
  BY <1>1, SendDataAdvances DEF IInv
<1>2. CASE \E e \in Ends : ExecuteRead(e) \/ ProcessReadOver(e)
  BY <1>2, ExecuteReadAdvances, ReadOverAdvances DEF Advances
<1>3. CASE /\ ~\E s \in Sessions : SendData(s)
           /\ ~\E e \in Ends : ExecuteRead(e) \/ ProcessReadOver(e)
  <2>1. UNCHANGED Sent
    BY <1>3, CallingStep DEF IInv
  <2>2. ASSUME NEW s \in Sessions,
               \/ Application(s)
               \/ SpuriousWakeup(s)
               \/ Terminate(s)
               \/ StopProcess(s)
        PROVE  UNCHANGED <<received, deleted>>
    BY <1>3, <2>2 DEF Application, SetSyncBarrier, WaitForSync, Close, SpuriousWakeup,
        Terminate, StopProcess, gone
  <2>3. ASSUME NEW e \in Ends, Pool(e) \/ BadCompletion(e) \/ DestroyEndpoint(e)
        PROVE  UNCHANGED <<received, deleted>>
    BY <2>3 DEF Pool, RunTask, ReadData, BadCompletion, DestroyEndpoint, gone
  <2>4. ASSUME NEW e \in Ends, Handlers(e)
        PROVE  UNCHANGED <<received, deleted>>
    BY <1>3, <2>4 DEF Handlers, ProcessAck, ProcessSyncRequest, ProcessReadRequest,
        ProcessReadSuccess, ProcessClose, ProcessCloseAck, ProcessCloseTerminate,
        ProcessSyncAck, gone
  <2>5. UNCHANGED <<received, deleted>>
    BY <1>3, <2>2, <2>3, <2>4 DEF Next, vars, gone
  <2> QED  BY <2>1, <2>5 DEF Advances
<1> QED  BY <1>1, <1>2, <1>3

LEMMA StagesStep ==
    ASSUME Stages, Advances
    PROVE  /\ Stages'
           /\ Sent \subseteq Sent' /\ received \subseteq received'
BY DEF Stages, Advances, Reads, Deletes

-----------------------------------------------------------------------------
(* The theorems. *)

LEMMA FlowStep ==
    ASSUME AddressesDiffer, IInv, [Next]_vars, Sent' \subseteq Buffers
    PROVE  NextFlow(Sent', received')
<1>1. Stages' /\ Sent \subseteq Sent' /\ received \subseteq received'
  BY AdvancesStep, StagesStep DEF IInv
<1>2. received' \subseteq Buffers
  BY <1>1 DEF Stages
<1>3. Flow(Sent', received')
  BY <1>1, FlowGrows DEF IInv
<1>4. ASSUME NEW s \in Sessions, Application(s) \/ SpuriousWakeup(s)
      PROVE  NextFlow(Sent', received')
  <2>1. SendData(s) => Call(s).buf \in Sent'
    BY SendDataAdvances DEF IInv
  <2> QED  BY <1>3, <1>4, <2>1, ApplicationFlow DEF IInv
<1>5. ASSUME NEW s \in Sessions, Terminate(s) \/ StopProcess(s)
      PROVE  NextFlow(Sent', received')
  BY <1>3, <1>5, TerminateFlow DEF IInv
<1>6. ASSUME NEW e \in Ends, Pool(e)
      PROVE  NextFlow(Sent', received')
  BY <1>3, <1>6, PoolFlow
<1>7. ASSUME NEW e \in Ends, ExecuteRead(e) \/ BadCompletion(e) \/ DestroyEndpoint(e)
      PROVE  NextFlow(Sent', received')
  <2>1. ExecuteRead(e) => Head(reads[e]) \in received'
    BY DEF ExecuteRead
  <2> QED  BY <1>3, <1>7, <2>1, QueuePairFlow
<1>8. ASSUME NEW e \in Ends, Handlers(e)
      PROVE  NextFlow(Sent', received')
  BY <1>2, <1>3, <1>8, HandlersFlow DEF IInv
<1>9. CASE UNCHANGED vars
  BY <1>3, <1>9 DEF vars, chan, pull, Flow, NextFlow
<1> QED  BY <1>4, <1>5, <1>6, <1>7, <1>8, <1>9 DEF Next

LEMMA InitInvariant == Init => IInv
<1> SUFFICES ASSUME Init PROVE IInv  OBVIOUS
<1>1. Calling
  <2>1. \A s \in Sessions : Program[s] \in Seq(Calls)
    BY SetupsAssumption DEF Init, Program
  <2>2. \A s \in Sessions : Len(Program[s]) \in Nat
    BY <2>1, LenProperties
  <2> QED  BY <2>2 DEF Init, Calling
<1>2. Control
  BY DEF Init, Control
<1>3. Tables
  BY DEF Init, Tables, GoodTable, Empty
<1>4. Flow(Sent, received)
  BY DEF Init, Flow
<1>5. Stages
  BY DEF Init, Stages
<1> QED  BY <1>1, <1>2, <1>3, <1>4, <1>5 DEF IInv

LEMMA StepInvariant == AddressesDiffer /\ IInv /\ [Next]_vars => IInv'
<1> SUFFICES ASSUME AddressesDiffer, IInv, [Next]_vars PROVE IInv'  OBVIOUS
<1>1. Calling'
  BY CallingStep DEF IInv
<1>2. (Sent \subseteq Buffers)'
  BY <1>1, SentType, PTL
<1>3. Sent \subseteq Buffers /\ received \subseteq Buffers
  BY SentType DEF IInv, Stages
<1>4. Control' /\ Tables'
  BY <1>3, ControlStep, TablesStep DEF IInv
<1>5. NextFlow(Sent', received')
  BY <1>2, FlowStep
<1>6. Flow(Sent, received)'
  BY <1>5 DEF Flow, NextFlow, Msgs, Message
<1>7. Stages'
  BY AdvancesStep, StagesStep DEF IInv
<1> QED  BY <1>1, <1>4, <1>6, <1>7 DEF IInv

\* The invariant implies the types: what is sent is a buffer.
LEMMA InvariantTypes == IInv => TypeOK
<1> SUFFICES ASSUME IInv PROVE TypeOK  OBVIOUS
<1>1. Sent \subseteq Buffers /\ received \subseteq Buffers /\ deleted \subseteq Buffers
  BY SentType DEF IInv, Stages
<1>2. /\ Seq(Msgs(Sent, received)) \subseteq Seq(Messages)
      /\ Seq(Sent) \subseteq Seq(Buffers)
      /\ Seq(received) \subseteq Seq(Buffers)
  BY <1>1, MsgsAreMessages, SeqMono
<1>3. /\ tasks \in [Ends -> Seq(Messages)]
      /\ net \in [Ends -> Seq(Messages)]
      /\ fetches \in [Ends -> SUBSET Buffers]
      /\ reads \in [Ends -> Seq(Buffers)]
      /\ read_cqes \in [Ends -> Seq(Buffers)]
  BY <1>1, <1>2 DEF IInv, Flow
<1>4. ASSUME NEW e \in Ends
      PROVE  /\ DOMAIN map_table[e] \subseteq Range(Addr) \cup Buffers
             /\ Range(map_table[e]) \subseteq Buffers \cup Range(Addr)
  <2>1. GoodTable(map_table[e])  BY DEF IInv, Tables
  <2>2. \A b \in Buffers : Addr[b] \in Range(Addr)  BY AddrAssumption
  <2> QED  BY <2>1, <2>2 DEF GoodTable, Range
<1>5. /\ setup \in Setups
      /\ pc \in [Sessions -> Nat]
      /\ waiting \in [Sessions -> BOOLEAN]
  BY Zenon DEF IInv, Calling
<1>6. Control  BY DEF IInv
<1> QED  BY <1>1, <1>3, <1>4, <1>5, <1>6 DEF TypeOK, Control

LEMMA Invariance == ASSUME AddressesDiffer PROVE Spec => []IInv
BY InitInvariant, StepInvariant, PTL DEF Spec

\* Every variable has its type, whatever the applications do.
THEOREM TypeCorrect == ASSUME AddressesDiffer PROVE Spec => []TypeOK
BY Invariance, InvariantTypes, PTL

\* Only what was sent is read, and only what was read is deleted, whatever is
\* closed when (process_read_success and process_attached_message,
\* rdma_message.cpp).
THEOREM StagesCorrect == ASSUME AddressesDiffer PROVE Spec => []Stages
<1>1. IInv => Stages  BY DEF IInv
<1> QED  BY <1>1, Invariance, PTL
=============================================================================
