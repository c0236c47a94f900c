--------------------------- MODULE BarrierProofs ---------------------------
(***************************************************************************)
(* The sync barrier and the close handshake of Session keep what they      *)
(* promise, for any connections and any interleaving, when the             *)
(* applications use them as the conditions in Session say.                 *)
(*                                                                         *)
(* A barrier is one token that goes from a task through a message and the  *)
(* counters of the peer to the SYNC_ACK that sets sync_flag, and no second *)
(* one comes while it is under way.  Once close is called there is none,   *)
(* and all that can still be under way are READ_OVERs, which the entries   *)
(* of map_table_ stand for.                                                *)
(***************************************************************************)
EXTENDS TransferProofs, FiniteSetTheorems

-----------------------------------------------------------------------------
(* Sequences of messages, by the types of the messages. *)

\* t is what is left of s, in order.
Part(t, s) == t \in Seq(Messages) /\ \E f \in [1..Len(t) -> 1..Len(s)] :
    /\ \A i \in 1..Len(t) : t[i] = s[f[i]]
    /\ \A i, j \in 1..Len(t) : i < j => f[i] < f[j]

\* There is a message of the type; there is at most one.
Holds(type, s) == \E m \in Range(s) : m.type = type
Few(type, s) == \A i, j \in 1..Len(s) : s[i].type = type /\ s[j].type = type => i = j

\* CLOSE_TERMINATE is the last message, and only READ_OVERs follow a CLOSE_ACK.
Order(s) == \A i, j \in 1..Len(s) : i < j =>
    /\ s[i].type # "CLOSE_TERMINATE"
    /\ s[i].type = "CLOSE_ACK" => s[j].type = "READ_OVER"

LEMMA PartSame == ASSUME NEW s \in Seq(Messages) PROVE Part(s, s)
<1> DEFINE f == [i \in 1..Len(s) |-> i]
<1>1. /\ f \in [1..Len(s) -> 1..Len(s)]
      /\ \A i \in 1..Len(s) : s[i] = s[f[i]]
      /\ \A i, j \in 1..Len(s) : i < j => f[i] < f[j]
  OBVIOUS
<1> HIDE DEF f
<1> QED  BY <1>1 DEF Part

LEMMA PartTail ==
    ASSUME NEW s \in Seq(Messages), s # <<>>
    PROVE  Part(Tail(s), s)
<1>1. /\ Tail(s) \in Seq(Messages) /\ Len(Tail(s)) = Len(s) - 1 /\ Len(s) \in Nat \ {0}
      /\ \A i \in 1..Len(s) - 1 : Tail(s)[i] = s[i + 1]
  BY HeadTailProperties, LenProperties, EmptySeq
<1> DEFINE f == [i \in 1..Len(Tail(s)) |-> i + 1]
<1>2. /\ f \in [1..Len(Tail(s)) -> 1..Len(s)]
      /\ \A i \in 1..Len(Tail(s)) : Tail(s)[i] = s[f[i]]
      /\ \A i, j \in 1..Len(Tail(s)) : i < j => f[i] < f[j]
  BY <1>1
<1> HIDE DEF f
<1> QED  BY <1>1, <1>2 DEF Part

LEMMA PartWithout ==
    ASSUME NEW s \in Seq(Messages), NEW i \in 1..Len(s)
    PROVE  Part(Without(s, i), s)
<1> DEFINE t == Without(s, i)
           f == [j \in 1..Len(t) |-> IF j < i THEN j ELSE j + 1]
<1>1. /\ t \in Seq(Messages) /\ Len(t) = Len(s) - 1 /\ Len(s) \in Nat \ {0}
      /\ \A j \in 1..Len(t) : t[j] = IF j < i THEN s[j] ELSE s[j + 1]
  BY WithoutElements
<1> HIDE DEF t
<1>2. /\ f \in [1..Len(t) -> 1..Len(s)]
      /\ \A j \in 1..Len(t) : t[j] = s[f[j]]
      /\ \A j, k \in 1..Len(t) : j < k => f[j] < f[k]
  BY <1>1
<1> HIDE DEF f
<1>3. Part(t, s)  BY <1>1, <1>2 DEF Part
<1> QED  BY <1>3 DEF t

LEMMA PartPrefix ==
    ASSUME NEW s \in Seq(Messages), NEW n \in 0..Len(s)
    PROVE  Part(SubSeq(s, 1, n), s)
<1> DEFINE t == SubSeq(s, 1, n)
           f == [i \in 1..Len(t) |-> i]
<1>1. t \in Seq(Messages) /\ Len(t) = n /\ \A i \in 1..n : t[i] = s[i]
  BY LenProperties, SubSeqProperties
<1> HIDE DEF t
<1>2. /\ f \in [1..Len(t) -> 1..Len(s)]
      /\ \A i \in 1..Len(t) : t[i] = s[f[i]]
      /\ \A i, j \in 1..Len(t) : i < j => f[i] < f[j]
  BY <1>1, LenProperties
<1> HIDE DEF f
<1>3. Part(t, s)  BY <1>1, <1>2 DEF Part
<1> QED  BY <1>3 DEF t

\* What a part keeps of the whole.
LEMMA PartKeeps ==
    ASSUME NEW s \in Seq(Messages), NEW t, Part(t, s)
    PROVE  /\ Range(t) \subseteq Range(s)
           /\ \A type : Holds(type, t) => Holds(type, s)
           /\ \A type : Few(type, s) => Few(type, t)
           /\ Order(s) => Order(t)
           /\ s = <<>> => t = <<>>
<1>1. PICK f \in [1..Len(t) -> 1..Len(s)] :
        /\ \A i \in 1..Len(t) : t[i] = s[f[i]]
        /\ \A i, j \in 1..Len(t) : i < j => f[i] < f[j]
  BY DEF Part
<1>2. DOMAIN s = 1..Len(s) /\ DOMAIN t = 1..Len(t) /\ Len(t) \in Nat /\ Len(s) \in Nat
  BY LenProperties
<1>3. Range(t) \subseteq Range(s)
  BY <1>1, <1>2 DEF Range
<1>4. ASSUME NEW type, Few(type, s) PROVE Few(type, t)
  <2> SUFFICES ASSUME NEW i \in 1..Len(t), NEW j \in 1..Len(t),
                      t[i].type = type, t[j].type = type
               PROVE  i = j
    BY DEF Few
  <2>1. f[i] \in 1..Len(s) /\ f[j] \in 1..Len(s) /\ t[i] = s[f[i]] /\ t[j] = s[f[j]]
    BY <1>1
  <2>2. f[i] = f[j]
    BY <1>4, <2>1 DEF Few
  <2>3. ~(i < j) /\ ~(j < i)
    BY <1>1, <2>1, <2>2
  <2> QED  BY <2>3
<1>5. ASSUME Order(s) PROVE Order(t)
  BY <1>1, <1>5 DEF Order
<1>6. ASSUME s = <<>>, t # <<>> PROVE FALSE
  <2>1. Len(s) = 0 /\ Len(t) # 0
    BY <1>6, EmptySeq
  <2>2. 1 \in 1..Len(t)
    BY <1>2, <2>1
  <2>3. f[1] \in 1..Len(s)
    BY <1>1, <2>2
  <2> QED  BY <2>1, <2>3
<1> QED  BY <1>3, <1>4, <1>5, <1>6 DEF Holds

LEMMA Appended ==
    ASSUME NEW S, NEW s \in Seq(S), NEW m \in S
    PROVE  /\ Range(Append(s, m)) = Range(s) \cup {m}
           /\ \A type : Holds(type, Append(s, m)) <=> Holds(type, s) \/ m.type = type
           /\ \A type : Few(type, s) /\ (m.type = type => ~Holds(type, s))
                          => Few(type, Append(s, m))
           /\ /\ Order(s) /\ ~Holds("CLOSE_TERMINATE", s)
              /\ Holds("CLOSE_ACK", s) => m.type = "READ_OVER"
              => Order(Append(s, m))
<1>1. /\ Len(Append(s, m)) = Len(s) + 1 /\ Len(s) \in Nat /\ DOMAIN s = 1..Len(s)
      /\ \A i \in 1..Len(s) : Append(s, m)[i] = s[i]
      /\ Append(s, m)[Len(s) + 1] = m
  BY AppendProperties, LenProperties
<1>2. Range(Append(s, m)) = Range(s) \cup {m}
  BY RangeOfAppend
<1>3. \A type : Holds(type, Append(s, m)) <=> Holds(type, s) \/ m.type = type
  BY <1>2 DEF Holds
<1>4. \A type : ~Holds(type, s) => \A i \in 1..Len(s) : s[i].type # type
  BY <1>1 DEF Holds, Range
<1>5. ASSUME NEW type, Few(type, s), m.type = type => ~Holds(type, s)
      PROVE  Few(type, Append(s, m))
  BY <1>1, <1>4, <1>5 DEF Few
<1>6. ASSUME Order(s), ~Holds("CLOSE_TERMINATE", s),
             Holds("CLOSE_ACK", s) => m.type = "READ_OVER"
      PROVE  Order(Append(s, m))
  <2> SUFFICES ASSUME NEW i \in 1..Len(s) + 1, NEW j \in 1..Len(s) + 1, i < j
               PROVE  /\ Append(s, m)[i].type # "CLOSE_TERMINATE"
                      /\ Append(s, m)[i].type = "CLOSE_ACK" =>
                           Append(s, m)[j].type = "READ_OVER"
    BY <1>1 DEF Order
  <2>1. i \in 1..Len(s) /\ Append(s, m)[i] = s[i]
    BY <1>1
  <2>2. s[i].type # "CLOSE_TERMINATE"
    BY <1>4, <1>6, <2>1
  <2>3. CASE j \in 1..Len(s)
    BY <1>1, <1>6, <2>1, <2>2, <2>3 DEF Order
  <2>4. CASE j = Len(s) + 1
    BY <1>1, <1>4, <1>6, <2>1, <2>2, <2>4
  <2> QED  BY <1>1, <2>3, <2>4
<1> QED  BY <1>2, <1>3, <1>5, <1>6

LEMMA PartFew ==
    ASSUME NEW s \in Seq(Messages), NEW t, Part(t, s), NEW type, Few(type, s)
    PROVE  Few(type, t)
BY PartKeeps

LEMMA AppendFew ==
    ASSUME NEW s \in Seq(Messages), NEW m \in Messages, NEW type, Few(type, s),
           m.type = type => ~Holds(type, s)
    PROVE  Few(type, Append(s, m))
BY Appended

\* The head is gone, and with it what may be there only before or only once.
LEMMA TailDrops ==
    ASSUME NEW S, NEW s \in Seq(S), s # <<>>
    PROVE  /\ Tail(s) \in Seq(S) /\ Head(s) \in Range(s)
           /\ \A type : Few(type, s) /\ Head(s).type = type => ~Holds(type, Tail(s))
           /\ Order(s) /\ Head(s).type = "CLOSE_TERMINATE" => Tail(s) = <<>>
           /\ Order(s) /\ Head(s).type = "CLOSE_ACK" =>
                \A m \in Range(Tail(s)) : m.type = "READ_OVER"
<1>1. /\ Tail(s) \in Seq(S) /\ Len(Tail(s)) = Len(s) - 1 /\ Len(s) \in Nat \ {0}
      /\ Head(s) = s[1] /\ \A i \in 1..Len(s) - 1 : Tail(s)[i] = s[i + 1]
      /\ DOMAIN s = 1..Len(s) /\ DOMAIN Tail(s) = 1..Len(s) - 1
  BY HeadTailProperties, LenProperties, EmptySeq
<1>2. Head(s) \in Range(s)
  BY <1>1 DEF Range
<1>3. ASSUME NEW m \in Range(Tail(s)) PROVE \E i \in 2..Len(s) : m = s[i]
  <2>1. PICK j \in 1..Len(s) - 1 : m = Tail(s)[j]
    BY <1>1 DEF Range
  <2>2. j + 1 \in 2..Len(s) /\ m = s[j + 1]
    BY <1>1, <2>1
  <2> QED  BY <2>2
<1>4. ASSUME NEW type, Few(type, s), Head(s).type = type PROVE ~Holds(type, Tail(s))
  <2> SUFFICES ASSUME NEW m \in Range(Tail(s)), m.type = type PROVE FALSE
    BY DEF Holds
  <2>1. PICK i \in 2..Len(s) : m = s[i]
    BY <1>3
  <2>2. i \in 1..Len(s) /\ 1 \in 1..Len(s)
    BY <1>1
  <2>3. i = 1
    BY <1>1, <1>4, <2>1, <2>2 DEF Few
  <2> QED  BY <2>3
<1>5. ASSUME Order(s), Head(s).type = "CLOSE_TERMINATE" PROVE Tail(s) = <<>>
  <2>1. ASSUME 2 \in 1..Len(s) PROVE FALSE
    <3>1. 1 \in 1..Len(s)  BY <1>1
    <3> QED  BY <1>1, <1>5, <2>1, <3>1 DEF Order
  <2>2. Len(Tail(s)) = 0
    BY <1>1, <2>1
  <2> QED  BY <1>1, <2>2, EmptySeq
<1>6. ASSUME Order(s), Head(s).type = "CLOSE_ACK", NEW m \in Range(Tail(s))
      PROVE  m.type = "READ_OVER"
  <2>1. PICK i \in 2..Len(s) : m = s[i]
    BY <1>3
  <2>2. i \in 1..Len(s) /\ 1 \in 1..Len(s) /\ 1 < i
    BY <1>1
  <2> QED  BY <1>1, <1>6, <2>1, <2>2 DEF Order
<1> QED  BY <1>1, <1>2, <1>4, <1>5, <1>6

LEMMA WithoutDrops ==
    ASSUME NEW S, NEW s \in Seq(S), NEW i \in 1..Len(s)
    PROVE  /\ s[i] \in Range(s)
           /\ \A type : Few(type, s) /\ s[i].type = type => ~Holds(type, Without(s, i))
<1>1. /\ Len(Without(s, i)) = Len(s) - 1 /\ Len(s) \in Nat \ {0}
      /\ DOMAIN s = 1..Len(s) /\ DOMAIN Without(s, i) = 1..Len(Without(s, i))
      /\ \A j \in 1..Len(Without(s, i)) :
           Without(s, i)[j] = IF j < i THEN s[j] ELSE s[j + 1]
  BY WithoutElements
<1>2. ASSUME NEW type, Few(type, s), s[i].type = type, NEW m \in Range(Without(s, i)),
             m.type = type
      PROVE  FALSE
  <2>1. PICK j \in 1..Len(Without(s, i)) : m = Without(s, i)[j]
    BY <1>1, <1>2 DEF Range
  <2>2. PICK k \in 1..Len(s) : k # i /\ m = s[k]
    <3>1. CASE j < i
      <4>1. j \in 1..Len(s) /\ m = s[j]  BY <1>1, <2>1, <3>1
      <4> QED  BY <3>1, <4>1
    <3>2. CASE ~(j < i)
      <4>1. j + 1 \in 1..Len(s) /\ m = s[j + 1] /\ j + 1 # i  BY <1>1, <2>1, <3>2
      <4> QED  BY <4>1
    <3> QED  BY <3>1, <3>2
  <2> QED  BY <1>2, <2>2 DEF Few
<1>3. s[i] \in Range(s)  BY <1>1 DEF Range
<1> QED  BY <1>2, <1>3 DEF Holds

-----------------------------------------------------------------------------
(* What a step does to each part of the state, and which step it is. *)

\* The step that posts m at g.
Posts(g, m) ==
    \/ \E i \in 1..Len(tasks[g]) : RunTask(g, i) /\ m = tasks[g][i]
    \/ /\ m = Message("ACK")
       /\ ProcessSyncRequest(g) \/ ProcessReadRequest(g) \/ ProcessReadOver(g)
    \/ m = Message("SYNC_ACK") /\ ProcessReadSuccess(g)
                               /\ SyncTargetGet(g, Head(read_cqes[g]))
    \/ m = Message("CLOSE_ACK") /\ ProcessClose(g)
    \/ m = Message("CLOSE") /\ \E s \in Sessions : Close(s) /\ Call(s).end = g
    \/ m = Message("CLOSE_TERMINATE") /\ \E s \in Sessions : Terminate(s) /\ terminating[s] = g

NetStep == \A g \in Ends :
    \/ Part(net'[g], net[g])
    \/ \E m \in Messages : Posts(g, m) /\ net'[g] = Append(net[g], m)

\* An answer takes the head off the messages of the peer, and comes at the end.
LEMMA AnswerParts ==
    ASSUME net \in [Ends -> Seq(Messages)], NEW e \in Ends, net[Peer[e]] # <<>>
    PROVE  /\ Answer(e, <<>>) => \A g \in Ends : Part(net'[g], net[g])
           /\ \A m \in Messages : Answer(e, <<m>>) =>
                /\ \A g \in Ends : g # e => Part(net'[g], net[g])
                /\ net'[e] = Append(net[e], m)
           /\ \A m \in Messages : Answer(e, <<>>) \/ Answer(e, <<m>>) =>
                net'[Peer[e]] = Tail(net[Peer[e]])
<1>1. Peer[e] \in Ends /\ Peer[e] # e  BY EndFacts
<1>2. net[e] \o <<>> = net[e]
  BY ConcatEmptySeq
<1>3. ASSUME NEW m \in Messages PROVE net[e] \o <<m>> = Append(net[e], m)
  BY <1>3, AppendIsConcat
<1>4. Part(Tail(net[Peer[e]]), net[Peer[e]])
  BY <1>1, PartTail
<1>5. \A g \in Ends : Part(net[g], net[g])
  BY PartSame
<1>6. ASSUME NEW t, net' = [net EXCEPT ![Peer[e]] = Tail(@), ![e] = t]
      PROVE  /\ net'[Peer[e]] = Tail(net[Peer[e]]) /\ net'[e] = t
             /\ \A g \in Ends : g # e => Part(net'[g], net[g])
  BY <1>1, <1>4, <1>5, <1>6
<1>7. ASSUME Answer(e, <<>>)
      PROVE  /\ \A g \in Ends : Part(net'[g], net[g])
             /\ net'[Peer[e]] = Tail(net[Peer[e]])
  <2>1. net' = [net EXCEPT ![Peer[e]] = Tail(@), ![e] = net[e]]
    BY <1>1, <1>2, <1>7 DEF Answer
  <2> QED  BY <1>5, <1>6, <2>1
<1>8. ASSUME NEW m \in Messages, Answer(e, <<m>>)
      PROVE  /\ \A g \in Ends : g # e => Part(net'[g], net[g])
             /\ net'[e] = Append(net[e], m)
             /\ net'[Peer[e]] = Tail(net[Peer[e]])
  <2>1. net' = [net EXCEPT ![Peer[e]] = Tail(@), ![e] = Append(net[e], m)]
    BY <1>1, <1>3, <1>8 DEF Answer
  <2> QED  BY <1>6, <2>1
<1> QED  BY <1>7, <1>8

LEMMA NetSteps == ASSUME IInv, [Next]_vars PROVE NetStep
<1>1. net \in [Ends -> Seq(Messages)] /\ tasks \in [Ends -> Seq(Messages)]
  BY Typed
<1>2. \A g \in Ends : Part(net[g], net[g])
  BY <1>1, PartSame
<1>3. ASSUME UNCHANGED net PROVE NetStep
  BY <1>2, <1>3 DEF NetStep
<1>4. ASSUME NEW e \in Ends, NEW m \in Messages, Posts(e, m),
             net' = [net EXCEPT ![e] = Append(@, m)]
      PROVE  NetStep
  BY <1>1, <1>2, <1>4 DEF NetStep
<1>5. ASSUME NEW e \in Ends, net[Peer[e]] # <<>>,
             \/ Answer(e, <<>>)
             \/ \E m \in Messages : Answer(e, <<m>>) /\ Posts(e, m)
      PROVE  NetStep
  BY <1>1, <1>5, AnswerParts DEF NetStep
<1>6. ASSUME NEW s \in Sessions, Application(s) \/ SpuriousWakeup(s) \/ StopProcess(s)
      PROVE  NetStep
  <2>1. CASE Close(s)
    <3>1. Call(s).end \in Ends /\ Message("CLOSE") \in Messages
      BY <2>1, CallType, Bare DEF Close, Makes, IInv
    <3>2. Posts(Call(s).end, Message("CLOSE"))
      BY <2>1 DEF Posts
    <3> QED  BY <1>4, <2>1, <3>1, <3>2 DEF Close
  <2>2. CASE ~Close(s)
    BY <1>3, <1>6, <2>2 DEF Application, SetSyncBarrier, SendData, WaitForSync,
        SpuriousWakeup, StopProcess, chan
  <2> QED  BY <2>1, <2>2
<1>7. ASSUME NEW s \in Sessions, Terminate(s) PROVE NetStep
  <2>1. terminating[s] \in Ends /\ Message("CLOSE_TERMINATE") \in Messages
    BY <1>7, Bare DEF Terminate, IInv, Control
  <2>2. Posts(terminating[s], Message("CLOSE_TERMINATE"))
    BY <1>7 DEF Posts
  <2> QED  BY <1>4, <1>7, <2>1, <2>2 DEF Terminate
<1>8. ASSUME NEW e \in Ends, Pool(e) PROVE NetStep
  <2>1. ASSUME NEW i \in 1..Len(tasks[e]), RunTask(e, i) PROVE NetStep
    <3>1. tasks[e][i] \in Messages
      BY <1>1, ElementOfSeq
    <3>2. Posts(e, tasks[e][i])
      BY <2>1 DEF Posts
    <3> QED  BY <1>4, <2>1, <3>1, <3>2 DEF RunTask
  <2>2. ASSUME NEW b, ReadData(e, b) PROVE NetStep
    BY <1>3, <2>2 DEF ReadData, chan
  <2> QED  BY <1>8, <2>1, <2>2 DEF Pool
<1>9. ASSUME NEW e \in Ends, ExecuteRead(e) \/ BadCompletion(e)
      PROVE  NetStep
  BY <1>3, <1>9 DEF ExecuteRead, BadCompletion, chan
<1>10. ASSUME NEW e \in Ends, DestroyEndpoint(e) PROVE NetStep
  <2>1. PICK n \in 0..Len(net[e]) : net' = [net EXCEPT ![e] = SubSeq(net[e], 1, n)]
    BY <1>10 DEF DestroyEndpoint
  <2>2. Part(SubSeq(net[e], 1, n), net[e])
    BY <1>1, PartPrefix
  <2> QED  BY <1>1, <1>2, <2>1, <2>2 DEF NetStep
<1>11. ASSUME NEW e \in Ends, Handlers(e) PROVE NetStep
  <2>1. CASE ProcessReadSuccess(e)
    <3>1. CASE SyncTargetGet(e, Head(read_cqes[e]))
      <4>1. Posts(e, Message("SYNC_ACK")) /\ Message("SYNC_ACK") \in Messages
        BY <2>1, <3>1, Bare DEF Posts
      <4> QED  BY <1>4, <2>1, <3>1, <4>1 DEF ProcessReadSuccess
    <3>2. CASE ~SyncTargetGet(e, Head(read_cqes[e]))
      BY <1>3, <2>1, <3>2 DEF ProcessReadSuccess
    <3> QED  BY <3>1, <3>2
  <2>2. CASE ProcessSyncRequest(e) \/ ProcessReadRequest(e) \/ ProcessReadOver(e)
    <3>1. net[Peer[e]] # <<>> /\ Message("ACK") \in Messages /\ Posts(e, Message("ACK"))
      BY <2>2, Bare DEF Posts, ProcessSyncRequest, ProcessReadRequest, ProcessReadOver,
         Receives
    <3>2. Answer(e, <<>>) \/ Answer(e, <<Message("ACK")>>)
      BY <2>2 DEF ProcessSyncRequest, ProcessReadRequest, ProcessReadOver
    <3> QED  BY <1>5, <3>1, <3>2
  <2>3. CASE ProcessClose(e)
    <3>1. Message("CLOSE_ACK") \in Messages /\ Posts(e, Message("CLOSE_ACK"))
      BY <2>3, Bare DEF Posts
    <3> QED  BY <1>5, <2>3, <3>1 DEF ProcessClose, Receives
  <2>4. CASE \/ ProcessAck(e) \/ ProcessCloseAck(e)
             \/ ProcessCloseTerminate(e) \/ ProcessSyncAck(e)
    BY <1>5, <2>4 DEF ProcessAck, ProcessCloseAck, ProcessCloseTerminate,
       ProcessSyncAck, Receives
  <2> QED  BY <1>11, <2>1, <2>2, <2>3, <2>4 DEF Handlers
<1>12. CASE UNCHANGED vars
  BY <1>3, <1>12 DEF vars, chan
<1> QED  BY <1>6, <1>7, <1>8, <1>9, <1>10, <1>11, <1>12 DEF Next

\* The step that adds the task of m to the pool of g.
Adds(g, m) ==
    \/ \E s \in Sessions : /\ SetSyncBarrier(s) /\ Call(s).end = g
                           /\ m = [type |-> "SYNC_REQUEST", size |-> Call(s).size]
    \/ \E s \in Sessions : /\ SendData(s) /\ Call(s).end = g
                           /\ m = [type |-> "READ_REQUEST", buf |-> Call(s).buf]
    \/ /\ ProcessReadSuccess(g)
       /\ m.type = "READ_OVER" /\ m.buf = Head(read_cqes[g])

TaskStep == \A g \in Ends :
    \/ Part(tasks'[g], tasks[g])
    \/ \E m \in Messages : Adds(g, m) /\ tasks'[g] = Append(tasks[g], m)

LEMMA TaskSteps == ASSUME AddressesDiffer, IInv, [Next]_vars PROVE TaskStep
<1>1. tasks \in [Ends -> Seq(Messages)]
  BY Typed
<1>2. \A g \in Ends : Part(tasks[g], tasks[g])
  BY <1>1, PartSame
<1>3. ASSUME UNCHANGED tasks PROVE TaskStep
  BY <1>2, <1>3 DEF TaskStep
<1>4. ASSUME NEW e \in Ends, NEW m \in Messages, Adds(e, m), AddTask(e, m)
      PROVE  TaskStep
  BY <1>1, <1>2, <1>4 DEF TaskStep, AddTask
<1>5. ASSUME NEW s \in Sessions,
             Application(s) \/ SpuriousWakeup(s) \/ Terminate(s) \/ StopProcess(s)
      PROVE  TaskStep
  <2>1. CASE SetSyncBarrier(s)
    <3> DEFINE m == [type |-> "SYNC_REQUEST", size |-> Call(s).size]
    <3>1. Adds(Call(s).end, m) /\ AddTask(Call(s).end, m) /\ Call(s).end \in Ends
      BY <2>1, CallType DEF Adds, SetSyncBarrier, Makes, IInv
    <3>2. m \in Messages
      BY <2>1, CallType DEF SetSyncBarrier, Makes, IInv, Messages
    <3> QED  BY <1>4, <3>1, <3>2
  <2>2. CASE SendData(s)
    <3> DEFINE m == [type |-> "READ_REQUEST", buf |-> Call(s).buf]
    <3>1. Adds(Call(s).end, m) /\ AddTask(Call(s).end, m) /\ Call(s).end \in Ends
      BY <2>2, CallType DEF Adds, SendData, Makes, IInv
    <3>2. m \in Messages
      BY <2>2, CallType DEF SendData, Makes, IInv, Messages
    <3> QED  BY <1>4, <3>1, <3>2
  <2>3. CASE ~SetSyncBarrier(s) /\ ~SendData(s)
    BY <1>3, <1>5, <2>3 DEF Application, WaitForSync, Close, SpuriousWakeup, Terminate,
       StopProcess, chan
  <2> QED  BY <2>1, <2>2, <2>3
<1>6. ASSUME NEW e \in Ends, Pool(e) PROVE TaskStep
  <2>1. ASSUME NEW i \in 1..Len(tasks[e]), RunTask(e, i) PROVE TaskStep
    <3>1. Part(Without(tasks[e], i), tasks[e])
      BY <1>1, PartWithout
    <3> QED  BY <1>1, <1>2, <2>1, <3>1 DEF RunTask, TaskStep
  <2>2. ASSUME NEW b, ReadData(e, b) PROVE TaskStep
    BY <1>3, <2>2 DEF ReadData, chan
  <2> QED  BY <1>6, <2>1, <2>2 DEF Pool
<1>7. ASSUME NEW e \in Ends, Handlers(e) PROVE TaskStep
  <2>1. CASE ProcessReadSuccess(e)
    <3> DEFINE m == [type |-> "READ_OVER",
                     addr |-> FindInTable(map_table[e], Head(read_cqes[e])),
                     buf |-> Head(read_cqes[e])]
    <3>1. Adds(e, m) /\ AddTask(e, m)
      BY <2>1 DEF Adds, ProcessReadSuccess
    <3>2. Head(read_cqes[e]) \in Buffers /\ GoodTable(map_table[e])
      BY <2>1, Typed, HeadTailProperties DEF ProcessReadSuccess
    <3>3. FindInTable(map_table[e], Head(read_cqes[e])) \in Range(Addr) \cup {None}
      BY <3>2, FindGood, AddrAssumption
    <3>4. m \in Messages
      BY <3>2, <3>3 DEF Messages
    <3> QED  BY <1>4, <3>1, <3>4
  <2>2. CASE ~ProcessReadSuccess(e)
    BY <1>3, <1>7, <2>2 DEF Handlers, ProcessAck, ProcessSyncRequest, ProcessReadRequest,
       ProcessReadOver, ProcessClose, ProcessCloseAck, ProcessCloseTerminate, ProcessSyncAck
  <2> QED  BY <2>1, <2>2
<1>8. ASSUME NEW e \in Ends, ExecuteRead(e) \/ BadCompletion(e) \/ DestroyEndpoint(e)
      PROVE  TaskStep
  BY <1>3, <1>8 DEF ExecuteRead, BadCompletion, DestroyEndpoint, chan
<1>9. CASE UNCHANGED vars
  BY <1>3, <1>9 DEF vars, chan
<1> QED  BY <1>5, <1>6, <1>7, <1>8, <1>9 DEF Next

\* How a buffer is pulled: where it may come from, and when its READ is counted.
PullStep ==
    /\ received \subseteq received'
    /\ \A b \in received' : b \in received \/ \E g \in Ends : b \in Range(read_cqes'[g])
    /\ \A g \in Ends :
         /\ \A b \in fetches'[g] :
              b \in fetches[g] \/ (ProcessReadRequest(g) /\ b = Received(g).buf)
         /\ \A b \in Range(reads'[g]) : b \in Range(reads[g]) \/ b \in fetches[g]
         /\ \A b \in Range(read_cqes'[g]) : b \in Range(read_cqes[g]) \/ b \in Range(reads[g])
         /\ \A b \in Range(read_cqes[g]) :
              \/ b \in Range(read_cqes'[g])
              \/ ProcessReadSuccess(g) /\ b = Head(read_cqes[g])
         /\ \A b \in Range(reads[g]) :
              b \in Range(reads'[g]) \/ b \in Range(read_cqes'[g]) \/ DestroyEndpoint(g)

LEMMA PullSteps == ASSUME IInv, [Next]_vars PROVE PullStep
<1>1. /\ fetches \in [Ends -> SUBSET Buffers]
      /\ reads \in [Ends -> Seq(Buffers)] /\ read_cqes \in [Ends -> Seq(Buffers)]
  BY Typed
<1>2. ASSUME UNCHANGED <<pull, received>> PROVE PullStep
  BY <1>2 DEF PullStep, pull
<1>3. ASSUME NEW s \in Sessions,
             Application(s) \/ SpuriousWakeup(s) \/ Terminate(s) \/ StopProcess(s)
      PROVE  PullStep
  BY <1>2, <1>3 DEF Application, SetSyncBarrier, SendData, WaitForSync, Close,
     SpuriousWakeup, Terminate, StopProcess
<1>4. ASSUME NEW e \in Ends, Handlers(e), ~ProcessReadRequest(e), ~ProcessReadSuccess(e)
      PROVE  PullStep
  BY <1>2, <1>4 DEF Handlers, ProcessAck, ProcessSyncRequest, ProcessReadOver, ProcessClose,
     ProcessCloseAck, ProcessCloseTerminate, ProcessSyncAck
<1>5. ASSUME NEW e \in Ends, BadCompletion(e) \/ \E i \in 1..Len(tasks[e]) : RunTask(e, i)
      PROVE  PullStep
  BY <1>2, <1>5 DEF BadCompletion, RunTask
<1>6. ASSUME NEW e \in Ends, ProcessReadRequest(e) PROVE PullStep
  <2>1. /\ UNCHANGED <<reads, read_cqes, received>>
        /\ fetches' = fetches \/ fetches' = [fetches EXCEPT ![e] = @ \cup {Received(e).buf}]
    BY <1>6 DEF ProcessReadRequest
  <2>2. \A g \in Ends : \A b \in fetches'[g] :
          b \in fetches[g] \/ (g = e /\ b = Received(e).buf)
    BY <1>1, <2>1
  <2>3. \A g \in Ends : \A b \in fetches'[g] :
          b \in fetches[g] \/ (ProcessReadRequest(g) /\ b = Received(g).buf)
    BY <1>6, <2>2
  <2> QED  BY <2>1, <2>3 DEF PullStep
<1>7. ASSUME NEW e \in Ends, ProcessReadSuccess(e) PROVE PullStep
  <2>1. /\ UNCHANGED <<fetches, reads, received>> /\ read_cqes[e] # <<>>
        /\ read_cqes' = [read_cqes EXCEPT ![e] = Tail(@)]
    BY <1>7 DEF ProcessReadSuccess
  <2>2. Range(read_cqes[e]) = {Head(read_cqes[e])} \cup Range(Tail(read_cqes[e]))
    BY <1>1, <2>1, RangeOfTail
  <2>3. \A g \in Ends : /\ g # e => read_cqes'[g] = read_cqes[g]
                        /\ g = e => read_cqes'[g] = Tail(read_cqes[e])
    BY <1>1, <2>1
  <2> QED  BY <1>7, <2>1, <2>2, <2>3 DEF PullStep
<1>8. ASSUME NEW e \in Ends, NEW b \in fetches[e], ReadData(e, b) PROVE PullStep
  <2>1. /\ UNCHANGED <<read_cqes, received>>
        /\ fetches' = [fetches EXCEPT ![e] = @ \ {b}]
        /\ reads' = [reads EXCEPT ![e] = Append(@, b)]
    BY <1>8 DEF ReadData
  <2>2. Range(Append(reads[e], b)) = Range(reads[e]) \cup {b}
    BY <1>1, RangeOfAppend
  <2>3. \A g \in Ends : /\ fetches'[g] \subseteq fetches[g]
                        /\ g # e => reads'[g] = reads[g]
                        /\ g = e => reads'[g] = Append(reads[e], b)
    BY <1>1, <2>1
  <2> QED  BY <2>1, <2>2, <2>3 DEF PullStep
<1>9. ASSUME NEW e \in Ends, ExecuteRead(e) PROVE PullStep
  <2> DEFINE b == Head(reads[e])
  <2>1. /\ UNCHANGED fetches /\ reads[e] # <<>>
        /\ reads' = [reads EXCEPT ![e] = Tail(@)]
        /\ read_cqes' = [read_cqes EXCEPT ![e] = Append(@, b)]
        /\ received' = received \cup {b}
    BY <1>9 DEF ExecuteRead
  <2>2. b \in Buffers /\ Range(reads[e]) = {b} \cup Range(Tail(reads[e]))
    BY <1>1, <2>1, RangeOfTail, HeadTailProperties
  <2>3. Range(Append(read_cqes[e], b)) = Range(read_cqes[e]) \cup {b}
    BY <1>1, <2>2, RangeOfAppend
  <2> HIDE DEF b
  <2>4. \A g \in Ends : /\ g # e => reads'[g] = reads[g] /\ read_cqes'[g] = read_cqes[g]
                        /\ g = e => /\ reads'[g] = Tail(reads[e])
                                    /\ read_cqes'[g] = Append(read_cqes[e], b)
    BY <1>1, <2>1
  <2>5. b \in Range(read_cqes'[e])
    BY <2>3, <2>4
  <2> QED  BY <2>1, <2>2, <2>3, <2>4, <2>5 DEF PullStep
<1>10. ASSUME NEW e \in Ends, DestroyEndpoint(e) PROVE PullStep
  <2>1. /\ UNCHANGED <<fetches, read_cqes, received>>
        /\ reads' = [reads EXCEPT ![e] = <<>>]
    BY <1>10 DEF DestroyEndpoint
  <2> QED  BY <1>1, <1>10, <2>1, EmptyRest DEF PullStep
<1>11. CASE UNCHANGED vars
  BY <1>2, <1>11 DEF vars
<1> QED  BY <1>3, <1>4, <1>5, <1>6, <1>7, <1>8, <1>9, <1>10, <1>11 DEF Next, Pool

\* The call of s returns; a wait does so on a flag that is set or is being set.
Returns(s) == /\ pc[s] + 1 \in 1..Len(Program[s])
              /\ Made(s)' = Made(s) \cup {pc[s] + 1}
WaitOver(s) == /\ Call(s).op = "wait_for_sync"
               /\ sync_flag[s] \/ \E e \in Ends : SessionOf[e] = s /\ ProcessSyncAck(e)

MadeStep == \A s \in Sessions :
    \/ Made(s)' = Made(s) /\ ~SetSyncBarrier(s) /\ ~SendData(s) /\ ~Close(s)
    \/ Returns(s) /\ (SetSyncBarrier(s) \/ SendData(s) \/ Close(s) \/ WaitOver(s))

LEMMA ReturnMade ==
    ASSUME Calling, NEW s \in Sessions, ~Returned(s), Return(s), UNCHANGED setup
    PROVE  Returns(s) /\ \A r \in Sessions : r # s => Made(r)' = Made(r)
<1>1. /\ Program' = Program
      /\ pc' = [pc EXCEPT ![s] = pc[s] + 1]
      /\ pc[s] + 1 \in 1..Len(Program[s])
  BY ProgramType DEF Program, Return, Calling, Returned
<1>2. \A r \in Sessions : r # s => Made(r)' = Made(r)
  BY <1>1 DEF Made, Calling
<1>3. Made(s)' = Made(s) \cup {pc[s] + 1}
  BY <1>1 DEF Made, Calling
<1> QED  BY <1>1, <1>2, <1>3 DEF Returns

LEMMA QuietMade == ASSUME UNCHANGED <<setup, pc>> PROVE \A s \in Sessions : Made(s)' = Made(s)
BY DEF Made, Program

\* A step at which no call returns is none of a call.
LEMMA ReturnsOnce ==
    ASSUME Calling, NEW s \in Sessions, SetSyncBarrier(s) \/ SendData(s) \/ Close(s)
    PROVE  pc'[s] # pc[s]
<1>1. pc[s] \in Nat /\ pc' = [pc EXCEPT ![s] = pc[s] + 1] /\ pc \in [Sessions -> Nat]
  BY DEF Calling, SetSyncBarrier, SendData, Close, Return
<1> QED  BY <1>1

LEMMA MadeSteps == ASSUME IInv, ~SpuriousWakeups, [Next]_vars PROVE MadeStep
<1>0. Calling  BY DEF IInv
<1>1. ASSUME UNCHANGED <<setup, pc>> PROVE MadeStep
  BY <1>0, <1>1, QuietMade, ReturnsOnce DEF MadeStep
<1>2. ASSUME NEW s \in Sessions, ~Returned(s), Return(s), UNCHANGED setup,
             SetSyncBarrier(s) \/ SendData(s) \/ Close(s) \/ WaitOver(s)
      PROVE  MadeStep
  <2>1. Returns(s) /\ \A r \in Sessions : r # s => Made(r)' = Made(r)
    BY <1>0, <1>2, ReturnMade
  <2>2. \A r \in Sessions : r # s => pc'[r] = pc[r]
    BY <1>0, <1>2 DEF Return, Calling
  <2>3. \A r \in Sessions : r # s => ~SetSyncBarrier(r) /\ ~SendData(r) /\ ~Close(r)
    BY <1>0, <2>2, ReturnsOnce
  <2> QED  BY <1>2, <2>1, <2>3 DEF MadeStep
<1>3. ASSUME NEW s \in Sessions, Application(s) PROVE MadeStep
  <2>1. CASE SetSyncBarrier(s) \/ SendData(s) \/ Close(s)
    <3>1. ~Returned(s) /\ Return(s) /\ UNCHANGED setup
      BY <2>1 DEF SetSyncBarrier, SendData, Close, Makes
    <3> QED  BY <1>2, <2>1, <3>1
  <2>2. CASE WaitForSync(s)
    <3>1. /\ ~Returned(s) /\ UNCHANGED setup /\ Call(s).op = "wait_for_sync"
          /\ IF sync_flag[s] THEN Return(s) ELSE UNCHANGED pc
      BY <2>2 DEF WaitForSync, Makes
    <3>2. CASE sync_flag[s]
      BY <1>2, <3>1, <3>2 DEF WaitOver
    <3> QED  BY <1>1, <3>1, <3>2
  <2> QED  BY <1>3, <2>1, <2>2 DEF Application
<1>4. ASSUME NEW s \in Sessions, SpuriousWakeup(s) \/ Terminate(s) \/ StopProcess(s)
      PROVE  MadeStep
  BY <1>1, <1>4 DEF SpuriousWakeup, Terminate, StopProcess, app
<1>5. ASSUME NEW e \in Ends, Pool(e) \/ ExecuteRead(e) \/ BadCompletion(e) \/ DestroyEndpoint(e)
      PROVE  MadeStep
  BY <1>1, <1>5 DEF Pool, RunTask, ReadData, ExecuteRead, BadCompletion, DestroyEndpoint, app
<1>6. ASSUME NEW e \in Ends, Handlers(e) PROVE MadeStep
  <2>1. CASE ProcessSyncAck(e) /\ waiting[SessionOf[e]]
    <3> DEFINE s == SessionOf[e]
    <3>1. s \in Sessions /\ ~Returned(s) /\ Call(s).op = "wait_for_sync"
      BY <1>0, <2>1, EndFacts DEF Calling
    <3>2. Return(s) /\ UNCHANGED setup
      BY <2>1 DEF ProcessSyncAck, Wake
    <3>3. WaitOver(s)
      BY <2>1, <3>1 DEF WaitOver
    <3> QED  BY <1>2, <3>1, <3>2, <3>3
  <2>2. CASE ~(ProcessSyncAck(e) /\ waiting[SessionOf[e]])
    BY <1>1, <1>6, <2>2 DEF Handlers, ProcessAck, ProcessSyncRequest, ProcessReadRequest,
       ProcessReadSuccess, ProcessReadOver, ProcessClose, ProcessCloseAck,
       ProcessCloseTerminate, ProcessSyncAck, app
  <2> QED  BY <2>1, <2>2
<1>7. CASE UNCHANGED vars
  BY <1>1, <1>7 DEF vars, app
<1> QED  BY <1>3, <1>4, <1>5, <1>6, <1>7 DEF Next

\* The counters of an end, and the flag of a session.
CountStep == \A g \in Ends :
    \/ total'[g] = total[g] /\ target'[g] = target[g]
    \/ /\ ProcessSyncRequest(g) /\ total'[g] = 0 /\ target'[g] = Received(g).size
       /\ Received(g).type = "SYNC_REQUEST" /\ net[Peer[g]] # <<>>
    \/ /\ ProcessReadSuccess(g) /\ target'[g] = target[g]
       /\ total'[g] = total[g] + Size[Head(read_cqes[g])]

FlagStep ==
    /\ \A s \in Sessions :
         /\ sync_flag[s] /\ ~SetSyncBarrier(s) => sync_flag'[s]
         /\ SetSyncBarrier(s) => ~sync_flag'[s]
         /\ sync_flag'[s] => \/ sync_flag[s]
                             \/ \E e \in Ends : SessionOf[e] = s /\ ProcessSyncAck(e)
    /\ \A e \in Ends : ProcessSyncAck(e) => sync_flag'[SessionOf[e]]

LEMMA CountSteps == ASSUME IInv, [Next]_vars PROVE CountStep
<1>1. total \in [Ends -> Nat] /\ target \in [Ends -> Nat]
  BY DEF IInv, Control
<1>2. ASSUME UNCHANGED count PROVE CountStep
  BY <1>2 DEF CountStep, count
<1>3. ASSUME NEW e \in Ends, ProcessSyncRequest(e) PROVE CountStep
  <2>1. CASE Dropped(e)
    BY <1>2, <1>3, <2>1 DEF ProcessSyncRequest
  <2>2. CASE ~Dropped(e)
    BY <1>1, <1>3, <2>2 DEF ProcessSyncRequest, CountStep, Receives, Received
  <2> QED  BY <2>1, <2>2
<1>4. ASSUME NEW e \in Ends, ProcessReadSuccess(e) PROVE CountStep
  BY <1>1, <1>4 DEF ProcessReadSuccess, CountStep
<1>5. ASSUME NEW s \in Sessions,
             Application(s) \/ SpuriousWakeup(s) \/ Terminate(s) \/ StopProcess(s)
      PROVE  CountStep
  BY <1>2, <1>5 DEF Application, SetSyncBarrier, SendData, WaitForSync, Close,
     SpuriousWakeup, Terminate, StopProcess
<1>6. ASSUME NEW e \in Ends, Pool(e) \/ ExecuteRead(e) \/ BadCompletion(e) \/ DestroyEndpoint(e)
      PROVE  CountStep
  BY <1>2, <1>6 DEF Pool, RunTask, ReadData, ExecuteRead, BadCompletion, DestroyEndpoint
<1>7. ASSUME NEW e \in Ends, Handlers(e), ~ProcessSyncRequest(e), ~ProcessReadSuccess(e)
      PROVE  CountStep
  BY <1>2, <1>7 DEF Handlers, ProcessAck, ProcessReadRequest, ProcessReadOver, ProcessClose,
     ProcessCloseAck, ProcessCloseTerminate, ProcessSyncAck
<1>8. CASE UNCHANGED vars
  BY <1>2, <1>8 DEF vars
<1> QED  BY <1>3, <1>4, <1>5, <1>6, <1>7, <1>8 DEF Next

LEMMA FlagSteps == ASSUME IInv, [Next]_vars PROVE FlagStep
<1>1. sync_flag \in [Sessions -> BOOLEAN] /\ Calling
  BY DEF IInv, Control
<1>2. \A s \in Sessions : SetSyncBarrier(s) => ~sync_flag'[s]
  BY <1>1, Zenon DEF SetSyncBarrier
<1>3. \A e \in Ends : ProcessSyncAck(e) => sync_flag'[SessionOf[e]]
  BY <1>1, EndFacts, Zenon DEF ProcessSyncAck
<1>4. ASSUME UNCHANGED sync_flag PROVE FlagStep
  BY <1>2, <1>3, <1>4 DEF FlagStep
<1>5. ASSUME NEW s \in Sessions, SetSyncBarrier(s) PROVE FlagStep
  <2>1. \A r \in Sessions : r # s => sync_flag'[r] = sync_flag[r]
    BY <1>1, <1>5, Zenon DEF SetSyncBarrier
  <2> QED  BY <1>2, <1>3, <1>5, <2>1 DEF FlagStep
<1>6. ASSUME NEW e \in Ends, ProcessSyncAck(e) PROVE FlagStep
  <2>1. \A r \in Sessions : r # SessionOf[e] => sync_flag'[r] = sync_flag[r]
    BY <1>1, <1>6, EndFacts, Zenon DEF ProcessSyncAck
  <2> QED  BY <1>2, <1>3, <1>6, <2>1 DEF FlagStep
<1>7. ASSUME NEW s \in Sessions, ~SetSyncBarrier(s),
             Application(s) \/ SpuriousWakeup(s) \/ Terminate(s) \/ StopProcess(s)
      PROVE  FlagStep
  BY <1>4, <1>7 DEF Application, SendData, WaitForSync, Close, SpuriousWakeup, Terminate,
     StopProcess, app
<1>8. ASSUME NEW e \in Ends, Pool(e) \/ ExecuteRead(e) \/ BadCompletion(e) \/ DestroyEndpoint(e)
      PROVE  FlagStep
  BY <1>4, <1>8 DEF Pool, RunTask, ReadData, ExecuteRead, BadCompletion, DestroyEndpoint, app
<1>9. ASSUME NEW e \in Ends, Handlers(e), ~ProcessSyncAck(e) PROVE FlagStep
  BY <1>4, <1>9 DEF Handlers, ProcessAck, ProcessSyncRequest, ProcessReadRequest,
     ProcessReadSuccess, ProcessReadOver, ProcessClose, ProcessCloseAck,
     ProcessCloseTerminate, app
<1>10. CASE UNCHANGED vars
  BY <1>4, <1>10 DEF vars, app
<1> QED  BY <1>5, <1>6, <1>7, <1>8, <1>9, <1>10 DEF Next

\* A task or message is there already, or comes by a step that adds it.
LEMMA NewTask ==
    ASSUME IInv, TaskStep, NEW e \in Ends, NEW m \in Range(tasks'[e])
    PROVE  m \in Range(tasks[e]) \/ Adds(e, m)
<1>1. tasks[e] \in Seq(Messages)
  BY Typed
<1>2. CASE Part(tasks'[e], tasks[e])
  BY <1>1, <1>2, PartKeeps
<1>3. ASSUME NEW n \in Messages, Adds(e, n), tasks'[e] = Append(tasks[e], n)
      PROVE  m \in Range(tasks[e]) \/ Adds(e, m)
  <2>1. Range(tasks'[e]) = Range(tasks[e]) \cup {n}
    BY <1>1, <1>3, RangeOfAppend
  <2> QED  BY <1>3, <2>1
<1> QED  BY <1>2, <1>3 DEF TaskStep

LEMMA NewMessage ==
    ASSUME IInv, NetStep, NEW e \in Ends, NEW m \in Range(net'[e])
    PROVE  m \in Range(net[e]) \/ Posts(e, m)
<1>1. net[e] \in Seq(Messages)
  BY Typed
<1>2. CASE Part(net'[e], net[e])
  BY <1>1, <1>2, PartKeeps
<1>3. ASSUME NEW n \in Messages, Posts(e, n), net'[e] = Append(net[e], n)
      PROVE  m \in Range(net[e]) \/ Posts(e, m)
  <2>1. Range(net'[e]) = Range(net[e]) \cup {n}
    BY <1>1, <1>3, RangeOfAppend
  <2> QED  BY <1>3, <2>1
<1> QED  BY <1>2, <1>3 DEF NetStep

LEMMA SetupStays == [Next]_vars => UNCHANGED setup /\ Program' = Program
<1>1. ASSUME NEW s \in Sessions,
             Application(s) \/ SpuriousWakeup(s) \/ Terminate(s) \/ StopProcess(s)
      PROVE  UNCHANGED setup
  BY <1>1 DEF Application, SetSyncBarrier, SendData, WaitForSync, Close, SpuriousWakeup,
     Terminate, StopProcess, app
<1>2. ASSUME NEW e \in Ends, Pool(e) \/ ExecuteRead(e) \/ BadCompletion(e) \/ DestroyEndpoint(e)
      PROVE  UNCHANGED setup
  BY <1>2 DEF Pool, RunTask, ReadData, ExecuteRead, BadCompletion, DestroyEndpoint, app
<1>3. ASSUME NEW e \in Ends, Handlers(e) PROVE UNCHANGED setup
  BY <1>3 DEF Handlers, ProcessAck, ProcessSyncRequest, ProcessReadRequest,
     ProcessReadSuccess, ProcessReadOver, ProcessClose, ProcessCloseAck,
     ProcessCloseTerminate, ProcessSyncAck, app
<1> QED  BY <1>1, <1>2, <1>3 DEF Next, vars, app, Program

-----------------------------------------------------------------------------
(* Where buffers come from. *)

\* The application of e gave b to send_data there.
Asks(e, b) == \E j \in Made(SessionOf[e]) : LET call == Program[SessionOf[e]][j] IN
    call.op = "send_data" /\ call.end = e /\ call.buf = b

\* What is under way at an end was asked for, there or at its peer.
Origins == \A e \in Ends :
    /\ \A m \in Range(tasks[e]) : \/ m.type = "SYNC_REQUEST"
                                  \/ m.type = "READ_REQUEST" /\ Asks(e, m.buf)
                                  \/ m.type = "READ_OVER" /\ Asks(Peer[e], m.buf)
    /\ \A m \in Range(net[e]) : /\ m.type = "READ_REQUEST" => Asks(e, m.buf)
                                /\ m.type = "READ_OVER" => Asks(Peer[e], m.buf)
    /\ \A b \in fetches[e] \cup Range(reads[e]) \cup Range(read_cqes[e]) : Asks(Peer[e], b)

\* The peer does not have yet what it is still to read.
Fresh == \A e \in Ends :
    /\ \A m \in Range(tasks[e]) \cup Range(net[e]) :
         m.type = "READ_REQUEST" => m.buf \notin received
    /\ \A b \in fetches[e] \cup Range(reads[e]) : b \notin received

\* An application calls its own ends.
LEMMA OwnCall ==
    ASSUME Calling, NEW s \in Sessions, ~Returned(s), Call(s).op # "wait_for_sync"
    PROVE  Call(s).end \in Ends /\ SessionOf[Call(s).end] = s
<1>1. pc[s] + 1 \in 1..Len(Program[s]) /\ setup \in Setups /\ Program = setup.program
  BY ProgramType DEF Calling, Returned, Program
<1>2. SessionOf[Call(s).end] = s
  BY <1>1, OwnEndsAssumption DEF Call
<1>3. Call(s) \in Calls
  BY CallType
<1> QED  BY <1>2, <1>3 DEF Calls

LEMMA AsksStays ==
    ASSUME MadeStep, Program' = Program, NEW e \in Ends, NEW b, Asks(e, b)
    PROVE  Asks(e, b)'
<1>1. Made(SessionOf[e]) \subseteq Made(SessionOf[e])'
  BY EndFacts DEF MadeStep, Returns
<1> QED  BY <1>1 DEF Asks

LEMMA SendAsks ==
    ASSUME IInv, MadeStep, Program' = Program, NEW s \in Sessions, SendData(s),
           NEW e, e = Call(s).end, NEW b, b = Call(s).buf
    PROVE  Asks(e, b)'
<1>1. ~Returned(s) /\ Call(s).op = "send_data"
  BY DEF SendData, Makes
<1>2. SessionOf[Call(s).end] = s
  BY <1>1, OwnCall DEF IInv
<1>3. pc[s] + 1 \in Made(s)'
  BY DEF MadeStep, Returns
<1>4. Program'[s][pc[s] + 1] = Call(s)
  BY DEF Call
<1> QED  BY <1>1, <1>2, <1>3, <1>4 DEF Asks

\* The message a handler consumes is one of its peer.
LEMMA ReceivedFrom ==
    ASSUME IInv, NEW e \in Ends, net[Peer[e]] # <<>>
    PROVE  Received(e) \in Range(net[Peer[e]])
BY Typed, EndFacts, TailDrops DEF Received

LEMMA HeadCompleted ==
    ASSUME IInv, NEW e \in Ends, ProcessReadSuccess(e)
    PROVE  Head(read_cqes[e]) \in Range(read_cqes[e]) /\ Head(read_cqes[e]) \in Buffers
<1>1. read_cqes[e] \in Seq(Buffers) /\ read_cqes[e] # <<>>
  BY Typed DEF ProcessReadSuccess
<1> QED  BY <1>1, RangeOfTail, HeadTailProperties

LEMMA TaskRun ==
    ASSUME IInv, NEW e \in Ends, NEW i \in 1..Len(tasks[e])
    PROVE  tasks[e][i] \in Range(tasks[e])
BY Typed, WithoutDrops

LEMMA Types ==
    /\ \A type : Message(type).type = type
BY DEF Message

LEMMA OriginsStep ==
    ASSUME IInv, Origins, NetStep, TaskStep, PullStep, MadeStep, Program' = Program
    PROVE  Origins'
<1>0. IInv  OBVIOUS
<1>1. \A e \in Ends : Peer[e] \in Ends /\ Peer[Peer[e]] = e
  BY EndFacts
<1>2. \A e \in Ends : \A b : Asks(e, b) => Asks(e, b)'
  BY AsksStays
<1>3. ASSUME NEW e \in Ends, NEW m \in Range(tasks'[e])
      PROVE  \/ m.type = "SYNC_REQUEST"
             \/ m.type = "READ_REQUEST" /\ Asks(e, m.buf)'
             \/ m.type = "READ_OVER" /\ Asks(Peer[e], m.buf)'
  <2>1. CASE m \in Range(tasks[e])
    BY <1>1, <1>2, <2>1 DEF Origins
  <2>2. CASE Adds(e, m)
    <3>1. ASSUME NEW s \in Sessions, SendData(s), Call(s).end = e,
                 m = [type |-> "READ_REQUEST", buf |-> Call(s).buf]
          PROVE  m.type = "READ_REQUEST" /\ Asks(e, m.buf)'
      BY <3>1, SendAsks
    <3>2. ASSUME ProcessReadSuccess(e), m.buf = Head(read_cqes[e])
          PROVE  Asks(Peer[e], m.buf)'
      BY <1>1, <1>2, <3>2, HeadCompleted DEF Origins
    <3> QED  BY <2>2, <3>1, <3>2 DEF Adds
  <2>3. m \in Range(tasks[e]) \/ Adds(e, m)
    BY <1>0, <1>3, NewTask
  <2> QED  BY <2>1, <2>2, <2>3
<1>4. ASSUME NEW e \in Ends, NEW m \in Range(net'[e])
      PROVE  /\ m.type = "READ_REQUEST" => Asks(e, m.buf)'
             /\ m.type = "READ_OVER" => Asks(Peer[e], m.buf)'
  <2>1. CASE m \in Range(net[e])
    BY <1>1, <1>2, <2>1 DEF Origins
  <2>2. CASE Posts(e, m)
    <3>1. ASSUME NEW i \in 1..Len(tasks[e]), m = tasks[e][i]
          PROVE  /\ m.type = "READ_REQUEST" => Asks(e, m.buf)'
                 /\ m.type = "READ_OVER" => Asks(Peer[e], m.buf)'
      BY <1>1, <1>2, <3>1, TaskRun DEF Origins
    <3> QED  BY <2>2, <3>1, Types DEF Posts
  <2>3. m \in Range(net[e]) \/ Posts(e, m)
    BY <1>0, <1>4, NewMessage
  <2> QED  BY <2>1, <2>2, <2>3
<1>5. ASSUME NEW e \in Ends, NEW b \in fetches'[e] \cup Range(reads'[e]) \cup Range(read_cqes'[e])
      PROVE  Asks(Peer[e], b)'
  <2>1. CASE b \in fetches[e] \cup Range(reads[e]) \cup Range(read_cqes[e])
    BY <1>1, <1>2, <2>1 DEF Origins
  <2>2. CASE ProcessReadRequest(e) /\ b = Received(e).buf
    <3>1. Received(e) \in Range(net[Peer[e]]) /\ Received(e).type = "READ_REQUEST"
      BY <2>2, ReceivedFrom DEF ProcessReadRequest, Receives, Received
    <3> QED  BY <1>1, <1>2, <2>2, <3>1 DEF Origins
  <2> QED  BY <1>5, <2>1, <2>2 DEF PullStep
<1> QED  BY <1>3, <1>4, <1>5 DEF Origins

LEMMA FreshStep ==
    ASSUME SentOnce, OwnInv, OwnInv', Origins, Fresh, NetStep, TaskStep, PullStep
    PROVE  Fresh'
<1>0. IInv  BY DEF OwnInv
<1>1. \A e \in Ends : Peer[e] \in Ends /\ Peer[Peer[e]] = e
  BY EndFacts
\* What is received now is at the completions, and nowhere else.
<1>2. ASSUME NEW k \in {"task", "net", "fetch", "read"}, NEW e \in Ends,
             NEW b \in At(k, e)', b \in received'
      PROVE  b \in received
  <2>1. ASSUME NEW g \in Ends, b \in Range(read_cqes'[g]) PROVE FALSE
    <3>1. b \in At("cqe", g)' /\ "cqe" \in Kinds /\ k \in Kinds
      BY <2>1 DEF Kinds, At
    <3>2. Only(b, k, e)'
      BY <3>1 DEF OwnInv, Places, Apart
    <3>3. "cqe" = k
      BY <3>1, <3>2 DEF Only
    <3> QED  BY <3>3
  <2> QED  BY <1>2, <2>1 DEF PullStep
<1>3. ASSUME NEW e \in Ends, NEW m \in Range(tasks'[e]), m.type = "READ_REQUEST"
      PROVE  m.buf \notin received
  <2>1. CASE m \in Range(tasks[e])
    BY <1>3, <2>1 DEF Fresh
  <2>2. CASE Adds(e, m)
    <3>1. PICK s \in Sessions : SendData(s) /\ m.buf = Call(s).buf
      BY <1>3, <2>2 DEF Adds
    <3>2. Call(s).buf \notin Sent
      BY <1>0, <3>1, NewlySent DEF SendData
    <3> QED  BY <1>0, <3>1, <3>2 DEF IInv, Stages
  <2>3. m \in Range(tasks[e]) \/ Adds(e, m)
    BY <1>0, <1>3, NewTask
  <2> QED  BY <2>1, <2>2, <2>3
<1>4. ASSUME NEW e \in Ends, NEW m \in Range(net'[e]), m.type = "READ_REQUEST"
      PROVE  m.buf \notin received
  <2>1. CASE m \in Range(net[e])
    BY <1>4, <2>1 DEF Fresh
  <2>2. CASE Posts(e, m)
    <3>1. PICK i \in 1..Len(tasks[e]) : m = tasks[e][i]
      BY <1>4, <2>2, Types DEF Posts
    <3> QED  BY <1>0, <1>4, <3>1, TaskRun DEF Fresh
  <2>3. m \in Range(net[e]) \/ Posts(e, m)
    BY <1>0, <1>4, NewMessage
  <2> QED  BY <2>1, <2>2, <2>3
<1>5. ASSUME NEW e \in Ends, NEW b \in fetches'[e] \cup Range(reads'[e])
      PROVE  b \notin received
  <2>1. CASE b \in fetches[e] \cup Range(reads[e])
    BY <2>1 DEF Fresh
  <2>2. CASE ProcessReadRequest(e) /\ b = Received(e).buf
    <3>1. Received(e) \in Range(net[Peer[e]]) /\ Received(e).type = "READ_REQUEST"
      BY <1>0, <2>2, ReceivedFrom DEF ProcessReadRequest, Receives, Received
    <3> QED  BY <1>1, <2>2, <3>1 DEF Fresh
  <2> QED  BY <1>5, <2>1, <2>2 DEF PullStep
<1>6. ASSUME NEW e \in Ends
      PROVE  /\ At("task", e)' = Carried(tasks'[e]) /\ At("net", e)' = Carried(net'[e])
             /\ At("fetch", e)' = fetches'[e] /\ At("read", e)' = Range(reads'[e])
  BY DEF At
<1>7. ASSUME NEW e \in Ends, NEW m \in Range(tasks'[e]) \cup Range(net'[e]),
             m.type = "READ_REQUEST"
      PROVE  m.buf \notin received'
  <2>1. m.buf \in At("task", e)' \/ m.buf \in At("net", e)'
    BY <1>6, <1>7 DEF Carried, Carries
  <2>2. m.buf \notin received
    BY <1>3, <1>4, <1>7
  <2> QED  BY <1>2, <2>1, <2>2
<1>8. ASSUME NEW e \in Ends, NEW b \in fetches'[e] \cup Range(reads'[e])
      PROVE  b \notin received'
  <2>1. b \in At("fetch", e)' \/ b \in At("read", e)'
    BY <1>6, <1>8
  <2> QED  BY <1>2, <1>5, <1>8, <2>1
<1> QED  BY <1>7, <1>8 DEF Fresh

-----------------------------------------------------------------------------
(* Sizes of sets of buffers. *)

LEMMA OneBuffer ==
    ASSUME NEW b \in Buffers
    PROVE  /\ IsFiniteSet({b} \X (1..Size[b]))
           /\ Cardinality({b} \X (1..Size[b])) = Size[b]
           /\ Size[b] \in Nat \ {0}
<1>1. Size[b] \in Nat \ {0}
  BY SizeAssumption
<1>2. IsFiniteSet(1..Size[b]) /\ Cardinality(1..Size[b]) = Size[b]
  BY <1>1, FS_Interval
<1>3. IsFiniteSet({b}) /\ Cardinality({b}) = 1
  BY FS_Singleton
<1>4. /\ IsFiniteSet({b} \X (1..Size[b]))
      /\ Cardinality({b} \X (1..Size[b])) = 1 * Size[b]
  BY <1>2, <1>3, FS_Product
<1> QED  BY <1>1, <1>4

LEMMA BytesFinite ==
    ASSUME NEW S, S \subseteq Buffers, IsFiniteSet(S)
    PROVE  IsFiniteSet(Bytes(S)) /\ DataSize(S) \in Nat
<1> DEFINE part == [b \in S |-> {b} \X (1..Size[b])]
           T == {part[b] : b \in S}
<1>1. part \in Surjection(S, T)
  BY DEF Surjection
<1>2. IsFiniteSet(T)
  BY <1>1, FS_Surjection
<1>3. \A x \in T : IsFiniteSet(x)
  BY OneBuffer
<1>4. IsFiniteSet(UNION T)
  BY <1>2, <1>3, FS_UNION
<1>5. UNION T = Bytes(S)
  BY DEF Bytes
<1> QED  BY <1>4, <1>5, FS_CardinalityType DEF DataSize

LEMMA DataSizeGrows ==
    ASSUME NEW T, T \subseteq Buffers, IsFiniteSet(T), NEW S, S \subseteq T
    PROVE  /\ DataSize(S) \in Nat /\ DataSize(T) \in Nat
           /\ DataSize(S) <= DataSize(T)
           /\ DataSize(S) >= DataSize(T) => S = T
<1>1. IsFiniteSet(S)
  BY FS_Subset
<1>2. IsFiniteSet(Bytes(T)) /\ DataSize(T) \in Nat /\ DataSize(S) \in Nat
  BY <1>1, BytesFinite
<1>3. Bytes(S) \subseteq Bytes(T)
  BY DEF Bytes
<1>4. /\ Cardinality(Bytes(S)) <= Cardinality(Bytes(T))
      /\ Cardinality(Bytes(T)) = Cardinality(Bytes(S)) => Bytes(T) = Bytes(S)
  BY <1>2, <1>3, FS_Subset
<1>5. ASSUME Bytes(T) = Bytes(S), NEW b \in T PROVE b \in S
  <2>0. b \in Buffers /\ Size[b] \in Nat \ {0}
    BY OneBuffer
  <2>1. 1 \in 1..Size[b]
    BY <2>0
  <2>2. <<b, 1>> \in Bytes(S)
    BY <1>5, <2>1 DEF Bytes
  <2> QED  BY <2>2 DEF Bytes
<1> QED  BY <1>2, <1>4, <1>5 DEF DataSize

LEMMA DataSizeAdds ==
    ASSUME NEW S, S \subseteq Buffers, IsFiniteSet(S), NEW b \in Buffers, b \notin S
    PROVE  DataSize(S \cup {b}) = DataSize(S) + Size[b]
<1> DEFINE B == {b} \X (1..Size[b])
<1>1. IsFiniteSet(B) /\ Cardinality(B) = Size[b] /\ Size[b] \in Nat
  BY OneBuffer
<1>2. IsFiniteSet(Bytes(S)) /\ DataSize(S) \in Nat
  BY BytesFinite
<1>3. Bytes(S \cup {b}) = Bytes(S) \cup B
  BY DEF Bytes
<1>4. Bytes(S) \cap B = {}
  BY DEF Bytes
<1> HIDE DEF B
<1>5. Cardinality(Bytes(S) \cup B)
        = Cardinality(Bytes(S)) + Cardinality(B) - Cardinality(Bytes(S) \cap B)
  BY <1>1, <1>2, FS_Union
<1>6. Cardinality(Bytes(S) \cap B) = 0
  BY <1>4, FS_EmptySet
<1>7. DataSize(S) = Cardinality(Bytes(S)) /\ DataSize(S \cup {b}) = Cardinality(Bytes(S) \cup B)
  BY <1>3 DEF DataSize
<1> QED  BY <1>1, <1>2, <1>5, <1>6, <1>7

LEMMA RoundFinite ==
    ASSUME Calling, NEW s \in Sessions, NEW i \in Nat
    PROVE  /\ RoundBuffers(Program[s], i) \subseteq Buffers
           /\ IsFiniteSet(RoundBuffers(Program[s], i))
<1> DEFINE p == Program[s]
           R == RoundOf(p, i)
           buf == [j \in R |-> p[j].buf]
<1>1. /\ Len(p) \in Nat
      /\ \A j \in 1..Len(p) : p[j] \in Calls
  BY ProgramType
<1>2. \A j \in R : j \in 1..Len(p) /\ p[j].op = "send_data"
  BY <1>1 DEF RoundOf
<1>3. \A j \in R : p[j].buf \in Buffers
  BY <1>1, <1>2 DEF Calls
<1>4. R \in SUBSET (1..Len(p))
  BY <1>2
<1>5. IsFiniteSet(R)
  <2>1. IsFiniteSet(1..Len(p))
    BY <1>1, FS_Interval
  <2> QED  BY <1>4, <2>1, FS_Subset
<1>6. buf \in Surjection(R, RoundBuffers(p, i))
  BY DEF Surjection, RoundBuffers
<1>7. IsFiniteSet(RoundBuffers(p, i))
  BY <1>5, <1>6, FS_Surjection
<1> QED  BY <1>3, <1>7 DEF RoundBuffers

-----------------------------------------------------------------------------
(* The token of a barrier. *)

\* Where the barrier set at e may be: in a task, in a message, in the counters of
\* the peer while its data arrives, in the SYNC_ACK.
TokenKinds == {"task", "net", "armed", "ack"}
Token(k, e) ==
    CASE k = "task"  -> Holds("SYNC_REQUEST", tasks[e])
      [] k = "net"   -> Holds("SYNC_REQUEST", net[e])
      [] k = "armed" -> total[Peer[e]] < target[Peer[e]]
      [] k = "ack"   -> Holds("SYNC_ACK", net[Peer[e]])

\* A session has at most one, and none once sync_flag is set.
Tokens ==
    /\ \A e, f \in Ends : \A k, l \in TokenKinds :
         SessionOf[e] = SessionOf[f] /\ Token(k, e) /\ Token(l, f) => k = l /\ e = f
    /\ \A e \in Ends : /\ Few("SYNC_REQUEST", tasks[e])
                       /\ Few("SYNC_REQUEST", net[e])
                       /\ Few("SYNC_ACK", net[e])
    /\ \A e \in Ends : \A k \in TokenKinds : sync_flag[SessionOf[e]] => ~Token(k, e)

\* The step that moves the token of e to k, from where it is now.
Moved(k, e) ==
    \/ k = "net" /\ \E i \in 1..Len(tasks[e]) :
         RunTask(e, i) /\ tasks[e][i].type = "SYNC_REQUEST"
    \/ k = "armed" /\ ProcessSyncRequest(Peer[e])
    \/ k = "ack" /\ ProcessReadSuccess(Peer[e])
                 /\ SyncTargetGet(Peer[e], Head(read_cqes[Peer[e]]))
Earlier(k) == CASE k = "net" -> "task" [] k = "armed" -> "net" [] k = "ack" -> "armed"

TokenSet(e) == SetSyncBarrier(SessionOf[e]) /\ Call(SessionOf[e]).end = e

LEMMA TokenMoves ==
    ASSUME IInv, Origins, NetStep, TaskStep, CountStep,
           NEW e \in Ends, NEW k \in TokenKinds, Token(k, e)'
    PROVE  Token(k, e) \/ Moved(k, e) \/ (k = "task" /\ TokenSet(e))
<1>0. Peer[e] \in Ends  BY EndFacts
<1>1. CASE k = "task"
  <2>1. PICK m \in Range(tasks'[e]) : m.type = "SYNC_REQUEST"
    BY <1>1 DEF Token, Holds
  <2>2. CASE m \in Range(tasks[e])
    BY <1>1, <2>1, <2>2 DEF Token, Holds
  <2>3. CASE Adds(e, m)
    <3>1. PICK s \in Sessions : SetSyncBarrier(s) /\ Call(s).end = e
      BY <2>1, <2>3 DEF Adds
    <3>2. SessionOf[e] = s
      BY <3>1, OwnCall DEF SetSyncBarrier, Makes, IInv
    <3> QED  BY <1>1, <3>1, <3>2 DEF TokenSet
  <2> QED  BY <2>2, <2>3, NewTask
<1>2. CASE k = "net"
  <2>1. PICK m \in Range(net'[e]) : m.type = "SYNC_REQUEST"
    BY <1>2 DEF Token, Holds
  <2>2. CASE m \in Range(net[e])
    BY <1>2, <2>1, <2>2 DEF Token, Holds
  <2>3. CASE Posts(e, m)
    BY <1>2, <2>1, <2>3, Types DEF Posts, Moved
  <2> QED  BY <2>2, <2>3, NewMessage
<1>3. CASE k = "armed"
  <2>1. total'[Peer[e]] < target'[Peer[e]]
    BY <1>3 DEF Token
  <2>2. CASE ProcessReadSuccess(Peer[e]) /\ target'[Peer[e]] = target[Peer[e]]
             /\ total'[Peer[e]] = total[Peer[e]] + Size[Head(read_cqes[Peer[e]])]
    <3>1. Size[Head(read_cqes[Peer[e]])] \in Nat
      BY <1>0, <2>2, HeadCompleted, OneBuffer
    <3>2. total[Peer[e]] \in Nat /\ target[Peer[e]] \in Nat
      BY <1>0 DEF IInv, Control
    <3> QED  BY <1>3, <2>1, <2>2, <3>1, <3>2 DEF Token
  <2> QED  BY <1>0, <1>3, <2>1, <2>2 DEF CountStep, Token, Moved
<1>4. CASE k = "ack"
  <2>1. PICK m \in Range(net'[Peer[e]]) : m.type = "SYNC_ACK"
    BY <1>4 DEF Token, Holds
  <2>2. CASE m \in Range(net[Peer[e]])
    BY <1>4, <2>1, <2>2 DEF Token, Holds
  <2>3. CASE Posts(Peer[e], m)
    <3>1. ASSUME NEW i \in 1..Len(tasks[Peer[e]]), m = tasks[Peer[e]][i]
          PROVE  FALSE
      <4>1. m \in Range(tasks[Peer[e]])
        BY <1>0, <3>1, TaskRun
      <4> QED  BY <1>0, <2>1, <4>1 DEF Origins
    <3> QED  BY <1>4, <2>1, <2>3, <3>1, Types DEF Posts, Moved
  <2> QED  BY <1>0, <2>2, <2>3, NewMessage
<1> QED  BY <1>1, <1>2, <1>3, <1>4 DEF TokenKinds

\* A token that is moved was at its earlier place, and is there no more.
LEMMA MovedFrom ==
    ASSUME IInv, Tokens, NEW e \in Ends, NEW k \in TokenKinds, Moved(k, e)
    PROVE  /\ Earlier(k) \in TokenKinds /\ Earlier(k) # k
           /\ Token(Earlier(k), e) /\ ~Token(Earlier(k), e)'
<1>0. /\ Peer[e] \in Ends /\ Peer[Peer[e]] = e
      /\ tasks \in [Ends -> Seq(Messages)] /\ net \in [Ends -> Seq(Messages)]
      /\ total \in [Ends -> Nat] /\ target \in [Ends -> Nat]
  BY EndFacts, Typed DEF IInv, Control
<1>1. CASE k = "net"
  <2>1. PICK i \in 1..Len(tasks[e]) : RunTask(e, i) /\ tasks[e][i].type = "SYNC_REQUEST"
    BY <1>1 DEF Moved
  <2>2. tasks'[e] = Without(tasks[e], i)
    BY <1>0, <2>1 DEF RunTask
  <2>3. Few("SYNC_REQUEST", tasks[e]) /\ tasks[e] \in Seq(Messages)
    BY <1>0 DEF Tokens
  <2>4. tasks[e][i] \in Range(tasks[e]) /\ ~Holds("SYNC_REQUEST", tasks'[e])
    BY <2>1, <2>2, <2>3, WithoutDrops
  <2>5. Holds("SYNC_REQUEST", tasks[e])
    BY <2>1, <2>4 DEF Holds
  <2> QED  BY <1>1, <2>4, <2>5 DEF Earlier, Token, TokenKinds
<1>2. CASE k = "armed"
  <2>1. /\ net[e] # <<>> /\ Head(net[e]).type = "SYNC_REQUEST"
        /\ Answer(Peer[e], <<>>) \/ Answer(Peer[e], <<Message("ACK")>>)
    BY <1>0, <1>2 DEF Moved, ProcessSyncRequest, Receives
  <2>2. net'[e] = Tail(net[e])
    BY <1>0, <2>1, AnswerParts, Bare
  <2>3. Few("SYNC_REQUEST", net[e]) /\ net[e] \in Seq(Messages)
    BY <1>0 DEF Tokens
  <2>4. Head(net[e]) \in Range(net[e]) /\ ~Holds("SYNC_REQUEST", net'[e])
    BY <2>1, <2>2, <2>3, TailDrops
  <2>5. Holds("SYNC_REQUEST", net[e])
    BY <2>1, <2>4 DEF Holds
  <2> QED  BY <1>2, <2>4, <2>5 DEF Earlier, Token, TokenKinds
<1>3. CASE k = "ack"
  <2> DEFINE f == Peer[e]
             b == Head(read_cqes[f])
  <2>1. ProcessReadSuccess(f) /\ total[f] + Size[b] = target[f]
    BY <1>3 DEF Moved, SyncTargetGet
  <2>2. Size[b] \in Nat \ {0}
    BY <1>0, <2>1, HeadCompleted, OneBuffer
  <2>3. total[f] < target[f]
    BY <1>0, <2>1, <2>2
  <2>4. total'[f] = target'[f] /\ target'[f] \in Nat
    BY <1>0, <2>1 DEF ProcessReadSuccess
  <2>5. ~(total'[f] < target'[f])
    BY <2>4
  <2> QED  BY <1>3, <2>3, <2>5 DEF Earlier, Token, TokenKinds
<1> QED  BY <1>1, <1>2, <1>3 DEF Moved

\* The SYNC_ACK that is handled is gone.
LEMMA TokenOver ==
    ASSUME IInv, Tokens, NEW e \in Ends, ProcessSyncAck(e)
    PROVE  Token("ack", e) /\ ~Token("ack", e)'
<1>1. /\ Peer[e] \in Ends /\ net[Peer[e]] \in Seq(Messages) /\ net \in [Ends -> Seq(Messages)]
      /\ Few("SYNC_ACK", net[Peer[e]])
  BY EndFacts, Typed DEF Tokens
<1>2. /\ net[Peer[e]] # <<>> /\ Head(net[Peer[e]]).type = "SYNC_ACK" /\ Answer(e, <<>>)
  BY DEF ProcessSyncAck, Receives
<1>3. net'[Peer[e]] = Tail(net[Peer[e]])
  BY <1>1, <1>2, AnswerParts, Bare
<1>4. Head(net[Peer[e]]) \in Range(net[Peer[e]]) /\ ~Holds("SYNC_ACK", net'[Peer[e]])
  BY <1>1, <1>2, <1>3, TailDrops
<1>5. Holds("SYNC_ACK", net[Peer[e]])
  BY <1>2, <1>4 DEF Holds
<1> QED  BY <1>4, <1>5 DEF Token

\* No barrier of s is under way.
NoToken(s) == \A e \in Ends : \A k \in TokenKinds : SessionOf[e] = s => ~Token(k, e)

LEMMA TokensStep ==
    ASSUME IInv, Origins, Tokens, NetStep, TaskStep, CountStep, FlagStep,
           \A s \in Sessions : SetSyncBarrier(s) => NoToken(s)
    PROVE  Tokens'
\* Where the token of e was, unless it is new.
<1>1. ASSUME NEW e \in Ends, NEW k \in TokenKinds, Token(k, e)', ~SetSyncBarrier(SessionOf[e])
      PROVE  \/ Token(k, e)
             \/ /\ Earlier(k) \in TokenKinds /\ Token(Earlier(k), e) /\ ~Token(Earlier(k), e)'
                /\ Moved(k, e)
  BY <1>1, TokenMoves, MovedFrom DEF TokenSet
<1>2. ASSUME NEW e \in Ends, NEW k \in TokenKinds, Token(k, e)', SetSyncBarrier(SessionOf[e])
      PROVE  k = "task" /\ e = Call(SessionOf[e]).end
  BY <1>2, TokenMoves, MovedFrom, EndFacts DEF TokenSet, NoToken
<1>3. ASSUME NEW e \in Ends, NEW f \in Ends, NEW k \in TokenKinds, NEW l \in TokenKinds,
             SessionOf[e] = SessionOf[f], Token(k, e)', Token(l, f)'
      PROVE  k = l /\ e = f
  <2>1. CASE SetSyncBarrier(SessionOf[e])
    BY <1>2, <1>3, <2>1
  <2>2. CASE ~SetSyncBarrier(SessionOf[e])
    <3>1. PICK k0 \in TokenKinds : /\ Token(k0, e)
                                   /\ k0 # k => /\ k0 = Earlier(k) /\ Moved(k, e)
                                               /\ ~Token(k0, e)'
      BY <1>1, <1>3, <2>2
    <3>2. PICK l0 \in TokenKinds : /\ Token(l0, f)
                                   /\ l0 # l => /\ l0 = Earlier(l) /\ Moved(l, f)
                                               /\ ~Token(l0, f)'
      BY <1>1, <1>3, <2>2
    <3>3. k0 = l0 /\ e = f
      BY <1>3, <3>1, <3>2 DEF Tokens
    <3>4. CASE k0 = k
      BY <1>3, <3>2, <3>3, <3>4
    <3>5. CASE l0 = l
      BY <1>3, <3>1, <3>3, <3>5
    <3>6. CASE k0 # k /\ l0 # l
      <4>1. Earlier(k) = Earlier(l) /\ Moved(k, e) /\ Moved(l, e)
        BY <3>1, <3>2, <3>3, <3>6
      <4>2. k \in {"net", "armed", "ack"} /\ l \in {"net", "armed", "ack"}
        BY <4>1 DEF Moved
      <4> QED  BY <3>3, <4>1, <4>2 DEF Earlier
    <3> QED  BY <3>4, <3>5, <3>6
  <2> QED  BY <2>1, <2>2
<1>4. /\ tasks \in [Ends -> Seq(Messages)] /\ net \in [Ends -> Seq(Messages)]
  BY Typed
<1>5. ASSUME NEW e \in Ends
      PROVE  Few("SYNC_REQUEST", tasks'[e])
  <2>1. Few("SYNC_REQUEST", tasks[e]) /\ tasks[e] \in Seq(Messages)
    BY <1>4 DEF Tokens
  <2>2. ASSUME NEW m \in Messages, Adds(e, m), m.type = "SYNC_REQUEST"
        PROVE  ~Holds("SYNC_REQUEST", tasks[e])
    <3>1. PICK s \in Sessions : SetSyncBarrier(s) /\ Call(s).end = e
      BY <2>2 DEF Adds
    <3>2. SessionOf[e] = s
      BY <3>1, OwnCall DEF SetSyncBarrier, Makes, IInv
    <3> QED  BY <3>1, <3>2 DEF NoToken, Token, TokenKinds
  <2>3. CASE Part(tasks'[e], tasks[e])
    BY <2>1, <2>3, PartFew
  <2>4. ASSUME NEW m \in Messages, Adds(e, m), tasks'[e] = Append(tasks[e], m)
        PROVE  Few("SYNC_REQUEST", tasks'[e])
    BY <2>1, <2>2, <2>4, AppendFew
  <2> QED  BY <2>3, <2>4 DEF TaskStep
<1>6. ASSUME NEW e \in Ends
      PROVE  Few("SYNC_REQUEST", net'[e]) /\ Few("SYNC_ACK", net'[e])
  <2>1. /\ Few("SYNC_REQUEST", net[e]) /\ Few("SYNC_ACK", net[e])
        /\ net[e] \in Seq(Messages) /\ Peer[e] \in Ends /\ Peer[Peer[e]] = e
    BY <1>4, EndFacts DEF Tokens
  <2>2. ASSUME NEW m \in Messages, Posts(e, m), m.type = "SYNC_REQUEST"
        PROVE  ~Holds("SYNC_REQUEST", net[e])
    <3>1. Moved("net", e) /\ "net" \in TokenKinds
      BY <2>2, Types DEF Posts, Moved, TokenKinds
    <3>2. ~Token("net", e)
      BY <3>1, MovedFrom DEF Tokens
    <3> QED  BY <3>2 DEF Token
  <2>3. ASSUME NEW m \in Messages, Posts(e, m), m.type = "SYNC_ACK"
        PROVE  ~Holds("SYNC_ACK", net[e])
    <3>1. Moved("ack", Peer[e]) /\ "ack" \in TokenKinds
      <4>1. ASSUME NEW i \in 1..Len(tasks[e]), m = tasks[e][i]
            PROVE  FALSE
        <5>1. m \in Range(tasks[e])
          BY <4>1, TaskRun
        <5> QED  BY <2>3, <5>1 DEF Origins
      <4> QED  BY <2>1, <2>3, <4>1, Types DEF Posts, Moved, TokenKinds
    <3>2. ~Token("ack", Peer[e])
      BY <2>1, <3>1, MovedFrom DEF Tokens
    <3> QED  BY <2>1, <3>2 DEF Token
  <2>4. CASE Part(net'[e], net[e])
    BY <2>1, <2>4, PartFew
  <2>5. ASSUME NEW m \in Messages, Posts(e, m), net'[e] = Append(net[e], m)
        PROVE  Few("SYNC_REQUEST", net'[e]) /\ Few("SYNC_ACK", net'[e])
    BY <2>1, <2>2, <2>3, <2>5, AppendFew
  <2> QED  BY <2>4, <2>5 DEF NetStep
<1>7. ASSUME NEW e \in Ends, NEW k \in TokenKinds, sync_flag'[SessionOf[e]], Token(k, e)'
      PROVE  FALSE
  <2>1. ~SetSyncBarrier(SessionOf[e])
    BY <1>7, EndFacts DEF FlagStep
  <2>2. PICK k0 \in TokenKinds : /\ Token(k0, e)
                                 /\ k0 # k => /\ k0 = Earlier(k) /\ Moved(k, e)
                                             /\ ~Token(k0, e)'
    BY <1>1, <1>7, <2>1
  <2>3. CASE sync_flag[SessionOf[e]]
    BY <2>2, <2>3 DEF Tokens
  <2>4. ASSUME NEW g \in Ends, SessionOf[g] = SessionOf[e], ProcessSyncAck(g)
        PROVE  FALSE
    <3>1. Token("ack", g) /\ ~Token("ack", g)' /\ "ack" \in TokenKinds
      BY <2>4, TokenOver DEF TokenKinds
    <3>2. k0 = "ack" /\ g = e
      BY <2>2, <2>4, <3>1 DEF Tokens
    <3>3. k # "ack"
      BY <1>7, <3>1, <3>2
    <3> QED  BY <2>2, <3>2, <3>3 DEF Moved, Earlier
  <2> QED  BY <1>7, <2>3, <2>4, EndFacts DEF FlagStep
<1> QED  BY <1>3, <1>5, <1>6, <1>7 DEF Tokens

-----------------------------------------------------------------------------
(* The data of a barrier. *)

\* The buffers whose data the peer has counted.
Counted == received \ UNION {Range(read_cqes[e]) : e \in Ends}

\* Call i of s is the last barrier it has set.
BarrierAt(s, i) ==
    /\ i \in Made(s)
    /\ Program[s][i].op = "set_sync_barrier"
    /\ \A k \in Made(s) : Program[s][k].op = "set_sync_barrier" => k <= i

\* The token of e is about the barrier of call i.
About(k, e, i) ==
    LET call == Program[SessionOf[e]][i]
        sent == RoundBuffers(Program[SessionOf[e]], i) IN
    CASE k = "task"  -> \A m \in Range(tasks[e]) : m.type = "SYNC_REQUEST" => m.size = call.size
      [] k = "net"   -> \A m \in Range(net[e]) : m.type = "SYNC_REQUEST" => m.size = call.size
      [] k = "armed" -> /\ target[Peer[e]] = call.size
                        /\ total[Peer[e]] <= DataSize(sent \cap Counted)
      [] k = "ack"   -> sent \subseteq Counted

\* A token is about the last barrier; with SYNC_ACK its data has been counted.
Rounds ==
    /\ \A e \in Ends : \A k \in TokenKinds : Token(k, e) =>
         \E i \in Nat : BarrierAt(SessionOf[e], i) /\ About(k, e, i)
    /\ \A s \in Sessions : sync_flag[s] =>
         \E i \in Nat : BarrierAt(s, i) /\ RoundBuffers(Program[s], i) \subseteq Counted

\* A wait after the last barrier returned on the flag, which is still set; when a
\* wait has returned, what was sent before it has been counted.
Waited == \A s \in Sessions : \A w \in Made(s) : Program[s][w].op = "wait_for_sync" =>
    /\ (\A i \in Made(s) : Program[s][i].op = "set_sync_barrier" => i < w) => sync_flag[s]
    /\ \A j \in 1..w : Program[s][j].op = "send_data" => Program[s][j].buf \in Counted

LEMMA MadeCalls ==
    ASSUME IInv, NEW s \in Sessions
    PROVE  /\ pc[s] \in Nat /\ Len(Program[s]) \in Nat /\ pc[s] <= Len(Program[s])
           /\ Made(s) = 1..pc[s]
BY ProgramType DEF IInv, Calling, Made

LEMMA BarrierUnique ==
    ASSUME IInv, NEW s \in Sessions, NEW i, BarrierAt(s, i), NEW j, BarrierAt(s, j)
    PROVE  i = j
BY MadeCalls DEF BarrierAt

LEMMA BarrierStays ==
    ASSUME IInv, MadeStep, Program' = Program, NEW s \in Sessions, ~SetSyncBarrier(s),
           NEW i, BarrierAt(s, i)
    PROVE  BarrierAt(s, i)'
<1>1. CASE Made(s)' = Made(s)
  BY <1>1 DEF BarrierAt
<1>2. CASE Returns(s) /\ (SendData(s) \/ Close(s) \/ WaitOver(s))
  <2>1. Made(s)' = Made(s) \cup {pc[s] + 1}
    BY <1>2 DEF Returns
  <2>2. Program[s][pc[s] + 1].op # "set_sync_barrier"
    BY <1>2 DEF SendData, Close, WaitOver, Makes, Call
  <2> QED  BY <2>1, <2>2 DEF BarrierAt
<1> QED  BY <1>1, <1>2 DEF MadeStep

LEMMA NewBarrier ==
    ASSUME IInv, MadeStep, Program' = Program, NEW s \in Sessions, SetSyncBarrier(s),
           NEW i, i = pc[s] + 1
    PROVE  BarrierAt(s, i)' /\ i \in Nat /\ Program[s][i] = Call(s)
<1>1. Made(s)' = Made(s) \cup {i} /\ Made(s) = 1..pc[s] /\ pc[s] \in Nat
  BY MadeCalls DEF MadeStep, Returns
<1>2. Program[s][i] = Call(s) /\ Call(s).op = "set_sync_barrier"
  BY DEF SetSyncBarrier, Makes, Call
<1> QED  BY <1>1, <1>2 DEF BarrierAt

\* What BarrierRounds says of a call of the applications that run.
LEMMA BarrierCondition ==
    ASSUME IInv, BarrierRounds, NEW s \in Sessions, NEW i \in 1..Len(Program[s]),
           Program[s][i].op = "set_sync_barrier"
    PROVE  /\ Settled(Program[s], i)
           /\ Program[s][i].size >= DataSize(RoundBuffers(Program[s], i))
BY DEF BarrierRounds, IInv, Calling, Program

\* When an application sets a barrier, no earlier one is under way.
LEMMA BarrierAlone ==
    ASSUME IInv, BarrierRounds, Tokens, Rounds, Waited, NEW s \in Sessions, SetSyncBarrier(s)
    PROVE  NoToken(s)
<1> SUFFICES ASSUME NEW e \in Ends, NEW k \in TokenKinds, SessionOf[e] = s, Token(k, e)
             PROVE  FALSE
  BY DEF NoToken
<1>1. PICK i \in Nat : BarrierAt(s, i)
  BY DEF Rounds
<1>2. /\ pc[s] \in Nat /\ pc[s] + 1 \in 1..Len(Program[s]) /\ Made(s) = 1..pc[s]
      /\ Program[s][pc[s] + 1].op = "set_sync_barrier"
  BY MadeCalls DEF SetSyncBarrier, Makes, Returned, Call
<1>3. Settled(Program[s], pc[s] + 1)
  BY <1>2, BarrierCondition
<1>4. i \in 1..pc[s] /\ Program[s][i].op = "set_sync_barrier"
  BY <1>1, <1>2 DEF BarrierAt
<1>5. PICK w \in i + 1..pc[s] : Program[s][w].op = "wait_for_sync"
  BY <1>2, <1>3, <1>4 DEF Settled
<1>6. w \in Made(s) /\ \A k1 \in Made(s) : Program[s][k1].op = "set_sync_barrier" => k1 < w
  BY <1>1, <1>2, <1>4, <1>5 DEF BarrierAt
<1>7. sync_flag[s]
  BY <1>5, <1>6 DEF Waited
<1> QED  BY <1>7 DEF Tokens

\* What was sent is counted, or sent after the last barrier.
LEMMA InRound ==
    ASSUME IInv, BarrierRounds, Waited, NEW s \in Sessions, NEW i, BarrierAt(s, i),
           NEW j \in Made(s), Program[s][j].op = "send_data"
    PROVE  Program[s][j].buf \in Counted \cup RoundBuffers(Program[s], i)
<1>1. /\ pc[s] \in Nat /\ pc[s] <= Len(Program[s]) /\ Made(s) = 1..pc[s]
      /\ Len(Program[s]) \in Nat
  BY MadeCalls
<1>2. i \in 1..pc[s] /\ j \in 1..pc[s] /\ i # j /\ i \in 1..Len(Program[s])
  BY <1>1 DEF BarrierAt
<1>3. CASE j < i
  <2>1. Settled(Program[s], i)
    BY <1>2, BarrierCondition DEF BarrierAt
  <2>2. PICK w \in j + 1..i - 1 : Program[s][w].op = "wait_for_sync"
    BY <1>2, <1>3, <2>1 DEF Settled
  <2>3. w \in Made(s) /\ j \in 1..w
    BY <1>1, <1>2, <2>2
  <2> QED  BY <2>2, <2>3 DEF Waited
<1>4. CASE i < j
  <2>1. \A k \in i + 1..j : k \in Made(s) /\ ~(k <= i)
    BY <1>1, <1>2
  <2>2. \A k \in i + 1..j : Program[s][k].op # "set_sync_barrier"
    BY <2>1 DEF BarrierAt
  <2>3. j \in i + 1..Len(Program[s])
    BY <1>1, <1>2, <1>4
  <2> QED  BY <2>2, <2>3 DEF RoundBuffers, RoundOf
<1> QED  BY <1>2, <1>3, <1>4

\* What is counted stays counted, and a completion that is handled is new.
LEMMA CountedStays ==
    ASSUME Fresh, PullStep
    PROVE  Counted \subseteq Counted'
<1> SUFFICES ASSUME NEW b \in Counted, NEW g \in Ends, b \in Range(read_cqes'[g])
             PROVE  FALSE
  BY DEF Counted, PullStep
<1>1. b \in received /\ b \notin Range(read_cqes[g])
  BY DEF Counted
<1> QED  BY <1>1 DEF Fresh, PullStep

LEMMA NewlyCounted ==
    ASSUME OwnInv, NEW e \in Ends, ProcessReadSuccess(e), NEW b, b = Head(read_cqes[e])
    PROVE  b \notin Counted /\ b \in Counted' /\ b \in Buffers
<1>1. IInv /\ read_cqes[e] \in Seq(received) /\ read_cqes \in [Ends -> Seq(Buffers)]
      /\ read_cqes[e] # <<>>
  BY Typed DEF OwnInv, IInv, Flow, ProcessReadSuccess
<1>2. b \in Range(read_cqes[e]) /\ b \in Buffers /\ b \in received
  BY <1>1, HeadCompleted, HeadTailProperties
<1>3. read_cqes' = [read_cqes EXCEPT ![e] = Tail(@)] /\ received' = received
  BY DEF ProcessReadSuccess
<1>4. Distinct(read_cqes[e]) /\ Only(b, "cqe", e)
  <2>1. b \in At("cqe", e) /\ "cqe" \in Kinds
    BY <1>2, Placed DEF Kinds
  <2> QED  BY <2>1 DEF OwnInv, Places, Once, Apart
<1>5. b \notin Range(read_cqes'[e])
  BY <1>1, <1>3, <1>4, DistinctTail
<1>6. ASSUME NEW g \in Ends, g # e PROVE b \notin Range(read_cqes'[g])
  BY <1>1, <1>3, <1>4, <1>6, OnlyThere
<1> QED  BY <1>2, <1>3, <1>5, <1>6 DEF Counted

\* A wait returns when all that was sent before it has been counted.
LEMMA WaitSettles ==
    ASSUME IInv, BarrierRounds, Tokens, Rounds, Waited, NEW s \in Sessions, WaitOver(s),
           NEW j \in Made(s), Program[s][j].op = "send_data"
    PROVE  Program[s][j].buf \in Counted
<1>1. PICK i \in Nat : BarrierAt(s, i) /\ RoundBuffers(Program[s], i) \subseteq Counted
  <2>1. CASE sync_flag[s]
    BY <2>1 DEF Rounds
  <2>2. ASSUME NEW e \in Ends, SessionOf[e] = s, ProcessSyncAck(e)
        PROVE  \E i \in Nat : BarrierAt(s, i) /\ RoundBuffers(Program[s], i) \subseteq Counted
    <3>1. Token("ack", e) /\ "ack" \in TokenKinds
      BY <2>2, TokenOver DEF TokenKinds
    <3>2. PICK i \in Nat : BarrierAt(s, i) /\ About("ack", e, i)
      BY <2>2, <3>1 DEF Rounds
    <3> QED  BY <2>2, <3>2 DEF About
  <2> QED  BY <2>1, <2>2 DEF WaitOver
<1> QED  BY <1>1, InRound

LEMMA WaitedStep ==
    ASSUME IInv, BarrierRounds, Tokens, Rounds, Waited, MadeStep, FlagStep,
           Counted \subseteq Counted', Program' = Program
    PROVE  Waited'
<1> SUFFICES ASSUME NEW s \in Sessions, NEW w \in Made(s)',
                    Program[s][w].op = "wait_for_sync"
             PROVE  /\ (\A i \in Made(s)' : Program[s][i].op = "set_sync_barrier" => i < w)
                         => sync_flag'[s]
                    /\ \A j \in 1..w : Program[s][j].op = "send_data" =>
                         Program[s][j].buf \in Counted'
  BY DEF Waited
<1>1. Made(s) = 1..pc[s] /\ pc[s] \in Nat
  BY MadeCalls
<1>2. CASE w \in Made(s)
  <2>1. \A j \in 1..w : Program[s][j].op = "send_data" => Program[s][j].buf \in Counted'
    BY <1>2 DEF Waited
  <2>2. ASSUME \A i \in Made(s)' : Program[s][i].op = "set_sync_barrier" => i < w
        PROVE  sync_flag'[s]
    <3>1. Made(s) \subseteq Made(s)'
      BY DEF MadeStep, Returns
    <3>2. sync_flag[s]
      BY <1>2, <2>2, <3>1 DEF Waited
    <3>3. ~SetSyncBarrier(s)
      <4> SUFFICES ASSUME SetSyncBarrier(s) PROVE FALSE  OBVIOUS
      <4>1. pc[s] + 1 \in Made(s)' /\ Program[s][pc[s] + 1].op = "set_sync_barrier"
        BY DEF MadeStep, Returns, SetSyncBarrier, Makes, Call
      <4> QED  BY <1>1, <1>2, <2>2, <4>1
    <3> QED  BY <3>2, <3>3 DEF FlagStep
  <2> QED  BY <2>1, <2>2
<1>3. CASE w \notin Made(s)
  <2>1. w = pc[s] + 1 /\ (SetSyncBarrier(s) \/ SendData(s) \/ Close(s) \/ WaitOver(s))
    BY <1>3 DEF MadeStep, Returns
  <2>2. WaitOver(s) /\ ~SetSyncBarrier(s)
    BY <2>1 DEF SetSyncBarrier, SendData, Close, Makes, Call
  <2>3. sync_flag'[s]
    BY <2>2 DEF WaitOver, FlagStep
  <2>4. ASSUME NEW j \in 1..w, Program[s][j].op = "send_data"
        PROVE  Program[s][j].buf \in Counted'
    <3>1. j \in Made(s)
      BY <1>1, <2>1, <2>4
    <3> QED  BY <2>2, <2>4, <3>1, WaitSettles
  <2> QED  BY <2>3, <2>4
<1> QED  BY <1>2, <1>3

\* The round of a barrier, before and after its count.
LEMMA RoundSizes ==
    ASSUME IInv, NEW s \in Sessions, NEW i \in Nat, NEW R, R = RoundBuffers(Program[s], i),
           NEW C, NEW D, C \subseteq D
    PROVE  /\ DataSize(R \cap C) \in Nat /\ DataSize(R \cap D) \in Nat /\ DataSize(R) \in Nat
           /\ DataSize(R \cap C) <= DataSize(R \cap D)
           /\ DataSize(R \cap D) >= DataSize(R) => R \subseteq D
           /\ \A b \in R \ C : b \in D =>
                DataSize(R \cap D) >= DataSize(R \cap C) + Size[b]
<1>1. R \subseteq Buffers /\ IsFiniteSet(R)
  BY RoundFinite DEF IInv
<1>2. /\ R \cap D \subseteq Buffers /\ IsFiniteSet(R \cap D)
      /\ R \cap C \subseteq Buffers /\ IsFiniteSet(R \cap C)
  BY <1>1, FS_Subset
<1>3. /\ DataSize(R \cap C) \in Nat /\ DataSize(R \cap D) \in Nat
      /\ DataSize(R \cap C) <= DataSize(R \cap D)
  <2>1. R \cap C \subseteq R \cap D
    OBVIOUS
  <2> QED  BY <1>2, <2>1, DataSizeGrows
<1>4. DataSize(R) \in Nat /\ (DataSize(R \cap D) >= DataSize(R) => R \cap D = R)
  <2>1. R \cap D \subseteq R
    OBVIOUS
  <2> QED  BY <1>1, <2>1, DataSizeGrows
<1>5. ASSUME NEW b \in R \ C, b \in D
      PROVE  DataSize(R \cap D) >= DataSize(R \cap C) + Size[b]
  <2>1. DataSize((R \cap C) \cup {b}) = DataSize(R \cap C) + Size[b]
    BY <1>1, <1>2, <1>5, DataSizeAdds
  <2>2. (R \cap C) \cup {b} \subseteq R \cap D
    BY <1>5
  <2>3. DataSize((R \cap C) \cup {b}) <= DataSize(R \cap D)
    BY <1>2, <2>2, DataSizeGrows
  <2>4. DataSize((R \cap C) \cup {b}) \in Nat
    BY <1>2, <2>2, DataSizeGrows
  <2> QED  BY <1>3, <2>1, <2>3, <2>4
<1> QED  BY <1>3, <1>4, <1>5

LEMMA CountedSizes ==
    ASSUME IInv, NEW s \in Sessions, NEW i \in Nat, Counted \subseteq Counted'
    PROVE  LET R == RoundBuffers(Program[s], i) IN
           /\ DataSize(R \cap Counted) \in Nat /\ DataSize(R \cap Counted') \in Nat
           /\ DataSize(R \cap Counted) <= DataSize(R \cap Counted')
<1> DEFINE R == RoundBuffers(Program[s], i)
<1>1. R = RoundBuffers(Program[s], i)  OBVIOUS
<1> HIDE DEF R
<1>2. /\ DataSize(R \cap Counted) \in Nat /\ DataSize(R \cap Counted') \in Nat
      /\ DataSize(R \cap Counted) <= DataSize(R \cap Counted')
  BY <1>1, RoundSizes
<1> QED  BY <1>2 DEF R

\* While a barrier counts, what its peer has read is of its round.
LEMMA CountsRound ==
    ASSUME BarrierRounds, OwnInv, Origins, Waited, NEW e \in Ends,
           NEW f, f = Peer[e], ProcessReadSuccess(f), NEW b, b = Head(read_cqes[f]),
           NEW i \in Nat, BarrierAt(SessionOf[e], i), About("armed", e, i),
           Counted \subseteq Counted'
    PROVE  LET R == RoundBuffers(Program[SessionOf[e]], i) IN
           /\ total[f] + Size[b] <= DataSize(R \cap Counted')
           /\ total[f] + Size[b] = target[f] => R \subseteq Counted'
<1> DEFINE s == SessionOf[e]
           R == RoundBuffers(Program[s], i)
<1>1. /\ IInv /\ s \in Sessions /\ f \in Ends /\ Peer[f] = e
      /\ total[f] \in Nat /\ target[f] \in Nat
  BY EndFacts DEF OwnInv, IInv, Control
<1>2. b \notin Counted /\ b \in Counted' /\ b \in Buffers /\ Size[b] \in Nat
  BY <1>1, NewlyCounted, OneBuffer
<1>3. b \in R
  <2>1. b \in Range(read_cqes[f])
    BY <1>1, HeadCompleted
  <2>2. Asks(e, b)
    BY <1>1, <2>1 DEF Origins
  <2>3. PICK j \in Made(s) : Program[s][j].op = "send_data" /\ Program[s][j].buf = b
    BY <2>2 DEF Asks
  <2> QED  BY <1>1, <1>2, <2>3, InRound
<1>4. /\ target[f] = Program[s][i].size /\ total[f] <= DataSize(R \cap Counted)
  BY DEF About
<1>5. target[f] >= DataSize(R)
  <2>1. i \in 1..Len(Program[s]) /\ Program[s][i].op = "set_sync_barrier"
    BY DEF BarrierAt, Made
  <2> QED  BY <1>1, <1>4, <2>1, BarrierCondition
<1> HIDE DEF R, s
<1>6. /\ DataSize(R \cap Counted) \in Nat /\ DataSize(R \cap Counted') \in Nat
      /\ DataSize(R) \in Nat
      /\ DataSize(R \cap Counted') >= DataSize(R) => R \subseteq Counted'
      /\ DataSize(R \cap Counted') >= DataSize(R \cap Counted) + Size[b]
  BY <1>1, <1>2, <1>3, RoundSizes DEF R
<1>7. total[f] + Size[b] <= DataSize(R \cap Counted')
  BY <1>1, <1>2, <1>4, <1>6
<1>8. total[f] + Size[b] = target[f] => DataSize(R \cap Counted') >= DataSize(R)
  BY <1>1, <1>2, <1>5, <1>6, <1>7
<1>9. total[f] + Size[b] = target[f] => R \subseteq Counted'
  BY <1>6, <1>8
<1> QED  BY <1>7, <1>9 DEF R, s

\* A token that stays where it is stays about its barrier.
LEMMA AboutStays ==
    ASSUME BarrierRounds, OwnInv, Origins, Tokens, Waited,
           NetStep, TaskStep, CountStep, Counted \subseteq Counted', Program' = Program,
           NEW e \in Ends, ~SetSyncBarrier(SessionOf[e]), NEW k \in TokenKinds,
           Token(k, e), Token(k, e)',
           NEW i \in Nat, BarrierAt(SessionOf[e], i), About(k, e, i)
    PROVE  About(k, e, i)'
<1> DEFINE s == SessionOf[e]
           call == Program[s][i]
           R == RoundBuffers(Program[s], i)
<1>0. IInv /\ s \in Sessions /\ Peer[e] \in Ends
  BY EndFacts DEF OwnInv
<1>1. CASE k = "task"
  <2>1. ASSUME NEW m \in Range(tasks'[e]), m.type = "SYNC_REQUEST"
        PROVE  m.size = call.size
    <3>1. CASE m \in Range(tasks[e])
      BY <1>1, <2>1, <3>1 DEF About
    <3>2. CASE Adds(e, m)
      <4>1. PICK r \in Sessions : SetSyncBarrier(r) /\ Call(r).end = e
        BY <2>1, <3>2 DEF Adds
      <4>2. SessionOf[e] = r
        BY <1>0, <4>1, OwnCall DEF SetSyncBarrier, Makes, IInv
      <4> QED  BY <4>1, <4>2
    <3> QED  BY <1>0, <2>1, <3>1, <3>2, NewTask
  <2> QED  BY <1>1, <2>1 DEF About
<1>2. CASE k = "net"
  <2>1. ASSUME NEW m \in Range(net'[e]), m.type = "SYNC_REQUEST"
        PROVE  m.size = call.size
    <3>1. CASE m \in Range(net[e])
      BY <1>2, <2>1, <3>1 DEF About
    <3>2. CASE Posts(e, m)
      <4>1. PICK n \in 1..Len(tasks[e]) : m = tasks[e][n]
        BY <2>1, <3>2, Types DEF Posts
      <4>2. Token("task", e) /\ "task" \in TokenKinds
        BY <1>0, <2>1, <4>1, TaskRun DEF Token, Holds, TokenKinds
      <4> QED  BY <1>2, <4>2 DEF Tokens
    <3> QED  BY <1>0, <2>1, <3>1, <3>2, NewMessage
  <2> QED  BY <1>2, <2>1 DEF About
<1>3. CASE k = "armed"
  <2> DEFINE f == Peer[e]
  <2>1. target[f] = call.size /\ total[f] <= DataSize(R \cap Counted)
    BY <1>3 DEF About
  <2>2. CASE total'[f] = total[f] /\ target'[f] = target[f]
    <3>1. /\ DataSize(R \cap Counted) \in Nat /\ DataSize(R \cap Counted') \in Nat
          /\ DataSize(R \cap Counted) <= DataSize(R \cap Counted')
      BY <1>0, CountedSizes
    <3>2. total[f] \in Nat
      BY <1>0 DEF IInv, Control
    <3>3. total'[f] <= DataSize(R \cap Counted')
      BY <2>1, <2>2, <3>1, <3>2
    <3> QED  BY <1>3, <2>1, <2>2, <3>3 DEF About
  <2>3. CASE ProcessSyncRequest(f)
    <3>1. Moved("armed", e)
      BY <2>3 DEF Moved
    <3>2. Token("net", e) /\ "net" \in TokenKinds
      BY <1>0, <1>3, <3>1, MovedFrom DEF Earlier
    <3> QED  BY <1>3, <3>2 DEF Tokens
  <2>4. CASE ProcessReadSuccess(f) /\ target'[f] = target[f]
             /\ total'[f] = total[f] + Size[Head(read_cqes[f])]
    <3>1. total[f] + Size[Head(read_cqes[f])] <= DataSize(R \cap Counted')
      BY <1>3, <2>4, CountsRound
    <3>2. total'[f] <= DataSize(R \cap Counted') /\ target'[f] = call.size
      BY <2>1, <2>4, <3>1
    <3> QED  BY <1>3, <3>2 DEF About
  <2> QED  BY <1>0, <2>2, <2>3, <2>4 DEF CountStep
<1>4. CASE k = "ack"
  BY <1>4 DEF About
<1> QED  BY <1>1, <1>2, <1>3, <1>4 DEF TokenKinds

\* A token that is moved is still about its barrier.
LEMMA AboutMoves ==
    ASSUME BarrierRounds, OwnInv, Origins, Tokens, Waited,
           NetStep, TaskStep, CountStep, Counted \subseteq Counted', Program' = Program,
           NEW e \in Ends, NEW k \in TokenKinds, Moved(k, e), Token(k, e)',
           NEW i \in Nat, BarrierAt(SessionOf[e], i), About(Earlier(k), e, i)
    PROVE  About(k, e, i)'
<1> DEFINE s == SessionOf[e]
           call == Program[s][i]
           R == RoundBuffers(Program[s], i)
           f == Peer[e]
<1>0. /\ IInv /\ s \in Sessions /\ f \in Ends /\ Peer[f] = e
      /\ Token(Earlier(k), e) /\ Earlier(k) \in TokenKinds /\ Earlier(k) # k
  BY EndFacts, MovedFrom DEF OwnInv
<1>1. CASE k = "net"
  <2>1. About("task", e, i) /\ ~Token("net", e)
    BY <1>0, <1>1 DEF Earlier, Tokens
  <2>2. ASSUME NEW m \in Range(net'[e]), m.type = "SYNC_REQUEST"
        PROVE  m.size = call.size
    <3>1. CASE m \in Range(net[e])
      BY <2>1, <2>2, <3>1 DEF Token, Holds
    <3>2. CASE Posts(e, m)
      <4>1. PICK n \in 1..Len(tasks[e]) : m = tasks[e][n]
        BY <2>2, <3>2, Types DEF Posts
      <4>2. m \in Range(tasks[e])
        BY <1>0, <4>1, TaskRun
      <4> QED  BY <2>1, <2>2, <4>2 DEF About
    <3> QED  BY <1>0, <2>2, <3>1, <3>2, NewMessage
  <2> QED  BY <1>1, <2>2 DEF About
<1>2. CASE k = "armed"
  <2>1. About("net", e, i) /\ ~Token("armed", e)
    BY <1>0, <1>2 DEF Earlier, Tokens
  <2>2. total'[f] < target'[f] /\ ~(total[f] < target[f])
    BY <1>2, <2>1 DEF Token
  <2>3. CASE ProcessReadSuccess(f) /\ target'[f] = target[f]
             /\ total'[f] = total[f] + Size[Head(read_cqes[f])]
    <3>1. Size[Head(read_cqes[f])] \in Nat /\ total[f] \in Nat /\ target[f] \in Nat
      BY <1>0, <2>3, HeadCompleted, OneBuffer DEF IInv, Control
    <3> QED  BY <2>2, <2>3, <3>1
  <2>4. CASE /\ ProcessSyncRequest(f) /\ total'[f] = 0 /\ target'[f] = Received(f).size
             /\ Received(f).type = "SYNC_REQUEST" /\ net[Peer[f]] # <<>>
    <3>1. Received(f) \in Range(net[e])
      BY <1>0, <2>4, ReceivedFrom
    <3>2. target'[f] = call.size
      BY <2>1, <2>4, <3>1 DEF About
    <3>3. DataSize(R \cap Counted') \in Nat
      BY <1>0, CountedSizes
    <3>4. total'[f] <= DataSize(R \cap Counted')
      BY <2>4, <3>3
    <3> QED  BY <1>2, <3>2, <3>4 DEF About
  <2> QED  BY <1>0, <2>2, <2>3, <2>4 DEF CountStep
<1>3. CASE k = "ack"
  <2>1. About("armed", e, i) /\ ProcessReadSuccess(f)
        /\ total[f] + Size[Head(read_cqes[f])] = target[f]
    BY <1>3 DEF Earlier, Moved, SyncTargetGet
  <2>2. R \subseteq Counted'
    BY <2>1, CountsRound
  <2> QED  BY <1>3, <2>2 DEF About
<1> QED  BY <1>1, <1>2, <1>3 DEF Moved

LEMMA RoundsStep ==
    ASSUME BarrierRounds, OwnInv, Origins, Tokens, Rounds, Waited, NetStep, TaskStep,
           CountStep, FlagStep, MadeStep, Counted \subseteq Counted', Program' = Program
    PROVE  Rounds'
<1>0. IInv  BY DEF OwnInv
<1>1. ASSUME NEW e \in Ends, NEW k \in TokenKinds, Token(k, e)', SetSyncBarrier(SessionOf[e])
      PROVE  \E i \in Nat : BarrierAt(SessionOf[e], i)' /\ About(k, e, i)'
  <2> DEFINE s == SessionOf[e]
  <2>0. s \in Sessions  BY EndFacts
  <2>1. NoToken(s)
    BY <1>0, <1>1, <2>0, BarrierAlone
  <2>2. k = "task"
    BY <1>0, <1>1, <2>1, TokenMoves, MovedFrom DEF NoToken
  <2>3. PICK i : i = pc[s] + 1
    OBVIOUS
  <2>4. BarrierAt(s, i)' /\ i \in Nat /\ Program[s][i] = Call(s)
    BY <1>0, <1>1, <2>0, <2>3, NewBarrier
  <2>5. ASSUME NEW m \in Range(tasks'[e]), m.type = "SYNC_REQUEST"
        PROVE  m.size = Program[s][i].size
    <3>1. CASE m \in Range(tasks[e])
      BY <2>1, <2>5, <3>1 DEF NoToken, Token, Holds, TokenKinds
    <3>2. CASE Adds(e, m)
      <4>1. PICK r \in Sessions : SetSyncBarrier(r) /\ Call(r).end = e /\ m.size = Call(r).size
        BY <2>5, <3>2 DEF Adds
      <4>2. SessionOf[e] = r
        BY <1>0, <4>1, OwnCall DEF SetSyncBarrier, Makes, IInv
      <4> QED  BY <2>4, <4>1, <4>2
    <3> QED  BY <1>0, <2>5, <3>1, <3>2, NewTask
  <2>6. About(k, e, i)'
    BY <2>2, <2>5 DEF About
  <2> QED  BY <2>4, <2>6
<1>2. ASSUME NEW e \in Ends, NEW k \in TokenKinds, Token(k, e)', ~SetSyncBarrier(SessionOf[e])
      PROVE  \E i \in Nat : BarrierAt(SessionOf[e], i)' /\ About(k, e, i)'
  <2>0. SessionOf[e] \in Sessions  BY EndFacts
  <2>1. CASE Token(k, e)
    <3>1. PICK i \in Nat : BarrierAt(SessionOf[e], i) /\ About(k, e, i)
      BY <2>1 DEF Rounds
    <3>2. BarrierAt(SessionOf[e], i)'
      BY <1>0, <1>2, <2>0, <3>1, BarrierStays
    <3>3. About(k, e, i)'
      BY <1>2, <2>1, <3>1, AboutStays
    <3> QED  BY <3>2, <3>3
  <2>2. CASE Moved(k, e)
    <3>1. Token(Earlier(k), e) /\ Earlier(k) \in TokenKinds
      BY <1>0, <2>2, MovedFrom
    <3>2. PICK i \in Nat : BarrierAt(SessionOf[e], i) /\ About(Earlier(k), e, i)
      BY <3>1 DEF Rounds
    <3>3. BarrierAt(SessionOf[e], i)'
      BY <1>0, <1>2, <2>0, <3>2, BarrierStays
    <3>4. About(k, e, i)'
      BY <1>2, <2>2, <3>2, AboutMoves
    <3> QED  BY <3>3, <3>4
  <2> QED  BY <1>0, <1>2, <2>1, <2>2, TokenMoves DEF TokenSet
<1>3. ASSUME NEW s \in Sessions, sync_flag'[s]
      PROVE  \E i \in Nat : BarrierAt(s, i)' /\ RoundBuffers(Program'[s], i) \subseteq Counted'
  <2>0. ~SetSyncBarrier(s)
    BY <1>3 DEF FlagStep
  <2>1. PICK i \in Nat : BarrierAt(s, i) /\ RoundBuffers(Program[s], i) \subseteq Counted
    <3>1. CASE sync_flag[s]
      BY <3>1 DEF Rounds
    <3>2. ASSUME NEW e \in Ends, SessionOf[e] = s, ProcessSyncAck(e)
          PROVE  \E i \in Nat : BarrierAt(s, i) /\ RoundBuffers(Program[s], i) \subseteq Counted
      <4>1. Token("ack", e) /\ "ack" \in TokenKinds
        BY <1>0, <3>2, TokenOver DEF TokenKinds
      <4>2. PICK i \in Nat : BarrierAt(s, i) /\ About("ack", e, i)
        BY <3>2, <4>1 DEF Rounds
      <4> QED  BY <3>2, <4>2 DEF About
    <3> QED  BY <1>3, <3>1, <3>2 DEF FlagStep
  <2>2. BarrierAt(s, i)'
    BY <1>0, <2>0, <2>1, BarrierStays
  <2> QED  BY <2>1, <2>2
<1> QED  BY <1>1, <1>2, <1>3 DEF Rounds

-----------------------------------------------------------------------------
(* The barrier holds. *)

SyncInv == OwnInv /\ Origins /\ Fresh /\ Tokens /\ Rounds /\ Waited

LEMMA SyncInit == Init => SyncInv
<1> SUFFICES ASSUME Init PROVE SyncInv  OBVIOUS
<1>1. \A e \in Ends : /\ tasks[e] = <<>> /\ net[e] = <<>> /\ fetches[e] = {}
                      /\ reads[e] = <<>> /\ read_cqes[e] = <<>>
                      /\ total[e] = 0 /\ target[e] = 0
                      /\ Peer[e] \in Ends /\ SessionOf[e] \in Sessions
  BY EndFacts DEF Init
<1>2. OwnInv
  BY InitInvariant, PlacesInit DEF OwnInv
<1>3. Origins /\ Fresh
  BY <1>1, EmptyRest DEF Origins, Fresh
<1>4. \A s \in Sessions : ~sync_flag[s] /\ Made(s) = {}
  <2>1. \A s \in Sessions : sync_flag[s] = FALSE /\ pc[s] = 0
    BY DEF Init
  <2> QED  BY <2>1 DEF Made
<1>5. \A e \in Ends : \A k \in TokenKinds : ~Token(k, e)
  <2>1. ~Holds("SYNC_REQUEST", <<>>) /\ ~Holds("SYNC_ACK", <<>>)
    BY EmptyRest DEF Holds
  <2>2. ASSUME NEW e \in Ends PROVE ~Token("task", e) /\ ~Token("net", e) /\ ~Token("ack", e)
    BY <1>1, <2>1 DEF Token
  <2>3. ASSUME NEW e \in Ends PROVE ~Token("armed", e)
    BY <1>1 DEF Token
  <2> QED  BY <2>2, <2>3 DEF TokenKinds
<1>6. \A type : Few(type, <<>>)
  BY DEF Few
<1>7. Tokens /\ Rounds /\ Waited
  BY <1>1, <1>4, <1>5, <1>6 DEF Tokens, Rounds, Waited
<1> QED  BY <1>2, <1>3, <1>7 DEF SyncInv

\* The steps as the lemmas above describe them.
LEMMA Steps ==
    ASSUME AddressesDiffer, ~SpuriousWakeups, IInv, [Next]_vars
    PROVE  /\ NetStep /\ TaskStep /\ PullStep /\ MadeStep /\ CountStep /\ FlagStep
           /\ Program' = Program
BY NetSteps, TaskSteps, PullSteps, MadeSteps, CountSteps, FlagSteps, SetupStays

LEMMA SyncStep ==
    ASSUME AddressesDiffer, SentOnce, BarrierRounds, ~SpuriousWakeups, SyncInv, [Next]_vars
    PROVE  SyncInv'
<1>1. /\ OwnInv /\ IInv /\ Origins /\ Fresh /\ Tokens /\ Rounds /\ Waited
  BY DEF SyncInv, OwnInv
<1>2. /\ NetStep /\ TaskStep /\ PullStep /\ MadeStep /\ CountStep /\ FlagStep
      /\ Program' = Program
  BY <1>1, Steps
<1>3. OwnInv'
  BY <1>1, OwnStep
<1>4. Origins'
  BY <1>1, <1>2, OriginsStep
<1>5. Fresh'
  BY <1>1, <1>2, <1>3, FreshStep
<1>6. Counted \subseteq Counted'
  BY <1>1, <1>2, CountedStays
<1>7. Tokens'
  BY <1>1, <1>2, BarrierAlone, TokensStep
<1>8. Rounds'
  BY <1>1, <1>2, <1>6, RoundsStep
<1>9. Waited'
  BY <1>1, <1>2, <1>6, WaitedStep
<1> QED  BY <1>3, <1>4, <1>5, <1>7, <1>8, <1>9 DEF SyncInv

LEMMA SyncInvariance ==
    ASSUME AddressesDiffer, SentOnce, BarrierRounds, ~SpuriousWakeups
    PROVE  Spec => []SyncInv
<1>1. SyncInv /\ [Next]_vars => SyncInv'
  BY SyncStep
<1> QED  BY <1>1, SyncInit, PTL DEF Spec

\* When wait_for_sync returns, the peer has the data of every send_data that was
\* made before it (process_sync_request, process_read_success and
\* process_sync_ack, rdma_message.cpp), when every barrier is for no less than
\* what is sent up to the next, the next comes after a wait, no two buffers have
\* one address or are sent twice, and no wait returns for no reason.
THEOREM SyncSoundCorrect ==
    ASSUME AddressesDiffer, SentOnce, BarrierRounds, ~SpuriousWakeups
    PROVE  Spec => []SyncSound
<1>1. SyncInv => SyncSound
  BY DEF SyncInv, Waited, SyncSound, Counted
<1> QED  BY <1>1, SyncInvariance, PTL

-----------------------------------------------------------------------------
(* What a step does to status_, to the end that is about to say so, to the  *)
(* tables and to what is stopped and destroyed, and which step it is.       *)

StatusStep == \A s \in Sessions :
    \/ status'[s] = status[s]
    \/ \E e \in Ends : SessionOf[e] = s /\ (ProcessClose(e) \/ ProcessCloseAck(e))
    \/ Terminate(s) /\ terminating'[s] = None
    \/ \E e \in Ends : SessionOf[e] = s /\ ProcessCloseTerminate(e)

TermStep == \A s \in Sessions :
    \/ terminating'[s] = terminating[s]
    \/ terminating'[s] = None
    \/ \E e \in Ends :
         /\ SessionOf[e] = s /\ terminating'[s] = e /\ status'[s] = status[s]
         /\ TableEmpty(map_table'[e])
         /\ \/ ProcessReadOver(e) /\ status[s] = "CLOSING"
            \/ ProcessCloseAck(e)

TableStep == \A e \in Ends :
    /\ \A k \in DOMAIN map_table'[e] :
         \/ k \in DOMAIN map_table[e]
         \/ \E m \in Range(tasks[e]) : m.type = "READ_REQUEST" /\ k = Addr[m.buf]
         \/ k \in fetches[e] /\ k \in Range(reads'[e])
    /\ ProcessReadSuccess(e) => Head(read_cqes[e]) \notin DOMAIN map_table'[e]

StopStep ==
    /\ \A s \in Sessions :
         /\ stopped[s] => stopped'[s]
         /\ stopped'[s] => \/ stopped[s]
                           \/ StopProcess(s)
                           \/ \E e \in Ends : SessionOf[e] = s /\ BadCompletion(e)
    /\ destroyed' \subseteq Ends
    /\ \A e \in destroyed' : e \in destroyed \/ DestroyEndpoint(e)

LEMMA StatusSteps == ASSUME IInv, [Next]_vars PROVE StatusStep
<1>1. /\ status = [s \in Sessions |-> status[s]]
      /\ terminating = [s \in Sessions |-> terminating[s]]
  BY DEF IInv, Control
<1>2. ASSUME UNCHANGED status PROVE StatusStep
  BY <1>2 DEF StatusStep
<1>3. ASSUME NEW s \in Sessions, Terminate(s) PROVE StatusStep
  <2>1. /\ \A r \in Sessions : r # s => status'[r] = status[r]
        /\ terminating'[s] = None
    BY <1>1, <1>3 DEF Terminate, SetStatus
  <2> QED  BY <1>3, <2>1 DEF StatusStep
<1>4. ASSUME NEW e \in Ends, ProcessClose(e) \/ ProcessCloseAck(e) \/ ProcessCloseTerminate(e)
      PROVE  StatusStep
  <2>1. SessionOf[e] \in Sessions
    BY EndFacts
  <2>2. UNCHANGED status \/ \E to : SetStatus(SessionOf[e], to)
    BY <1>4 DEF ProcessClose, ProcessCloseAck, ProcessCloseTerminate
  <2>3. \A r \in Sessions : r # SessionOf[e] => status'[r] = status[r]
    BY <1>1, <2>1, <2>2 DEF SetStatus
  <2> QED  BY <1>4, <2>1, <2>3 DEF StatusStep
<1>5. ASSUME NEW s \in Sessions, Application(s) \/ SpuriousWakeup(s) \/ StopProcess(s)
      PROVE  StatusStep
  BY <1>2, <1>5 DEF Application, SetSyncBarrier, SendData, WaitForSync, Close, SpuriousWakeup,
     StopProcess, sess
<1>6. ASSUME NEW e \in Ends, Pool(e) \/ ExecuteRead(e) \/ BadCompletion(e) \/ DestroyEndpoint(e)
      PROVE  StatusStep
  BY <1>2, <1>6 DEF Pool, RunTask, ReadData, ExecuteRead, BadCompletion, DestroyEndpoint, sess
<1>7. ASSUME NEW e \in Ends, Handlers(e),
             ~ProcessClose(e), ~ProcessCloseAck(e), ~ProcessCloseTerminate(e)
      PROVE  StatusStep
  BY <1>2, <1>7 DEF Handlers, ProcessAck, ProcessSyncRequest, ProcessReadRequest,
     ProcessReadSuccess, ProcessReadOver, ProcessSyncAck, sess
<1>8. CASE UNCHANGED vars
  BY <1>2, <1>8 DEF vars, sess
<1> QED  BY <1>3, <1>4, <1>5, <1>6, <1>7, <1>8 DEF Next

LEMMA TermSteps == ASSUME IInv, [Next]_vars PROVE TermStep
<1>1. /\ terminating = [s \in Sessions |-> terminating[s]]
      /\ map_table = [e \in Ends |-> map_table[e]]
  BY DEF IInv, Control, Tables
<1>2. ASSUME UNCHANGED terminating PROVE TermStep
  BY <1>2 DEF TermStep
<1>3. ASSUME NEW s \in Sessions, Terminate(s) PROVE TermStep
  <2>1. \A r \in Sessions : terminating'[r] = IF r = s THEN None ELSE terminating[r]
    BY <1>1, <1>3 DEF Terminate
  <2> QED  BY <2>1 DEF TermStep
<1>4. ASSUME NEW e \in Ends, ProcessReadOver(e) PROVE TermStep
  <2> DEFINE s == SessionOf[e]
             rest == Erase(map_table[e], Received(e).addr)
             full == status[s] = "CLOSING" /\ TableEmpty(rest)
  <2>1. s \in Sessions /\ UNCHANGED status
    BY <1>4, EndFacts DEF ProcessReadOver
  <2>2. /\ terminating' = [terminating EXCEPT ![s] = IF full THEN e ELSE None]
        /\ map_table' = [map_table EXCEPT ![e] = rest]
    BY <1>4 DEF ProcessReadOver, EndsClosing
  <2> HIDE DEF rest
  <2>3. /\ \A r \in Sessions : r # s => terminating'[r] = terminating[r]
        /\ terminating'[s] = IF full THEN e ELSE None
        /\ map_table'[e] = rest
    BY <1>1, <2>1, <2>2
  <2> QED  BY <1>4, <2>1, <2>3 DEF TermStep
<1>5. ASSUME NEW e \in Ends, ProcessCloseAck(e) PROVE TermStep
  <2>1. CASE ReadyToTerminate(map_table[e])
    <3>1. SessionOf[e] \in Sessions /\ UNCHANGED <<status, map_table>>
      BY <1>5, <2>1, EndFacts DEF ProcessCloseAck
    <3>2. terminating' = [terminating EXCEPT ![SessionOf[e]] = e]
      BY <1>5, <2>1 DEF ProcessCloseAck
    <3>3. /\ \A r \in Sessions : r # SessionOf[e] => terminating'[r] = terminating[r]
          /\ terminating'[SessionOf[e]] = e
      BY <1>1, <3>1, <3>2
    <3> QED  BY <1>5, <2>1, <3>1, <3>3 DEF TermStep, ReadyToTerminate
  <2>2. CASE ~ReadyToTerminate(map_table[e])
    BY <1>2, <1>5, <2>2 DEF ProcessCloseAck
  <2> QED  BY <2>1, <2>2
<1>6. ASSUME NEW s \in Sessions, Application(s) \/ SpuriousWakeup(s) \/ StopProcess(s)
      PROVE  TermStep
  BY <1>2, <1>6 DEF Application, SetSyncBarrier, SendData, WaitForSync, Close, SpuriousWakeup,
     StopProcess, sess
<1>7. ASSUME NEW e \in Ends, Pool(e) \/ ExecuteRead(e) \/ BadCompletion(e) \/ DestroyEndpoint(e)
      PROVE  TermStep
  BY <1>2, <1>7 DEF Pool, RunTask, ReadData, ExecuteRead, BadCompletion, DestroyEndpoint, sess
<1>8. ASSUME NEW e \in Ends, Handlers(e), ~ProcessReadOver(e), ~ProcessCloseAck(e)
      PROVE  TermStep
  BY <1>2, <1>8 DEF Handlers, ProcessAck, ProcessSyncRequest, ProcessReadRequest,
     ProcessReadSuccess, ProcessClose, ProcessCloseTerminate, ProcessSyncAck, sess
<1>9. CASE UNCHANGED vars
  BY <1>2, <1>9 DEF vars, sess
<1> QED  BY <1>3, <1>4, <1>5, <1>6, <1>7, <1>8, <1>9 DEF Next

\* What a table loses or gains.
LEMMA TableKeys ==
    ASSUME NEW t, NEW key, NEW value
    PROVE  /\ DOMAIN InsertToTable(t, key, value) = DOMAIN t \cup {key}
           /\ DOMAIN Erase(t, key) = DOMAIN t \ {key}
BY DEF InsertToTable, Erase, Restrict

LEMMA TableSteps == ASSUME IInv, [Next]_vars PROVE TableStep
<1>1. /\ map_table = [e \in Ends |-> map_table[e]] /\ reads \in [Ends -> Seq(Buffers)]
      /\ fetches \in [Ends -> SUBSET Buffers]
  BY Typed DEF IInv, Tables
<1>2. ASSUME NEW e \in Ends, ProcessReadSuccess(e)
      PROVE  /\ \A g \in Ends : DOMAIN map_table'[g] \subseteq DOMAIN map_table[g]
             /\ Head(read_cqes[e]) \notin DOMAIN map_table'[e]
  <2> DEFINE b == Head(read_cqes[e])
             rest == Erase(map_table[e], b)
  <2>1. map_table' = [map_table EXCEPT ![e] = rest]
    BY <1>2 DEF ProcessReadSuccess
  <2>2. DOMAIN rest = DOMAIN map_table[e] \ {b}
    BY TableKeys
  <2> HIDE DEF b, rest
  <2>3. map_table'[e] = rest /\ \A g \in Ends : g # e => map_table'[g] = map_table[g]
    BY <1>1, <2>1
  <2> QED  BY <2>2, <2>3 DEF b
<1>3. ASSUME \A g \in Ends : \A k \in DOMAIN map_table'[g] :
               \/ k \in DOMAIN map_table[g]
               \/ \E m \in Range(tasks[g]) : m.type = "READ_REQUEST" /\ k = Addr[m.buf]
               \/ k \in fetches[g] /\ k \in Range(reads'[g])
      PROVE  TableStep
  BY <1>2, <1>3 DEF TableStep
<1>4. ASSUME UNCHANGED map_table PROVE TableStep
  BY <1>3, <1>4
<1>5. ASSUME NEW e \in Ends, NEW i \in 1..Len(tasks[e]), RunTask(e, i) PROVE TableStep
  <2> DEFINE m == tasks[e][i]
  <2>1. CASE m.type = "READ_REQUEST"
    <3> DEFINE t == InsertToTable(map_table[e], Addr[m.buf], m.buf)
    <3>1. map_table' = [map_table EXCEPT ![e] = t]
      BY <1>5, <2>1 DEF RunTask
    <3>2. DOMAIN t = DOMAIN map_table[e] \cup {Addr[m.buf]}
      BY TableKeys
    <3>3. m \in Range(tasks[e])
      BY TaskRun
    <3> HIDE DEF t
    <3>4. map_table'[e] = t /\ \A g \in Ends : g # e => map_table'[g] = map_table[g]
      BY <1>1, <3>1
    <3> QED  BY <1>3, <2>1, <3>2, <3>3, <3>4
  <2>2. CASE m.type # "READ_REQUEST"
    BY <1>4, <1>5, <2>2 DEF RunTask
  <2> QED  BY <2>1, <2>2
<1>6. ASSUME NEW e \in Ends, NEW b \in fetches[e], ReadData(e, b) PROVE TableStep
  <2> DEFINE t == InsertToTable(map_table[e], b, Addr[b])
  <2>1. /\ map_table' = [map_table EXCEPT ![e] = t]
        /\ reads' = [reads EXCEPT ![e] = Append(@, b)]
    BY <1>6 DEF ReadData
  <2>2. DOMAIN t = DOMAIN map_table[e] \cup {b}
    BY TableKeys
  <2>3. Range(Append(reads[e], b)) = Range(reads[e]) \cup {b}
    BY <1>1, RangeOfAppend
  <2> HIDE DEF t
  <2>4. /\ map_table'[e] = t /\ \A g \in Ends : g # e => map_table'[g] = map_table[g]
        /\ b \in Range(reads'[e])
    BY <1>1, <2>1, <2>3
  <2> QED  BY <1>3, <2>2, <2>4
<1>7. ASSUME NEW e \in Ends, ProcessReadOver(e) PROVE TableStep
  <2> DEFINE rest == Erase(map_table[e], Received(e).addr)
  <2>1. map_table' = [map_table EXCEPT ![e] = rest]
    BY <1>7 DEF ProcessReadOver
  <2>2. DOMAIN rest = DOMAIN map_table[e] \ {Received(e).addr}
    BY TableKeys
  <2> HIDE DEF rest
  <2>3. map_table'[e] = rest /\ \A g \in Ends : g # e => map_table'[g] = map_table[g]
    BY <1>1, <2>1
  <2> QED  BY <1>3, <2>2, <2>3
<1>8. ASSUME NEW s \in Sessions,
             Application(s) \/ SpuriousWakeup(s) \/ Terminate(s) \/ StopProcess(s)
      PROVE  TableStep
  BY <1>4, <1>8 DEF Application, SetSyncBarrier, SendData, WaitForSync, Close,
     SpuriousWakeup, Terminate, StopProcess
<1>9. ASSUME NEW e \in Ends, ExecuteRead(e) \/ BadCompletion(e) \/ DestroyEndpoint(e)
      PROVE  TableStep
  BY <1>4, <1>9 DEF ExecuteRead, BadCompletion, DestroyEndpoint
<1>10. ASSUME NEW e \in Ends, ProcessReadSuccess(e) PROVE TableStep
  BY <1>2, <1>3, <1>10
<1>11. ASSUME NEW e \in Ends, Handlers(e), ~ProcessReadSuccess(e), ~ProcessReadOver(e)
       PROVE  TableStep
  BY <1>4, <1>11 DEF Handlers, ProcessAck, ProcessSyncRequest, ProcessReadRequest,
     ProcessClose, ProcessCloseAck, ProcessCloseTerminate, ProcessSyncAck
<1>12. CASE UNCHANGED vars
  BY <1>4, <1>12 DEF vars
<1> QED  BY <1>5, <1>6, <1>7, <1>8, <1>9, <1>10, <1>11, <1>12 DEF Next, Pool

LEMMA StopSteps == ASSUME IInv, [Next]_vars PROVE StopStep
<1>1. stopped \in [Sessions -> BOOLEAN] /\ destroyed \subseteq Ends
  BY DEF IInv, Control
<1>2. ASSUME UNCHANGED <<stopped, destroyed>> PROVE StopStep
  BY <1>1, <1>2 DEF StopStep
<1>3. ASSUME NEW s \in Sessions, StopProcess(s) PROVE StopStep
  <2>1. UNCHANGED destroyed /\ stopped' = [stopped EXCEPT ![s] = TRUE]
    BY <1>3 DEF StopProcess, gone
  <2>2. stopped'[s] /\ \A r \in Sessions : r # s => stopped'[r] = stopped[r]
    BY <1>1, <2>1, Zenon
  <2> QED  BY <1>1, <1>3, <2>1, <2>2 DEF StopStep
<1>4. ASSUME NEW e \in Ends, BadCompletion(e) PROVE StopStep
  <2> DEFINE s == SessionOf[e]
  <2>1. UNCHANGED destroyed /\ stopped' = [stopped EXCEPT ![s] = TRUE] /\ s \in Sessions
    BY <1>4, EndFacts DEF BadCompletion, gone
  <2>2. stopped'[s] /\ \A r \in Sessions : r # s => stopped'[r] = stopped[r]
    BY <1>1, <2>1, Zenon
  <2> QED  BY <1>1, <1>4, <2>1, <2>2 DEF StopStep
<1>5. ASSUME NEW e \in Ends, DestroyEndpoint(e) PROVE StopStep
  <2>1. UNCHANGED stopped /\ destroyed' = destroyed \cup {e}
    BY <1>5 DEF DestroyEndpoint, sess
  <2> QED  BY <1>1, <1>5, <2>1 DEF StopStep
<1>6. ASSUME NEW s \in Sessions, Application(s) \/ SpuriousWakeup(s) \/ Terminate(s)
      PROVE  StopStep
  BY <1>2, <1>6 DEF Application, SetSyncBarrier, SendData, WaitForSync, Close,
     SpuriousWakeup, Terminate, sess, gone
<1>7. ASSUME NEW e \in Ends, Pool(e) \/ ExecuteRead(e) PROVE StopStep
  BY <1>2, <1>7 DEF Pool, RunTask, ReadData, ExecuteRead, sess, gone
<1>8. ASSUME NEW e \in Ends, Handlers(e) PROVE StopStep
  BY <1>2, <1>8 DEF Handlers, ProcessAck, ProcessSyncRequest, ProcessReadRequest,
     ProcessReadSuccess, ProcessReadOver, ProcessClose, ProcessCloseAck,
     ProcessCloseTerminate, ProcessSyncAck, sess, gone
<1>9. CASE UNCHANGED vars
  BY <1>2, <1>9 DEF vars, sess, gone
<1> QED  BY <1>3, <1>4, <1>5, <1>6, <1>7, <1>8, <1>9 DEF Next

-----------------------------------------------------------------------------
(* Once close is called. *)

CloseMade(s) == \E i \in Made(s) : Program[s][i].op = "close"

\* Nothing but READ_OVERs of the peer is under way.
Over(e) ==
    /\ tasks[e] = <<>>
    /\ fetches[e] = {} /\ reads[e] = <<>> /\ read_cqes[e] = <<>>
    /\ fetches[Peer[e]] = {} /\ reads[Peer[e]] = <<>> /\ read_cqes[Peer[e]] = <<>>
    /\ \A m \in Range(tasks[Peer[e]]) : m.type = "READ_OVER"
    /\ \A m \in Range(net[e]) :
         m.type \notin {"SYNC_REQUEST", "SYNC_ACK", "READ_REQUEST", "READ_OVER"}
    /\ \A m \in Range(net[Peer[e]]) :
         m.type \notin {"SYNC_REQUEST", "SYNC_ACK", "READ_REQUEST"}

LEMMA EmptyRange ==
    ASSUME NEW S, NEW s \in Seq(S), Range(s) = {}
    PROVE  s = <<>>
BY RangeOfTail

\* The application that closes is done, and that of the peer makes no call.
LEMMA CloseLast ==
    ASSUME IInv, ClosesLast, NEW e \in Ends, NEW s, s = SessionOf[e],
           NEW i \in 1..Len(Program[s]), Program[s][i].op = "close"
    PROVE  /\ i = Len(Program[s]) /\ Settled(Program[s], i)
           /\ Program[SessionOf[Peer[e]]] = <<>>
BY DEF ClosesLast, IInv, Calling, Program

LEMMA CloseAlone ==
    ASSUME IInv, ClosesLast, NEW e \in Ends, NEW s, s = SessionOf[e],
           NEW r, r = SessionOf[Peer[e]], CloseMade(s)
    PROVE  /\ Returned(s) /\ Returned(r) /\ Made(r) = {} /\ ~CloseMade(r)
<1>1. s \in Sessions /\ r \in Sessions
  BY EndFacts
<1>2. PICK i \in Made(s) : Program[s][i].op = "close"
  BY DEF CloseMade
<1>3. /\ pc[s] \in Nat /\ Len(Program[s]) \in Nat /\ pc[s] <= Len(Program[s])
      /\ Made(s) = 1..pc[s]
      /\ pc[r] \in Nat /\ pc[r] <= Len(Program[r]) /\ Made(r) = 1..pc[r]
  BY <1>1, MadeCalls
<1>4. i \in 1..Len(Program[s])
  BY <1>2, <1>3
<1>5. i = Len(Program[s]) /\ Program[r] = <<>>
  BY <1>2, <1>4, CloseLast
<1>6. pc[s] = Len(Program[s]) /\ pc[r] = 0 /\ Len(Program[r]) = 0
  BY <1>2, <1>3, <1>5
<1>7. Made(r) = {}
  BY <1>3, <1>6
<1> QED  BY <1>6, <1>7 DEF Returned, CloseMade

\* Its barriers are over and its data counted.
LEMMA CloseSettled ==
    ASSUME SyncInv, ClosesLast, NEW e \in Ends, NEW s, s = SessionOf[e], CloseMade(s)
    PROVE  /\ \A k \in TokenKinds : ~Token(k, e)
           /\ \A b : Asks(e, b) => b \in Counted
<1>0. IInv /\ Tokens /\ Rounds /\ Waited /\ s \in Sessions
  BY EndFacts DEF SyncInv, OwnInv
<1>1. PICK i \in Made(s) : Program[s][i].op = "close"
  BY DEF CloseMade
<1>2. /\ pc[s] \in Nat /\ Len(Program[s]) \in Nat /\ pc[s] <= Len(Program[s])
      /\ Made(s) = 1..pc[s] /\ i \in 1..Len(Program[s])
  BY <1>0, <1>1, MadeCalls
<1>3. i = Len(Program[s]) /\ Settled(Program[s], i)
  BY <1>0, <1>1, <1>2, CloseLast
<1>4. ASSUME NEW j \in Made(s), Program[s][j].op \in {"set_sync_barrier", "send_data"}
      PROVE  \E w \in Made(s) : Program[s][w].op = "wait_for_sync" /\ j < w
  <2>1. j \in 1..i - 1
    BY <1>1, <1>2, <1>3, <1>4
  <2>2. PICK w \in j + 1..i - 1 : Program[s][w].op = "wait_for_sync"
    BY <1>3, <1>4, <2>1 DEF Settled
  <2>3. w \in Made(s) /\ j < w
    BY <1>1, <1>2, <2>1, <2>2
  <2> QED  BY <2>2, <2>3
<1>5. ASSUME NEW k \in TokenKinds, Token(k, e) PROVE FALSE
  <2>1. PICK j \in Nat : BarrierAt(s, j)
    BY <1>0, <1>5 DEF Rounds
  <2>2. PICK w \in Made(s) : Program[s][w].op = "wait_for_sync" /\ j < w
    BY <1>4, <2>1 DEF BarrierAt
  <2>3. \A n \in Made(s) : Program[s][n].op = "set_sync_barrier" => n < w
    BY <1>2, <2>1, <2>2 DEF BarrierAt
  <2>4. sync_flag[s]
    BY <1>0, <2>2, <2>3 DEF Waited
  <2> QED  BY <1>0, <1>5, <2>4 DEF Tokens
<1>6. ASSUME NEW b, Asks(e, b) PROVE b \in Counted
  <2>1. PICK j \in Made(s) : Program[s][j].op = "send_data" /\ Program[s][j].buf = b
    BY <1>6 DEF Asks
  <2>2. PICK w \in Made(s) : Program[s][w].op = "wait_for_sync" /\ j < w
    BY <1>4, <2>1
  <2>3. j \in 1..w
    BY <1>2, <2>1, <2>2
  <2> QED  BY <1>0, <2>1, <2>2, <2>3 DEF Waited
<1> QED  BY <1>5, <1>6

\* An application that makes no call has no barrier and sends nothing.
LEMMA NothingAsked ==
    ASSUME Rounds, NEW e \in Ends, Made(SessionOf[e]) = {}
    PROVE  /\ \A k \in TokenKinds : ~Token(k, e)
           /\ \A b : ~Asks(e, b)
BY DEF Rounds, BarrierAt, Asks

LEMMA CloseOver ==
    ASSUME SyncInv, ClosesLast, NEW e \in Ends, CloseMade(SessionOf[e])
    PROVE  Over(e)
<1> DEFINE d == Peer[e]
<1>0. /\ IInv /\ Origins /\ Fresh /\ Rounds
      /\ d \in Ends /\ Peer[d] = e
      /\ tasks[e] \in Seq(Messages) /\ tasks[d] \in Seq(Messages)
      /\ net[e] \in Seq(Messages) /\ net[d] \in Seq(Messages)
      /\ reads[e] \in Seq(Buffers) /\ reads[d] \in Seq(Buffers)
      /\ read_cqes[e] \in Seq(Buffers) /\ read_cqes[d] \in Seq(Buffers)
  BY EndFacts, Typed DEF SyncInv, OwnInv
<1>1. /\ \A k \in TokenKinds : ~Token(k, e)
      /\ \A b : Asks(e, b) => b \in Counted
  BY CloseSettled
<1>2. /\ \A k \in TokenKinds : ~Token(k, d)
      /\ \A b : ~Asks(d, b)
  <2>1. Made(SessionOf[d]) = {}
    BY <1>0, CloseAlone
  <2> QED  BY <1>0, <2>1, NothingAsked
<1>3. \A b : Asks(e, b) => b \in received /\ b \notin Range(read_cqes[d])
  BY <1>0, <1>1 DEF Counted
<1> HIDE DEF d
<1>4. /\ \A m \in Range(tasks[e]) \cup Range(tasks[d]) \cup Range(net[e]) \cup Range(net[d]) :
           m.type \notin {"SYNC_REQUEST", "READ_REQUEST"}
      /\ \A m \in Range(net[e]) \cup Range(net[d]) : m.type # "SYNC_ACK"
  <2>1. ASSUME NEW m \in Range(tasks[e]) \cup Range(net[e])
        PROVE  m.type # "SYNC_REQUEST"
    BY <1>1, <2>1 DEF TokenKinds, Token, Holds
  <2>2. ASSUME NEW m \in Range(tasks[d]) \cup Range(net[d])
        PROVE  m.type # "SYNC_REQUEST"
    BY <1>2, <2>2 DEF TokenKinds, Token, Holds
  <2>3. ASSUME NEW m \in Range(net[e]) \cup Range(net[d])
        PROVE  m.type # "SYNC_ACK"
    <3>1. ~Holds("SYNC_ACK", net[Peer[e]]) /\ ~Holds("SYNC_ACK", net[Peer[d]])
      BY <1>1, <1>2 DEF TokenKinds, Token
    <3> QED  BY <1>0, <2>3, <3>1 DEF Holds, d
  <2>4. ASSUME NEW m \in Range(tasks[e]) \cup Range(net[e])
        PROVE  m.type # "READ_REQUEST"
    BY <1>0, <1>3, <2>4 DEF Origins, Fresh
  <2>5. ASSUME NEW m \in Range(tasks[d]) \cup Range(net[d])
        PROVE  m.type # "READ_REQUEST"
    BY <1>0, <1>2, <2>5 DEF Origins
  <2> QED  BY <2>1, <2>2, <2>3, <2>4, <2>5
<1>5. \A m \in Range(tasks[e]) \cup Range(net[e]) : m.type # "READ_OVER"
  BY <1>0, <1>2 DEF Origins, d
<1>6. tasks[e] = <<>>
  <2>1. Range(tasks[e]) = {}
    BY <1>0, <1>4, <1>5 DEF Origins
  <2> QED  BY <1>0, <2>1, EmptyRange
<1>7. \A m \in Range(tasks[d]) : m.type = "READ_OVER"
  BY <1>0, <1>4 DEF Origins
<1>8. fetches[e] = {} /\ reads[e] = <<>> /\ read_cqes[e] = <<>>
  <2>1. \A b \in fetches[e] \cup Range(reads[e]) \cup Range(read_cqes[e]) : Asks(d, b)
    BY DEF Origins, SyncInv, d
  <2>2. fetches[e] = {} /\ Range(reads[e]) = {} /\ Range(read_cqes[e]) = {}
    BY <1>2, <2>1
  <2> QED  BY <1>0, <2>2, EmptyRange
<1>9. fetches[d] = {} /\ reads[d] = <<>> /\ read_cqes[d] = <<>>
  <2>1. \A b \in fetches[d] \cup Range(reads[d]) \cup Range(read_cqes[d]) : Asks(e, b)
    BY <1>0 DEF Origins
  <2>2. \A b \in fetches[d] \cup Range(reads[d]) : b \notin received
    BY <1>0 DEF Fresh
  <2>3. fetches[d] = {} /\ Range(reads[d]) = {} /\ Range(read_cqes[d]) = {}
    BY <1>3, <2>1, <2>2
  <2> QED  BY <1>0, <2>3, EmptyRange
<1> QED  BY <1>4, <1>5, <1>6, <1>7, <1>8, <1>9 DEF Over, d

\* An empty table has no READ_OVER to come.
LEMMA EmptyOver ==
    ASSUME OwnInv, NEW e \in Ends, TableEmpty(map_table[e])
    PROVE  \A m \in Range(tasks[Peer[e]]) \cup Range(net[Peer[e]]) : m.type # "READ_OVER"
<1> SUFFICES ASSUME NEW m \in Range(tasks[Peer[e]]) \cup Range(net[Peer[e]]),
                    m.type = "READ_OVER"
             PROVE  FALSE
  OBVIOUS
<1>1. Peer[e] \in Ends /\ Peer[Peer[e]] = e
  BY EndFacts
<1>2. m \in Messages
  BY <1>1, Typed, ElementOfSeq, LenProperties DEF OwnInv, Range
<1>3. m.buf \in Buffers
  BY <1>2 DEF Messages, Message
<1>4. Entered(e, m.buf)
  BY <1>1, <1>3 DEF OwnInv, Places, Entries, EntriesOf
<1>5. FindInTable(map_table[e], Addr[m.buf]) = None
  BY DEF TableEmpty, FindInTable
<1> QED  BY <1>3, <1>4, <1>5, NoneAssumption DEF Entered

LEMMA CloseStays ==
    ASSUME MadeStep, Program' = Program, NEW s \in Sessions, CloseMade(s)
    PROVE  CloseMade(s)'
<1>1. Made(s) \subseteq Made(s)'
  BY DEF MadeStep, Returns
<1> QED  BY <1>1 DEF CloseMade

-----------------------------------------------------------------------------
(* The close handshake. *)

\* The session of e knows that its CLOSE is answered, or is closing anyway.
Answered(e) == status[SessionOf[e]] # "WORK" \/ terminating[SessionOf[e]] # None

\* Who says what of a close, and when.
Goodbyes == \A e \in Ends : LET s == SessionOf[e]
                                r == SessionOf[Peer[e]] IN
    /\ Holds("CLOSE", net[e]) => CloseMade(s)
    /\ Holds("CLOSE_ACK", net[e]) => CloseMade(r)
    /\ Holds("CLOSE_TERMINATE", net[e]) => CloseMade(s) /\ status[s] = "CLOSED"
    /\ status[s] # "WORK" => CloseMade(s) \/ CloseMade(r)
    /\ terminating[s] # None => /\ terminating[s] = e /\ CloseMade(s)
                                /\ TableEmpty(map_table[e]) /\ status[s] # "CLOSED"

\* One CLOSE, one CLOSE_ACK, and then nothing but READ_OVERs.
Handshake == \A e \in Ends : LET d == Peer[e] IN
    /\ Few("CLOSE", net[e]) /\ Order(net[e])
    /\ Holds("CLOSE", net[e]) => ~Holds("CLOSE_ACK", net[d]) /\ ~Answered(e)
    /\ Holds("CLOSE_ACK", net[d]) => ~Answered(e)
    /\ Answered(e) /\ CloseMade(SessionOf[e]) => \A m \in Range(net[d]) : m.type = "READ_OVER"

\* A session is CLOSED when nothing can come any more.
Ended == \A e \in Ends : LET s == SessionOf[e]
                             r == SessionOf[Peer[e]] IN
    /\ status[s] = "CLOSED" => /\ TableEmpty(map_table[e])
                               /\ net[Peer[e]] = <<>> /\ tasks[Peer[e]] = <<>>
                               /\ CloseMade(r) => status[r] = "CLOSED"
    /\ stopped[s] => status[s] = "CLOSED"
    /\ e \in destroyed => stopped[s]

\* An entry is that of a READ under way, or of a buffer that was sent.
Keys == \A e \in Ends : \A k \in DOMAIN map_table[e] :
    \/ k \in Range(reads[e]) \cup Range(read_cqes[e])
    \/ \E b : Asks(e, b) /\ k = Addr[b]

CloseInv == SyncInv /\ Goodbyes /\ Handshake /\ Ended /\ Keys

LEMMA SessionEnd == ASSUME NEW s \in Sessions PROVE \E e \in Ends : SessionOf[e] = s
BY SessionOfAssumption DEF Sessions, Range

\* Once either side has called close, nothing is pulled.
LEMMA Sides ==
    ASSUME SyncInv, ClosesLast, NEW e \in Ends,
           CloseMade(SessionOf[e]) \/ CloseMade(SessionOf[Peer[e]])
    PROVE  /\ ~(CloseMade(SessionOf[e]) /\ CloseMade(SessionOf[Peer[e]]))
           /\ \A m \in Range(tasks[e]) : m.type = "READ_OVER"
           /\ \A m \in Range(net[e]) :
                m.type \notin {"SYNC_REQUEST", "SYNC_ACK", "READ_REQUEST"}
           /\ fetches[e] = {} /\ reads[e] = <<>> /\ read_cqes[e] = <<>>
           /\ Returned(SessionOf[e])
<1>0. IInv /\ Peer[e] \in Ends /\ Peer[Peer[e]] = e
  BY EndFacts DEF SyncInv, OwnInv
<1>1. CASE CloseMade(SessionOf[e])
  <2>1. Over(e) /\ ~CloseMade(SessionOf[Peer[e]]) /\ Returned(SessionOf[e])
    BY <1>0, <1>1, CloseOver, CloseAlone
  <2>2. Range(tasks[e]) = {}
    BY <2>1, EmptyRest DEF Over
  <2> QED  BY <2>1, <2>2 DEF Over
<1>2. CASE CloseMade(SessionOf[Peer[e]])
  <2>1. Over(Peer[e]) /\ ~CloseMade(SessionOf[e]) /\ Returned(SessionOf[e])
    BY <1>0, <1>2, CloseOver, CloseAlone
  <2> QED  BY <1>0, <2>1 DEF Over
<1> QED  BY <1>1, <1>2

\* What a handler has found at the head.
LEMMA Heard ==
    ASSUME IInv, NEW e \in Ends, NEW type, Receives(e, type)
    PROVE  /\ net[Peer[e]] \in Seq(Messages) /\ net[Peer[e]] # <<>>
           /\ Head(net[Peer[e]]).type = type /\ Holds(type, net[Peer[e]])
<1>1. net[Peer[e]] \in Seq(Messages) /\ net[Peer[e]] # <<>>
  BY EndFacts, Typed DEF Receives
<1>2. Head(net[Peer[e]]) \in Range(net[Peer[e]])
  BY <1>1, TailDrops
<1> QED  BY <1>1, <1>2 DEF Receives, Holds

\* Who says the three words of a close.
LEMMA SaysClose ==
    ASSUME IInv, Origins, Goodbyes, NEW e \in Ends, NEW s, s = SessionOf[e],
           NEW m, Posts(e, m)
    PROVE  /\ m.type = "CLOSE" => Close(s)
           /\ m.type = "CLOSE_ACK" => ProcessClose(e) /\ Holds("CLOSE", net[Peer[e]])
           /\ m.type = "CLOSE_TERMINATE" => Terminate(s) /\ terminating[s] = e
<1>1. ASSUME NEW i \in 1..Len(tasks[e]), m = tasks[e][i]
      PROVE  m.type \in {"SYNC_REQUEST", "READ_REQUEST", "READ_OVER"}
  BY <1>1, TaskRun DEF Origins
<1>2. ASSUME NEW r \in Sessions, Close(r), Call(r).end = e
      PROVE  Close(s)
  BY <1>2, OwnCall DEF Close, Makes, IInv
<1>3. ASSUME NEW r \in Sessions, Terminate(r), terminating[r] = e
      PROVE  Terminate(s) /\ terminating[s] = e
  <2>1. PICK g \in Ends : SessionOf[g] = r
    BY SessionEnd
  <2>2. g = e
    BY <1>3, <2>1, NoneAssumption DEF Goodbyes
  <2> QED  BY <1>3, <2>1, <2>2
<1>4. ASSUME ProcessClose(e) PROVE Holds("CLOSE", net[Peer[e]])
  BY <1>4, Heard DEF ProcessClose
<1> QED  BY <1>1, <1>2, <1>3, <1>4, Types DEF Posts

\* What the peer of a side that has called close may still say, and that side.
LEMMA PeerPosts ==
    ASSUME CloseInv, ClosesLast, NEW e \in Ends, CloseMade(SessionOf[e]),
           NEW m, Posts(Peer[e], m)
    PROVE  \/ m.type = "READ_OVER" /\ m \in Range(tasks[Peer[e]])
           \/ m.type = "CLOSE_ACK" /\ Holds("CLOSE", net[e])
<1> DEFINE d == Peer[e]
<1>0. /\ IInv /\ Origins /\ Goodbyes /\ SyncInv /\ d \in Ends /\ Peer[d] = e
  BY EndFacts DEF CloseInv, SyncInv, OwnInv
<1>1. Over(e) /\ ~CloseMade(SessionOf[d]) /\ Returned(SessionOf[d])
  BY <1>0, CloseOver, CloseAlone
<1>2. ASSUME NEW i \in 1..Len(tasks[d]), m = tasks[d][i]
      PROVE  m.type = "READ_OVER" /\ m \in Range(tasks[d])
  BY <1>0, <1>1, <1>2, TaskRun DEF Over
<1>3. ~ProcessSyncRequest(d) /\ ~ProcessReadRequest(d) /\ ~ProcessReadOver(d)
  <2>1. \A m1 \in Range(net[e]) : m1.type \notin {"SYNC_REQUEST", "READ_REQUEST", "READ_OVER"}
    BY <1>1 DEF Over
  <2>2. ~Receives(d, "SYNC_REQUEST") /\ ~Receives(d, "READ_REQUEST") /\ ~Receives(d, "READ_OVER")
    BY <1>0, <2>1, Heard DEF Holds
  <2> QED  BY <2>2 DEF ProcessSyncRequest, ProcessReadRequest, ProcessReadOver
<1>4. ~ProcessReadSuccess(d)
  BY <1>1 DEF Over, ProcessReadSuccess
<1>5. ~Close(SessionOf[d])
  BY <1>1 DEF Close, Makes
<1>6. ~(Terminate(SessionOf[d]) /\ terminating[SessionOf[d]] = d)
  BY <1>0, <1>1, NoneAssumption DEF Goodbyes
<1>7. m.type = "CLOSE_ACK" => Holds("CLOSE", net[e])
  BY <1>0, SaysClose
<1>8. m.type # "CLOSE" /\ m.type # "CLOSE_TERMINATE"
  BY <1>0, <1>5, <1>6, SaysClose
<1> QED  BY <1>2, <1>3, <1>4, <1>7, <1>8, Types DEF Posts

LEMMA CloserPosts ==
    ASSUME CloseInv, ClosesLast, NEW e \in Ends, NEW s, s = SessionOf[e], CloseMade(s),
           NEW m, Posts(e, m)
    PROVE  ProcessReadOver(e) \/ (Terminate(s) /\ terminating[s] = e)
<1> DEFINE d == Peer[e]
<1>0. /\ IInv /\ Origins /\ Goodbyes /\ SyncInv /\ d \in Ends /\ Peer[d] = e
  BY EndFacts DEF CloseInv, SyncInv, OwnInv
<1>1. Over(e) /\ ~CloseMade(SessionOf[d]) /\ Returned(s)
  BY <1>0, CloseOver, CloseAlone
<1>2. ASSUME NEW i \in 1..Len(tasks[e]) PROVE FALSE
  <2>1. tasks[e][i] \in Range(tasks[e]) /\ tasks[e] = <<>>
    BY <1>0, <1>1, TaskRun DEF Over
  <2> QED  BY <2>1, EmptyRest
<1>3. ~ProcessSyncRequest(e) /\ ~ProcessReadRequest(e)
  <2>1. \A m1 \in Range(net[d]) : m1.type \notin {"SYNC_REQUEST", "READ_REQUEST"}
    BY <1>1 DEF Over
  <2>2. ~Receives(e, "SYNC_REQUEST") /\ ~Receives(e, "READ_REQUEST")
    BY <1>0, <2>1, Heard DEF Holds
  <2> QED  BY <2>2 DEF ProcessSyncRequest, ProcessReadRequest
<1>4. ~ProcessReadSuccess(e)
  BY <1>1 DEF Over, ProcessReadSuccess
<1>5. ~Close(s)
  BY <1>1 DEF Close, Makes
<1>6. ~ProcessClose(e)
  BY <1>0, <1>1, Heard DEF ProcessClose, Goodbyes
<1>7. m.type = "CLOSE_TERMINATE" => Terminate(s) /\ terminating[s] = e
  BY <1>0, SaysClose
<1>8. m.type # "CLOSE"
  BY <1>0, <1>5, SaysClose
<1> QED  BY <1>2, <1>3, <1>4, <1>6, <1>7, <1>8, Types DEF Posts

\* The steps of status_ and of the end about to terminate, at an end whose session
\* has no other.
LEMMA StatusAt ==
    ASSUME OneEndEach, StatusStep, NEW e \in Ends, NEW s, s = SessionOf[e]
    PROVE  \/ status'[s] = status[s]
           \/ ProcessClose(e) \/ ProcessCloseAck(e) \/ ProcessCloseTerminate(e)
           \/ Terminate(s) /\ terminating'[s] = None
BY EndFacts DEF StatusStep, OneEndEach

LEMMA TermAt ==
    ASSUME OneEndEach, TermStep, NEW e \in Ends, NEW s, s = SessionOf[e]
    PROVE  \/ terminating'[s] = terminating[s] \/ terminating'[s] = None
           \/ /\ terminating'[s] = e /\ status'[s] = status[s] /\ TableEmpty(map_table'[e])
              /\ \/ ProcessReadOver(e) /\ status[s] = "CLOSING"
                 \/ ProcessCloseAck(e)
BY EndFacts DEF TermStep, OneEndEach

LEMMA StaysClosed ==
    ASSUME OneEndEach, IInv, Goodbyes, Ended, StatusStep, NEW e \in Ends,
           NEW s, s = SessionOf[e], status[s] = "CLOSED"
    PROVE  status'[s] = "CLOSED"
<1>1. net[Peer[e]] = <<>> /\ terminating[s] = None
  BY DEF Ended, Goodbyes
<1>2. ~ProcessClose(e) /\ ~ProcessCloseAck(e) /\ ~ProcessCloseTerminate(e)
  BY <1>1 DEF ProcessClose, ProcessCloseAck, ProcessCloseTerminate, Receives
<1>3. ~Terminate(s)
  BY <1>1 DEF Terminate
<1> QED  BY <1>2, <1>3, StatusAt

\* How a session becomes CLOSED.
LEMMA BecomesClosed ==
    ASSUME OneEndEach, IInv, StatusStep, NEW e \in Ends, NEW s, s = SessionOf[e],
           status[s] # "CLOSED", status'[s] = "CLOSED"
    PROVE  Terminate(s) \/ ProcessCloseTerminate(e)
<1>1. s \in Sessions /\ status = [r \in Sessions |-> status[r]]
  BY EndFacts DEF IInv, Control
<1>2. ~ProcessClose(e) /\ ~ProcessCloseAck(e)
  BY <1>1 DEF ProcessClose, ProcessCloseAck, SetStatus
<1> QED  BY <1>2, StatusAt

\* How a CLOSE is answered.
LEMMA BecomesAnswered ==
    ASSUME OneEndEach, IInv, Goodbyes, StatusStep, TermStep, NEW e \in Ends,
           ~Answered(e), Answered(e)', ~CloseMade(SessionOf[Peer[e]])
    PROVE  ProcessCloseAck(e) /\ Holds("CLOSE_ACK", net[Peer[e]])
<1> DEFINE s == SessionOf[e]
           d == Peer[e]
<1>0. d \in Ends /\ Peer[d] = e
  BY EndFacts
<1>1. status[s] = "WORK" /\ terminating[s] = None
  BY DEF Answered
<1>2. ~ProcessClose(e) /\ ~ProcessCloseTerminate(e)
  <2>1. ~Holds("CLOSE", net[d]) /\ ~Holds("CLOSE_TERMINATE", net[d])
    BY <1>0 DEF Goodbyes
  <2> QED  BY <2>1, Heard DEF ProcessClose, ProcessCloseTerminate
<1>3. ~Terminate(s)
  BY <1>1 DEF Terminate
<1>4. status'[s] # "WORK" \/ terminating'[s] # None
  BY DEF Answered
<1>5. ProcessCloseAck(e)
  BY <1>1, <1>2, <1>3, <1>4, StatusAt, TermAt
<1> QED  BY <1>5, Heard DEF ProcessCloseAck

\* An empty table stays so once either side has called close.
LEMMA TableStays ==
    ASSUME SyncInv, ClosesLast, TableStep, NEW e \in Ends, TableEmpty(map_table[e]),
           CloseMade(SessionOf[e]) \/ CloseMade(SessionOf[Peer[e]])
    PROVE  TableEmpty(map_table'[e])
<1>1. (\A m \in Range(tasks[e]) : m.type = "READ_OVER") /\ fetches[e] = {}
  BY Sides
<1> QED  BY <1>1 DEF TableStep, TableEmpty

\* What closes is not undone.
LEMMA GoodbyesStep ==
    ASSUME OneEndEach, ClosesLast, CloseInv, NetStep, MadeStep, StatusStep, TermStep, TableStep,
           Program' = Program
    PROVE  Goodbyes'
<1>0. /\ IInv /\ SyncInv /\ Origins /\ Goodbyes /\ Handshake /\ Ended
  BY DEF CloseInv, SyncInv, OwnInv
<1>1. SUFFICES ASSUME NEW e \in Ends, NEW s, s = SessionOf[e],
                      NEW d, d = Peer[e], NEW r, r = SessionOf[d]
               PROVE  /\ Holds("CLOSE", net'[e]) => CloseMade(s)'
                      /\ Holds("CLOSE_ACK", net'[e]) => CloseMade(r)'
                      /\ Holds("CLOSE_TERMINATE", net'[e]) =>
                           CloseMade(s)' /\ status'[s] = "CLOSED"
                      /\ status'[s] # "WORK" => CloseMade(s)' \/ CloseMade(r)'
                      /\ terminating'[s] # None =>
                           /\ terminating'[s] = e /\ CloseMade(s)'
                           /\ TableEmpty(map_table'[e]) /\ status'[s] # "CLOSED"
  BY DEF Goodbyes
<1>2. /\ d \in Ends /\ Peer[d] = e /\ s \in Sessions /\ r \in Sessions
      /\ status = [t \in Sessions |-> status[t]]
  BY <1>0, <1>1, EndFacts DEF IInv, Control
<1>3. /\ CloseMade(s) => CloseMade(s)'
      /\ CloseMade(r) => CloseMade(r)'
  BY <1>2, CloseStays
<1>4. ASSUME Holds("CLOSE", net'[e]) PROVE CloseMade(s)'
  <2>1. PICK m \in Range(net'[e]) : m.type = "CLOSE"
    BY <1>4 DEF Holds
  <2>2. CASE m \in Range(net[e])
    BY <1>0, <1>1, <1>3, <2>1, <2>2 DEF Goodbyes, Holds
  <2>3. CASE Posts(e, m)
    <3>1. Close(s)
      BY <1>0, <1>1, <2>1, <2>3, SaysClose
    <3>2. Returns(s)
      BY <1>2, <3>1 DEF MadeStep
    <3>3. Program[s][pc[s] + 1].op = "close"
      BY <3>1 DEF Close, Makes, Call
    <3> QED  BY <3>2, <3>3 DEF Returns, CloseMade
  <2> QED  BY <1>0, <2>2, <2>3, NewMessage
<1>5. ASSUME Holds("CLOSE_ACK", net'[e]) PROVE CloseMade(r)'
  <2>1. PICK m \in Range(net'[e]) : m.type = "CLOSE_ACK"
    BY <1>5 DEF Holds
  <2>2. CASE m \in Range(net[e])
    BY <1>0, <1>1, <1>3, <2>1, <2>2 DEF Goodbyes, Holds
  <2>3. CASE Posts(e, m)
    <3>1. Holds("CLOSE", net[d])
      BY <1>0, <1>1, <2>1, <2>3, SaysClose
    <3> QED  BY <1>0, <1>1, <1>2, <1>3, <3>1 DEF Goodbyes
  <2> QED  BY <1>0, <2>2, <2>3, NewMessage
<1>6. ASSUME Holds("CLOSE_TERMINATE", net'[e])
      PROVE  CloseMade(s)' /\ status'[s] = "CLOSED"
  <2>1. PICK m \in Range(net'[e]) : m.type = "CLOSE_TERMINATE"
    BY <1>6 DEF Holds
  <2>2. CASE m \in Range(net[e])
    <3>1. CloseMade(s) /\ status[s] = "CLOSED"
      BY <1>0, <1>1, <2>1, <2>2 DEF Goodbyes, Holds
    <3> QED  BY <1>0, <1>1, <1>3, <3>1, StaysClosed
  <2>3. CASE Posts(e, m)
    <3>1. Terminate(s) /\ terminating[s] = e
      BY <1>0, <1>1, <2>1, <2>3, SaysClose
    <3>2. CloseMade(s)
      BY <1>0, <1>1, <3>1, NoneAssumption DEF Goodbyes
    <3>3. status'[s] = "CLOSED"
      BY <1>2, <3>1 DEF Terminate, SetStatus
    <3> QED  BY <1>3, <3>2, <3>3
  <2> QED  BY <1>0, <2>2, <2>3, NewMessage
<1>7. ASSUME status'[s] # "WORK" PROVE CloseMade(s)' \/ CloseMade(r)'
  <2>1. CASE status[s] # "WORK"
    BY <1>0, <1>1, <1>3, <2>1 DEF Goodbyes
  <2>2. CASE ProcessClose(e) \/ ProcessCloseTerminate(e)
    <3>1. Holds("CLOSE", net[d]) \/ Holds("CLOSE_TERMINATE", net[d])
      BY <1>0, <1>1, <2>2, Heard DEF ProcessClose, ProcessCloseTerminate
    <3> QED  BY <1>0, <1>1, <1>2, <1>3, <3>1 DEF Goodbyes
  <2>3. CASE ProcessCloseAck(e)
    <3>1. Holds("CLOSE_ACK", net[d])
      BY <1>0, <1>1, <2>3, Heard DEF ProcessCloseAck
    <3> QED  BY <1>0, <1>1, <1>2, <1>3, <3>1 DEF Goodbyes
  <2>4. CASE Terminate(s)
    BY <1>0, <1>1, <1>3, <2>4 DEF Terminate, Goodbyes
  <2> QED  BY <1>1, <1>7, <2>1, <2>2, <2>3, <2>4, StatusAt
<1>8. ASSUME terminating'[s] # None
      PROVE  /\ terminating'[s] = e /\ CloseMade(s)'
             /\ TableEmpty(map_table'[e]) /\ status'[s] # "CLOSED"
  <2>1. CASE terminating'[s] = terminating[s]
    <3>1. /\ terminating[s] = e /\ CloseMade(s) /\ TableEmpty(map_table[e])
          /\ status[s] # "CLOSED"
      BY <1>0, <1>1, <1>8, <2>1 DEF Goodbyes
    <3>2. TableEmpty(map_table'[e])
      BY <1>0, <1>1, <3>1, TableStays
    <3>3. ~ProcessCloseTerminate(e)
      BY <1>1, <1>8, <2>1 DEF ProcessCloseTerminate, Receives, Handling
    <3>4. ~(Terminate(s) /\ terminating'[s] = None)
      BY <1>8
    <3>5. status'[s] # "CLOSED"
      BY <1>0, <1>1, <1>2, <3>1, <3>3, <3>4, StatusAt
         DEF ProcessClose, ProcessCloseAck, SetStatus
    <3> QED  BY <1>3, <2>1, <3>1, <3>2, <3>5
  <2>2. CASE ProcessReadOver(e) /\ status[s] = "CLOSING" /\ terminating'[s] = e
             /\ status'[s] = status[s] /\ TableEmpty(map_table'[e])
    <3>1. Holds("READ_OVER", net[d])
      BY <1>0, <1>1, <2>2, Heard DEF ProcessReadOver
    <3>2. ~CloseMade(r)
      BY <1>0, <1>1, <1>2, <3>1, CloseOver DEF Over, Holds
    <3>3. CloseMade(s)
      BY <1>0, <1>1, <2>2, <3>2 DEF Goodbyes
    <3> QED  BY <1>3, <2>2, <3>3
  <2>3. CASE ProcessCloseAck(e) /\ terminating'[s] = e /\ status'[s] = status[s]
             /\ TableEmpty(map_table'[e])
    <3>1. Holds("CLOSE_ACK", net[d])
      BY <1>0, <1>1, <2>3, Heard DEF ProcessCloseAck
    <3>2. CloseMade(s)
      BY <1>0, <1>1, <1>2, <3>1 DEF Goodbyes
    <3>3. status[s] # "CLOSED"
      BY <1>0, <1>1, <3>1 DEF Handshake, Answered
    <3> QED  BY <1>3, <2>3, <3>2, <3>3
  <2> QED  BY <1>1, <1>8, <2>1, <2>2, <2>3, TermAt
<1> QED  BY <1>4, <1>5, <1>6, <1>7, <1>8

LEMMA HandshakeStep ==
    ASSUME OneEndEach, ClosesLast, CloseInv, NetStep, MadeStep, StatusStep, TermStep,
           Goodbyes', Program' = Program
    PROVE  Handshake'
<1>0. /\ IInv /\ SyncInv /\ Origins /\ Goodbyes /\ Handshake /\ Ended
      /\ net \in [Ends -> Seq(Messages)]
  BY Typed DEF CloseInv, SyncInv, OwnInv
<1>1. SUFFICES ASSUME NEW e \in Ends, NEW s, s = SessionOf[e], NEW d, d = Peer[e],
                      NEW r, r = SessionOf[d]
               PROVE  /\ Few("CLOSE", net'[e]) /\ Order(net'[e])
                      /\ Holds("CLOSE", net'[e]) => ~Holds("CLOSE_ACK", net'[d]) /\ ~Answered(e)'
                      /\ Holds("CLOSE_ACK", net'[d]) => ~Answered(e)'
                      /\ Answered(e)' /\ CloseMade(s)' =>
                           \A m \in Range(net'[d]) : m.type = "READ_OVER"
  BY DEF Handshake
<1>2. /\ d \in Ends /\ Peer[d] = e /\ s \in Sessions /\ r \in Sessions
      /\ net[e] \in Seq(Messages) /\ net[d] \in Seq(Messages)
  BY <1>0, <1>1, EndFacts
<1>3. /\ CloseMade(s) => CloseMade(s)'
      /\ CloseMade(r) => CloseMade(r)'
  BY <1>2, CloseStays
\* Never do both sides close.
<1>4. ASSUME CloseMade(s)' PROVE ~CloseMade(r)
  <2>1. PICK i \in 1..Len(Program[s]) : Program[s][i].op = "close"
    BY <1>4 DEF CloseMade, Made
  <2>2. Program[r] = <<>>
    BY <1>0, <1>1, <2>1, CloseLast
  <2> QED  BY <2>2 DEF CloseMade, Made
<1>5. ASSUME NEW m, Posts(e, m), m.type = "CLOSE"
      PROVE  ~CloseMade(s) /\ ~CloseMade(r) /\ ~Holds("CLOSE", net[e])
  <2>1. Close(s)
    BY <1>0, <1>1, <1>5, SaysClose
  <2>2. ~Returned(s)
    BY <2>1 DEF Close, Makes
  <2>3. ~CloseMade(s) /\ ~CloseMade(r)
    BY <1>0, <1>1, <1>2, <2>2, CloseAlone
  <2> QED  BY <1>0, <1>1, <2>3 DEF Goodbyes
<1>6. Few("CLOSE", net'[e])
  <2>1. CASE Part(net'[e], net[e])
    BY <1>0, <1>2, <2>1, PartFew DEF Handshake
  <2>2. ASSUME NEW m \in Messages, Posts(e, m), net'[e] = Append(net[e], m)
        PROVE  Few("CLOSE", net'[e])
    BY <1>0, <1>2, <1>5, <2>2, AppendFew DEF Handshake
  <2> QED  BY <2>1, <2>2 DEF NetStep
<1>7. Order(net'[e])
  <2>1. CASE Part(net'[e], net[e])
    BY <1>0, <1>2, <2>1, PartKeeps DEF Handshake
  <2>2. ASSUME NEW m \in Messages, Posts(e, m), net'[e] = Append(net[e], m)
        PROVE  Order(net'[e])
    <3>1. ~Holds("CLOSE_TERMINATE", net[e])
      <4> SUFFICES ASSUME Holds("CLOSE_TERMINATE", net[e]) PROVE FALSE
        OBVIOUS
      <4>1. CloseMade(s) /\ status[s] = "CLOSED"
        BY <1>0, <1>1 DEF Goodbyes
      <4>2. net[d] = <<>> /\ terminating[s] = None
        BY <1>0, <1>1, <4>1 DEF Ended, Goodbyes
      <4>3. ~ProcessReadOver(e) /\ ~Terminate(s)
        BY <1>1, <4>2 DEF ProcessReadOver, Receives, Terminate
      <4> QED  BY <1>1, <2>2, <4>1, <4>3, CloserPosts
    <3>2. ASSUME Holds("CLOSE_ACK", net[e]) PROVE m.type = "READ_OVER"
      <4>1. CloseMade(r)
        BY <1>0, <1>1, <3>2 DEF Goodbyes
      <4>2. ~Holds("CLOSE", net[d])
        BY <1>0, <1>2, <3>2 DEF Handshake
      <4> QED  BY <1>1, <1>2, <2>2, <4>1, <4>2, PeerPosts
    <3> QED  BY <1>0, <1>2, <2>2, <3>1, <3>2, Appended DEF Handshake
  <2> QED  BY <2>1, <2>2 DEF NetStep
\* The CLOSE that d handles is gone.
<1>8. ASSUME NEW m \in Range(net'[d]), m.type = "CLOSE_ACK", m \notin Range(net[d])
      PROVE  Holds("CLOSE", net[e]) /\ ~Holds("CLOSE", net'[e])
  <2>1. ProcessClose(d) /\ Holds("CLOSE", net[e])
    BY <1>0, <1>2, <1>8, NewMessage, SaysClose
  <2>2. net[e] # <<>> /\ Head(net[e]).type = "CLOSE"
    BY <1>2, <2>1 DEF ProcessClose, Receives
  <2>3. net'[e] = Tail(net[e])
    BY <1>0, <1>2, <2>1, <2>2, AnswerParts, Bare DEF ProcessClose
  <2>4. ~Holds("CLOSE", Tail(net[e]))
    BY <1>0, <1>2, <2>2, TailDrops DEF Handshake
  <2> QED  BY <2>1, <2>3, <2>4
<1>9. ASSUME Holds("CLOSE", net'[e])
      PROVE  ~Holds("CLOSE_ACK", net'[d]) /\ ~Answered(e)'
  <2>1. CloseMade(s)' /\ ~CloseMade(r)
    BY <1>1, <1>4, <1>9 DEF Goodbyes
  <2>2. ~Holds("CLOSE_ACK", net[d]) /\ ~Answered(e)
    <3>1. PICK m \in Range(net'[e]) : m.type = "CLOSE"
      BY <1>9 DEF Holds
    <3>2. CASE m \in Range(net[e])
      BY <1>0, <1>1, <3>1, <3>2 DEF Handshake, Holds
    <3>3. CASE Posts(e, m)
      <4>1. ~CloseMade(s)
        BY <1>5, <3>1, <3>3
      <4> QED  BY <1>0, <1>1, <1>2, <2>1, <4>1 DEF Goodbyes, Answered
    <3> QED  BY <1>0, <3>2, <3>3, NewMessage
  <2>3. ~Answered(e)'
    BY <1>0, <1>1, <2>1, <2>2, BecomesAnswered
  <2>4. ~Holds("CLOSE_ACK", net'[d])
    <3> SUFFICES ASSUME NEW m \in Range(net'[d]), m.type = "CLOSE_ACK" PROVE FALSE
      BY DEF Holds
    <3>1. m \notin Range(net[d])
      BY <2>2 DEF Holds
    <3> QED  BY <1>8, <1>9, <3>1
  <2> QED  BY <2>3, <2>4
\* The CLOSE_ACK that e handles is gone, and only READ_OVERs have followed it.
<1>10. ASSUME ProcessCloseAck(e)
       PROVE  \A m \in Range(net'[d]) : m.type = "READ_OVER"
  <2>1. net[d] # <<>> /\ Head(net[d]).type = "CLOSE_ACK" /\ Answer(e, <<>>)
    BY <1>1, <1>10 DEF ProcessCloseAck, Receives
  <2>2. net'[d] = Tail(net[d])
    BY <1>0, <1>1, <2>1, AnswerParts, Bare
  <2> QED  BY <1>0, <1>2, <2>1, <2>2, TailDrops DEF Handshake
<1>11. ASSUME Holds("CLOSE_ACK", net'[d]), Answered(e)' PROVE FALSE
  <2>1. PICK m \in Range(net'[d]) : m.type = "CLOSE_ACK"
    BY <1>11 DEF Holds
  <2>2. ~Answered(e) /\ CloseMade(s)
    <3>1. CASE m \in Range(net[d])
      BY <1>0, <1>1, <1>2, <2>1, <3>1 DEF Handshake, Goodbyes, Holds
    <3>2. CASE m \notin Range(net[d])
      BY <1>0, <1>1, <1>8, <2>1, <3>2 DEF Handshake, Goodbyes
    <3> QED  BY <3>1, <3>2
  <2>3. ~CloseMade(r)
    BY <1>3, <1>4, <2>2
  <2>4. ProcessCloseAck(e)
    BY <1>0, <1>1, <1>11, <2>2, <2>3, BecomesAnswered
  <2> QED  BY <1>10, <2>1, <2>4
<1>12. ASSUME Answered(e)', CloseMade(s)', NEW m \in Range(net'[d])
       PROVE  m.type = "READ_OVER"
  <2>1. ~CloseMade(r)
    BY <1>4, <1>12
  <2>2. CASE Answered(e)
    <3>1. CloseMade(s)
      BY <1>0, <1>1, <2>1, <2>2 DEF Answered, Goodbyes
    <3>2. \A m1 \in Range(net[d]) : m1.type = "READ_OVER"
      BY <1>0, <1>1, <2>2, <3>1 DEF Handshake
    <3>3. ~Holds("CLOSE", net[e])
      BY <1>0, <2>2 DEF Handshake
    <3>4. CASE Posts(d, m)
      BY <1>1, <3>1, <3>3, <3>4, PeerPosts
    <3> QED  BY <1>0, <1>2, <3>2, <3>4, NewMessage
  <2>3. CASE ~Answered(e)
    <3>1. ProcessCloseAck(e)
      BY <1>0, <1>1, <1>12, <2>1, <2>3, BecomesAnswered
    <3> QED  BY <1>10, <3>1
  <2> QED  BY <2>2, <2>3
<1> QED  BY <1>6, <1>7, <1>9, <1>11, <1>12

LEMMA EndedStep ==
    ASSUME OneEndEach, ClosesLast, CloseInv, NetStep, TaskStep, MadeStep, StatusStep, TermStep,
           TableStep, StopStep, Program' = Program
    PROVE  Ended'
<1>0. /\ IInv /\ SyncInv /\ OwnInv /\ Origins /\ Goodbyes /\ Handshake /\ Ended /\ Keys
      /\ net \in [Ends -> Seq(Messages)] /\ tasks \in [Ends -> Seq(Messages)]
  BY Typed DEF CloseInv, SyncInv, OwnInv
<1>1. SUFFICES ASSUME NEW e \in Ends, NEW s, s = SessionOf[e], NEW d, d = Peer[e],
                      NEW r, r = SessionOf[d]
               PROVE  /\ status'[s] = "CLOSED" =>
                           /\ TableEmpty(map_table'[e]) /\ net'[d] = <<>> /\ tasks'[d] = <<>>
                           /\ CloseMade(r)' => status'[r] = "CLOSED"
                      /\ stopped'[s] => status'[s] = "CLOSED"
                      /\ e \in destroyed' => stopped'[s]
  BY DEF Ended
<1>2. /\ d \in Ends /\ Peer[d] = e /\ s \in Sessions /\ r \in Sessions
      /\ net[e] \in Seq(Messages) /\ net[d] \in Seq(Messages) /\ tasks[d] \in Seq(Messages)
  BY <1>0, <1>1, EndFacts
<1>3. CloseMade(s) => CloseMade(s)'
  BY <1>2, CloseStays
\* Never do both sides close.
<1>4. ASSUME CloseMade(r)' PROVE ~CloseMade(s)
  <2>1. PICK i \in 1..Len(Program[r]) : Program[r][i].op = "close"
    BY <1>4 DEF CloseMade, Made
  <2>2. Program[s] = <<>>
    BY <1>0, <1>1, <1>2, <2>1, CloseLast
  <2> QED  BY <2>2 DEF CloseMade, Made
<1>5. CASE status[s] = "CLOSED"
  <2>1. /\ TableEmpty(map_table[e]) /\ net[d] = <<>> /\ tasks[d] = <<>>
        /\ CloseMade(s) \/ CloseMade(r)
        /\ CloseMade(r) => status[r] = "CLOSED"
    BY <1>0, <1>1, <1>5 DEF Ended, Goodbyes
  <2>2. TableEmpty(map_table'[e])
    BY <1>0, <1>1, <2>1, TableStays
  <2>3. ASSUME NEW m, Posts(d, m) PROVE FALSE
    <3>1. CASE CloseMade(s)
      <4>1. ~Holds("CLOSE", net[e])
        BY <1>0, <1>1, <1>5 DEF Handshake, Answered
      <4>2. Range(tasks[d]) = {}
        BY <2>1, EmptyRest
      <4> QED  BY <1>1, <2>3, <3>1, <4>1, <4>2, PeerPosts
    <3>2. CASE CloseMade(r)
      <4>1. status[r] = "CLOSED" /\ net[e] = <<>> /\ terminating[r] = None
        BY <1>0, <1>1, <1>2, <2>1, <3>2 DEF Ended, Goodbyes
      <4>2. ~ProcessReadOver(d) /\ ~Terminate(r)
        BY <1>2, <4>1 DEF ProcessReadOver, Receives, Terminate
      <4> QED  BY <1>1, <1>2, <2>3, <3>2, <4>2, CloserPosts
    <3> QED  BY <2>1, <3>1, <3>2
  <2>4. ASSUME NEW m, Adds(d, m) PROVE FALSE
    <3>1. Returned(r) /\ read_cqes[d] = <<>>
      BY <1>0, <1>1, <1>2, <2>1, Sides
    <3>2. ASSUME NEW t \in Sessions, SetSyncBarrier(t) \/ SendData(t), Call(t).end = d
          PROVE  FALSE
      <4>1. ~Returned(t) /\ Call(t).op # "wait_for_sync"
        BY <3>2 DEF SetSyncBarrier, SendData, Makes
      <4>2. SessionOf[d] = t
        BY <1>0, <3>2, <4>1, OwnCall DEF IInv
      <4> QED  BY <1>1, <3>1, <4>1, <4>2
    <3>3. ~ProcessReadSuccess(d)
      BY <3>1 DEF ProcessReadSuccess
    <3> QED  BY <2>4, <3>2, <3>3 DEF Adds
  <2>5. net'[d] = <<>>
    <3>1. Part(net'[d], net[d])
      BY <1>2, <2>3 DEF NetStep
    <3> QED  BY <1>2, <2>1, <3>1, PartKeeps
  <2>6. tasks'[d] = <<>>
    <3>1. Part(tasks'[d], tasks[d])
      BY <1>2, <2>4 DEF TaskStep
    <3> QED  BY <1>2, <2>1, <3>1, PartKeeps
  <2>7. ASSUME CloseMade(r)' PROVE status'[r] = "CLOSED"
    <3>1. status[r] = "CLOSED"
      BY <1>4, <2>1, <2>7
    <3> QED  BY <1>0, <1>1, <1>2, <3>1, StaysClosed
  <2>8. status'[s] = "CLOSED"
    BY <1>0, <1>1, <1>5, StaysClosed
  <2>9. e \in destroyed' => stopped'[s]
    <3>1. CASE e \in destroyed
      BY <1>0, <1>1, <1>2, <3>1 DEF Ended, StopStep
    <3>2. CASE DestroyEndpoint(e)
      BY <1>1, <1>2, <3>2 DEF DestroyEndpoint, Joined, StopStep
    <3> QED  BY <3>1, <3>2 DEF StopStep
  <2> QED  BY <2>2, <2>5, <2>6, <2>7, <2>8, <2>9
<1>6. CASE status[s] # "CLOSED"
  <2>1. ~stopped[s] /\ e \notin destroyed
    BY <1>0, <1>1, <1>6 DEF Ended
  <2>2. ~stopped'[s]
    <3>1. ~StopProcess(s)
      BY <1>6 DEF StopProcess
    <3>2. ASSUME NEW f \in Ends, SessionOf[f] = s, BadCompletion(f) PROVE FALSE
      <4>1. f = e
        BY <1>1, <3>2 DEF OneEndEach
      <4>2. d \in destroyed /\ (net[e] # <<>> \/ reads[e] # <<>>)
        BY <1>1, <3>2, <4>1 DEF BadCompletion
      <4>3. status[r] = "CLOSED"
        BY <1>0, <1>1, <1>2, <4>2 DEF Ended
      <4>4. net[e] = <<>> /\ (CloseMade(r) \/ CloseMade(s))
        BY <1>0, <1>1, <1>2, <4>3 DEF Ended, Goodbyes
      <4>5. reads[e] = <<>>
        BY <1>0, <1>1, <4>4, Sides
      <4> QED  BY <4>2, <4>4, <4>5
    <3> QED  BY <1>2, <2>1, <3>1, <3>2 DEF StopStep
  <2>3. e \notin destroyed'
    <3>1. ~DestroyEndpoint(e)
      BY <1>1, <2>1 DEF DestroyEndpoint, Joined
    <3> QED  BY <2>1, <3>1 DEF StopStep
  <2>4. ASSUME status'[s] = "CLOSED"
        PROVE  /\ TableEmpty(map_table'[e]) /\ net'[d] = <<>> /\ tasks'[d] = <<>>
               /\ CloseMade(r)' => status'[r] = "CLOSED"
    <3>1. CASE Terminate(s)
      <4>1. /\ terminating[s] = e /\ CloseMade(s) /\ TableEmpty(map_table[e])
            /\ Answered(e)
        BY <1>0, <1>1, <3>1 DEF Terminate, Goodbyes, Answered
      <4>2. \A m \in Range(net[d]) \cup Range(tasks[d]) : m.type = "READ_OVER"
        BY <1>0, <1>1, <4>1, CloseOver DEF Handshake, Over
      <4>3. \A m \in Range(net[d]) \cup Range(tasks[d]) : m.type # "READ_OVER"
        BY <1>0, <1>1, <4>1, EmptyOver
      <4>4. Range(net[d]) = {} /\ Range(tasks[d]) = {}
        BY <4>2, <4>3
      <4>5. net[d] = <<>> /\ tasks[d] = <<>>
        BY <1>2, <4>4, EmptyRange
      <4>6. net'[d] = net[d]
        <5>1. d # e
          BY <1>1, EndFacts
        <5> QED  BY <1>0, <1>2, <3>1, <4>1, <5>1 DEF Terminate
      <4>7. tasks'[d] = tasks[d] /\ map_table'[e] = map_table[e]
        BY <3>1 DEF Terminate
      <4>8. ~CloseMade(r)'
        BY <1>4, <4>1
      <4> QED  BY <4>1, <4>5, <4>6, <4>7, <4>8
    <3>2. CASE ProcessCloseTerminate(e)
      <4>1. /\ net[d] # <<>> /\ Head(net[d]).type = "CLOSE_TERMINATE" /\ Answer(e, <<>>)
            /\ Holds("CLOSE_TERMINATE", net[d])
        BY <1>0, <1>1, <3>2, Heard DEF ProcessCloseTerminate, Receives
      <4>2. CloseMade(r) /\ status[r] = "CLOSED"
        BY <1>0, <1>1, <1>2, <4>1 DEF Goodbyes
      <4>3. net'[d] = <<>>
        <5>1. net'[d] = Tail(net[d])
          BY <1>0, <1>1, <4>1, AnswerParts, Bare
        <5> QED  BY <1>0, <1>2, <4>1, <5>1, TailDrops DEF Handshake
      <4>4. tasks'[d] = <<>>
        BY <1>0, <1>1, <1>2, <3>2, <4>2, CloseOver DEF Over, ProcessCloseTerminate
      <4>5. TableEmpty(map_table'[e])
        <5>1. reads[e] = <<>> /\ read_cqes[e] = <<>>
          BY <1>0, <1>1, <4>2, Sides
        <5>2. \A b : ~Asks(e, b)
          <6>1. Made(s) = {}
            BY <1>0, <1>1, <1>2, <4>2, CloseAlone
          <6> QED  BY <1>1, <6>1 DEF Asks
        <5>3. DOMAIN map_table[e] = {}
          BY <1>0, <5>1, <5>2, EmptyRest DEF Keys
        <5> QED  BY <3>2, <5>3 DEF ProcessCloseTerminate, TableEmpty
      <4>6. status'[r] = "CLOSED"
        BY <1>0, <1>1, <1>2, <4>2, StaysClosed
      <4> QED  BY <4>3, <4>4, <4>5, <4>6
    <3> QED  BY <1>0, <1>1, <1>6, <2>4, <3>1, <3>2, BecomesClosed
  <2> QED  BY <2>2, <2>3, <2>4
<1> QED  BY <1>5, <1>6

LEMMA KeysStep ==
    ASSUME CloseInv, PullStep, MadeStep, TableStep, Program' = Program
    PROVE  Keys'
<1>0. IInv /\ Origins /\ Ended /\ Keys
  BY DEF CloseInv, SyncInv, OwnInv
<1>1. SUFFICES ASSUME NEW e \in Ends, NEW k \in DOMAIN map_table'[e]
               PROVE  \/ k \in Range(reads'[e]) \cup Range(read_cqes'[e])
                      \/ \E b : Asks(e, b)' /\ k = Addr[b]
  BY DEF Keys
<1>2. CASE k \in DOMAIN map_table[e]
  <2>1. ~DestroyEndpoint(e)
    <3>1. ~TableEmpty(map_table[e])
      BY <1>2 DEF TableEmpty
    <3>2. ~stopped[SessionOf[e]]
      BY <1>0, <3>1 DEF Ended
    <3> QED  BY <3>2 DEF DestroyEndpoint, Joined
  <2>2. ASSUME k \in Range(reads[e]) PROVE k \in Range(reads'[e]) \cup Range(read_cqes'[e])
    BY <2>1, <2>2 DEF PullStep
  <2>3. ASSUME k \in Range(read_cqes[e]) PROVE k \in Range(read_cqes'[e])
    BY <1>1, <2>3 DEF PullStep, TableStep
  <2>4. ASSUME NEW b, Asks(e, b), k = Addr[b] PROVE Asks(e, b)' /\ k = Addr[b]
    BY <2>4, AsksStays
  <2> QED  BY <1>0, <1>2, <2>2, <2>3, <2>4 DEF Keys
<1>3. ASSUME NEW m \in Range(tasks[e]), m.type = "READ_REQUEST", k = Addr[m.buf]
      PROVE  Asks(e, m.buf)' /\ k = Addr[m.buf]
  BY <1>0, <1>3, AsksStays DEF Origins
<1>4. CASE k \in fetches[e] /\ k \in Range(reads'[e])
  BY <1>4
<1> QED  BY <1>1, <1>2, <1>3, <1>4 DEF TableStep

LEMMA CloseInit == Init => CloseInv
<1> SUFFICES ASSUME Init PROVE CloseInv  OBVIOUS
<1>1. SyncInv
  BY SyncInit
<1>2. \A e \in Ends : /\ net[e] = <<>> /\ map_table[e] = <<>>
                      /\ Peer[e] \in Ends /\ SessionOf[e] \in Sessions
                      /\ status[SessionOf[e]] = "WORK" /\ terminating[SessionOf[e]] = None
  BY EndFacts DEF Init, Empty
<1>3. \A s \in Sessions : ~stopped[s]
  BY Zenon DEF Init
<1>4. destroyed = {}
  BY DEF Init
<1>5. \A type : ~Holds(type, <<>>)
  BY EmptyRest DEF Holds
<1>6. Few("CLOSE", <<>>) /\ Order(<<>>)
  BY DEF Few, Order
<1>7. Goodbyes
  BY <1>2, <1>5 DEF Goodbyes
<1>8. Handshake
  BY <1>2, <1>5, <1>6 DEF Handshake, Answered
<1>9. Ended
  BY <1>2, <1>3, <1>4 DEF Ended
<1>10. Keys
  <2>1. \A e \in Ends : DOMAIN map_table[e] = {}
    BY <1>2, EmptyRest
  <2> QED  BY <2>1 DEF Keys
<1> QED  BY <1>1, <1>7, <1>8, <1>9, <1>10 DEF CloseInv

LEMMA CloseSteps ==
    ASSUME IInv, [Next]_vars
    PROVE  StatusStep /\ TermStep /\ TableStep /\ StopStep
BY StatusSteps, TermSteps, TableSteps, StopSteps

LEMMA CloseStep ==
    ASSUME AddressesDiffer, SentOnce, BarrierRounds, ClosesLast, OneEndEach, ~SpuriousWakeups,
           CloseInv, [Next]_vars
    PROVE  CloseInv'
<1>1. SyncInv /\ IInv
  BY DEF CloseInv, SyncInv, OwnInv
<1>2. /\ NetStep /\ TaskStep /\ PullStep /\ MadeStep /\ Program' = Program
      /\ StatusStep /\ TermStep /\ TableStep /\ StopStep
  BY <1>1, Steps, CloseSteps
<1>3. SyncInv'
  BY <1>1, SyncStep
<1>4. Goodbyes'
  BY <1>2, GoodbyesStep
<1>5. Handshake'
  BY <1>2, <1>4, HandshakeStep
<1>6. Ended'
  BY <1>2, EndedStep
<1>7. Keys'
  BY <1>2, KeysStep
<1> QED  BY <1>3, <1>4, <1>5, <1>6, <1>7 DEF CloseInv

LEMMA CloseInvariance ==
    ASSUME AddressesDiffer, SentOnce, BarrierRounds, ClosesLast, OneEndEach, ~SpuriousWakeups
    PROVE  Spec => []CloseInv
<1>1. CloseInv /\ [Next]_vars => CloseInv'
  BY CloseStep
<1> QED  BY <1>1, CloseInit, PTL DEF Spec

-----------------------------------------------------------------------------
(* What a close promises.  Besides what the barrier asks: a close is the     *)
(* last call of its application and comes after a wait for all that was      *)
(* sent, the other application only connects, and each session has one       *)
(* connection.                                                               *)

\* A session that is CLOSED has nothing under way and no entry in a table: the
\* CLOSE_TERMINATE of process_close_ack and process_read_over
\* (rdma_message.cpp) comes after the last READ_OVER, on both sides.
THEOREM QuietCorrect ==
    ASSUME AddressesDiffer, SentOnce, BarrierRounds, ClosesLast, OneEndEach, ~SpuriousWakeups
    PROVE  Spec => []QuietAtClose
<1>1. ASSUME CloseInv PROVE QuietAtClose
  <2> SUFFICES ASSUME NEW e \in Ends, status[SessionOf[e]] = "CLOSED"
               PROVE  /\ fetches[e] = {} /\ reads[e] = <<>> /\ read_cqes[e] = <<>>
                      /\ TableEmpty(map_table[e])
    BY DEF QuietAtClose
  <2>1. CloseMade(SessionOf[e]) \/ CloseMade(SessionOf[Peer[e]])
    BY <1>1 DEF CloseInv, Goodbyes
  <2>2. TableEmpty(map_table[e])
    BY <1>1 DEF CloseInv, Ended
  <2> QED  BY <1>1, <2>1, <2>2, Sides DEF CloseInv
<1> QED  BY <1>1, CloseInvariance, PTL

\* A queue pair is destroyed only when its peer has nothing under way to it, so
\* no bad completion ends the completion thread of the peer, however much the
\* destructors lose (~RDMA_Session, ~RDMA_Endpoint, session_processCQ).
THEOREM GoodbyeCorrect ==
    ASSUME AddressesDiffer, SentOnce, BarrierRounds, ClosesLast, OneEndEach, ~SpuriousWakeups
    PROVE  Spec => []CleanGoodbye
<1>1. ASSUME CloseInv PROVE CleanGoodbye
  <2> SUFFICES ASSUME NEW e \in destroyed
               PROVE  net[Peer[e]] = <<>> /\ reads[Peer[e]] = <<>>
    BY DEF CleanGoodbye
  <2>1. e \in Ends /\ Peer[e] \in Ends /\ Peer[Peer[e]] = e
    BY <1>1, EndFacts DEF CloseInv, SyncInv, OwnInv, IInv, Control
  <2>2. status[SessionOf[e]] = "CLOSED"
    BY <1>1, <2>1 DEF CloseInv, Ended
  <2>3. CloseMade(SessionOf[e]) \/ CloseMade(SessionOf[Peer[e]])
    BY <1>1, <2>1, <2>2 DEF CloseInv, Goodbyes
  <2> QED  BY <1>1, <2>1, <2>2, <2>3, Sides DEF CloseInv, Ended
<1> QED  BY <1>1, CloseInvariance, PTL

\* A session that is CLOSED stays so: no CLOSE or CLOSE_ACK reaches it any more,
\* which process_close and process_close_ack would answer by CLOSING.
THEOREM ClosedForGood ==
    ASSUME AddressesDiffer, SentOnce, BarrierRounds, ClosesLast, OneEndEach, ~SpuriousWakeups
    PROVE  Spec => ClosedIsFinal
<1>1. ASSUME CloseInv, [Next]_vars
      PROVE  \A s \in Sessions : status[s] = "CLOSED" => status'[s] = "CLOSED"
  <2> SUFFICES ASSUME NEW s \in Sessions, status[s] = "CLOSED" PROVE status'[s] = "CLOSED"
    OBVIOUS
  <2>1. PICK e \in Ends : SessionOf[e] = s
    BY SessionEnd
  <2>2. IInv /\ Goodbyes /\ Ended
    BY <1>1 DEF CloseInv, SyncInv, OwnInv
  <2>3. StatusStep
    BY <1>1, <2>2, StatusSteps
  <2> QED  BY <2>1, <2>2, <2>3, StaysClosed
<1>2. CloseInv /\ [Next]_vars => [\A s \in Sessions :
                                    status[s] = "CLOSED" => status'[s] = "CLOSED"]_vars
  BY <1>1
<1> QED  BY <1>2, CloseInvariance, PTL DEF Spec, ClosedIsFinal
=============================================================================
