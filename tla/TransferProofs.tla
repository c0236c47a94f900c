--------------------------- MODULE TransferProofs ---------------------------
(***************************************************************************)
(* Session implements Transfer, and the READ_OVER of a buffer leads its    *)
(* sender to that buffer, for any connections, applications and            *)
(* interleaving, with closes, spurious wakeups and lossy destructors, when *)
(* no two buffers have the same address and each is sent once.             *)
(*                                                                         *)
(* A buffer on its way is in one place only: a task, a message, a pool, an *)
(* RDMA READ or its completion.  When its sender deletes it, it has left   *)
(* the last of them.                                                       *)
(***************************************************************************)
EXTENDS SessionProofs, SequenceLemmas

-----------------------------------------------------------------------------
(* The buffers a sequence of messages is about. *)

\* A message that is about a buffer, and the buffers of a sequence of messages.
Carries(m) == m.type \in {"READ_REQUEST", "READ_OVER"}
Carried(s) == {m.buf : m \in {n \in Range(s) : Carries(n)}}
CarriedOnce(s) == \A i, j \in 1..Len(s) :
    Carries(s[i]) /\ Carries(s[j]) /\ s[i].buf = s[j].buf => i = j
\* t is what is left of s: no message about a buffer is new, or there twice.
Rest(t, s) == /\ \A m \in Range(t) : Carries(m) => m \in Range(s)
              /\ CarriedOnce(s) => CarriedOnce(t)

LEMMA RestCarried ==
    ASSUME NEW s, NEW t, Rest(t, s)
    PROVE  Carried(t) \subseteq Carried(s)
BY DEF Rest, Carried

LEMMA RestSame == ASSUME NEW s PROVE Rest(s, s)
BY DEF Rest

\* A sequence whose elements stand at different places of another.
LEMMA RestPlaces ==
    ASSUME NEW S, NEW s \in Seq(S), NEW t \in Seq(S), NEW f \in [1..Len(t) -> 1..Len(s)],
           \A i \in 1..Len(t) : t[i] = s[f[i]],
           \A i, j \in 1..Len(t) : f[i] = f[j] => i = j
    PROVE  Rest(t, s)
<1>1. DOMAIN s = 1..Len(s) /\ DOMAIN t = 1..Len(t)
  BY LenProperties
<1>2. \A m \in Range(t) : m \in Range(s)
  BY <1>1 DEF Range
<1>3. CarriedOnce(s) => CarriedOnce(t)
  BY DEF CarriedOnce
<1> QED  BY <1>2, <1>3 DEF Rest

LEMMA RestTail ==
    ASSUME NEW S, NEW s \in Seq(S), s # <<>>
    PROVE  /\ Rest(Tail(s), s)
           /\ Head(s) \in Range(s)
           /\ CarriedOnce(s) /\ Carries(Head(s)) => Head(s).buf \notin Carried(Tail(s))
<1>1. /\ Tail(s) \in Seq(S) /\ Len(Tail(s)) = Len(s) - 1 /\ Len(s) \in Nat \ {0}
      /\ Head(s) = s[1] /\ \A i \in 1..Len(s) - 1 : Tail(s)[i] = s[i + 1]
      /\ DOMAIN s = 1..Len(s) /\ DOMAIN Tail(s) = 1..Len(s) - 1
  BY HeadTailProperties, LenProperties, EmptySeq
<1> DEFINE f == [i \in 1..Len(Tail(s)) |-> i + 1]
<1>2. /\ f \in [1..Len(Tail(s)) -> 1..Len(s)]
      /\ \A i \in 1..Len(Tail(s)) : Tail(s)[i] = s[f[i]]
      /\ \A i, j \in 1..Len(Tail(s)) : f[i] = f[j] => i = j
  BY <1>1
<1> HIDE DEF f
<1>3. Rest(Tail(s), s)  BY <1>1, <1>2, RestPlaces
<1>4. ASSUME CarriedOnce(s), Carries(Head(s)), NEW m \in Range(Tail(s)), Carries(m)
      PROVE  m.buf # Head(s).buf
  BY <1>1, <1>4 DEF CarriedOnce, Range
<1> QED  BY <1>1, <1>3, <1>4 DEF Carried, Range

\* What Without leaves.
LEMMA WithoutElements ==
    ASSUME NEW S, NEW s \in Seq(S), NEW i \in 1..Len(s)
    PROVE  LET t == Without(s, i) IN
           /\ t \in Seq(S) /\ Len(t) = Len(s) - 1 /\ Len(s) \in Nat \ {0}
           /\ DOMAIN s = 1..Len(s) /\ DOMAIN t = 1..Len(t)
           /\ \A j \in 1..Len(t) : t[j] = IF j < i THEN s[j] ELSE s[j + 1]
<1> DEFINE t == Without(s, i)
<1>0. Len(s) \in Nat  BY LenProperties
<1>1. /\ SubSeq(s, 1, i - 1) \in Seq(S) /\ Len(SubSeq(s, 1, i - 1)) = i - 1
      /\ \A j \in 1..i - 1 : SubSeq(s, 1, i - 1)[j] = s[j]
  BY <1>0, SubSeqProperties
<1>2. /\ SubSeq(s, i + 1, Len(s)) \in Seq(S) /\ Len(SubSeq(s, i + 1, Len(s))) = Len(s) - i
      /\ \A j \in 1..Len(s) - i : SubSeq(s, i + 1, Len(s))[j] = s[i + j]
  <2> DEFINE m == i + 1
  <2>1. m \in 1..(Len(s) + 1) /\ Len(s) \in m - 1..Len(s)  BY <1>0
  <2>2. /\ SubSeq(s, m, Len(s)) \in Seq(S)
        /\ Len(SubSeq(s, m, Len(s))) = IF m <= Len(s) THEN Len(s) - m + 1 ELSE 0
        /\ \A j \in 1..Len(s) - m + 1 : SubSeq(s, m, Len(s))[j] = s[m + j - 1]
    BY <2>1, SubSeqProperties
  <2> QED  BY <1>0, <2>2
<1>3. /\ t \in Seq(S) /\ Len(t) = (i - 1) + (Len(s) - i)
      /\ \A j \in 1..Len(t) :
           t[j] = IF j <= i - 1 THEN SubSeq(s, 1, i - 1)[j]
                                ELSE SubSeq(s, i + 1, Len(s))[j - (i - 1)]
  <2> DEFINE u == SubSeq(s, 1, i - 1)
             v == SubSeq(s, i + 1, Len(s))
  <2>1. u \in Seq(S) /\ v \in Seq(S) /\ Len(u) = i - 1 /\ Len(v) = Len(s) - i
    BY <1>1, <1>2
  <2> HIDE DEF u, v
  <2>2. /\ u \o v \in Seq(S) /\ Len(u \o v) = Len(u) + Len(v)
        /\ \A j \in 1..Len(u) + Len(v) :
             (u \o v)[j] = IF j <= Len(u) THEN u[j] ELSE v[j - Len(u)]
    BY <2>1, ConcatProperties
  <2>3. t = u \o v  BY DEF Without, u, v
  <2> HIDE DEF t
  <2>4. /\ t \in Seq(S) /\ Len(t) = (i - 1) + (Len(s) - i)
        /\ \A j \in 1..Len(t) : t[j] = IF j <= i - 1 THEN u[j] ELSE v[j - (i - 1)]
    BY <2>1, <2>2, <2>3
  <2> QED  BY <2>4 DEF u, v
<1>4. DOMAIN s = 1..Len(s) /\ DOMAIN t = 1..Len(t)
  BY <1>3, LenProperties
<1>5. ASSUME NEW j \in 1..Len(t), j >= i
      PROVE  SubSeq(s, i + 1, Len(s))[j - (i - 1)] = s[j + 1]
  <2>1. j - (i - 1) \in 1..Len(s) - i /\ i + (j - (i - 1)) = j + 1
    BY <1>0, <1>3, <1>5
  <2> QED  BY <1>2, <2>1
<1> HIDE DEF t
<1>6. ASSUME NEW j \in 1..Len(t)
      PROVE  t[j] = IF j < i THEN s[j] ELSE s[j + 1]
  BY <1>0, <1>1, <1>3, <1>5, <1>6
<1>7. /\ t \in Seq(S) /\ Len(t) = Len(s) - 1 /\ Len(s) \in Nat \ {0}
      /\ DOMAIN s = 1..Len(s) /\ DOMAIN t = 1..Len(t)
      /\ \A j \in 1..Len(t) : t[j] = IF j < i THEN s[j] ELSE s[j + 1]
  BY <1>0, <1>3, <1>4, <1>6
<1> QED  BY <1>7 DEF t

LEMMA RestWithout ==
    ASSUME NEW S, NEW s \in Seq(S), NEW i \in 1..Len(s)
    PROVE  /\ Rest(Without(s, i), s)
           /\ s[i] \in Range(s)
           /\ CarriedOnce(s) /\ Carries(s[i]) => s[i].buf \notin Carried(Without(s, i))
<1> DEFINE t == Without(s, i)
<1>1. /\ t \in Seq(S) /\ Len(t) = Len(s) - 1 /\ Len(s) \in Nat \ {0}
      /\ DOMAIN s = 1..Len(s) /\ DOMAIN t = 1..Len(t)
      /\ \A j \in 1..Len(t) : t[j] = IF j < i THEN s[j] ELSE s[j + 1]
  BY WithoutElements
<1> DEFINE f == [j \in 1..Len(t) |-> IF j < i THEN j ELSE j + 1]
<1> HIDE DEF t
<1>2. /\ f \in [1..Len(t) -> 1..Len(s)]
      /\ \A j \in 1..Len(t) : t[j] = s[f[j]] /\ f[j] # i
      /\ \A j, k \in 1..Len(t) : f[j] = f[k] => j = k
  BY <1>1
<1> HIDE DEF f
<1>3. Rest(t, s)  BY <1>1, <1>2, RestPlaces
<1>4. ASSUME CarriedOnce(s), Carries(s[i]), NEW m \in Range(t), Carries(m)
      PROVE  m.buf # s[i].buf
  <2>1. PICK j \in 1..Len(t) : m = s[f[j]] /\ f[j] # i
    BY <1>1, <1>2, <1>4 DEF Range
  <2> QED  BY <1>2, <1>4, <2>1 DEF CarriedOnce
<1> QED  BY <1>1, <1>3, <1>4 DEF Carried, Range, t

LEMMA RestPrefix ==
    ASSUME NEW S, NEW s \in Seq(S), NEW n \in 0..Len(s)
    PROVE  Rest(SubSeq(s, 1, n), s)
<1>1. /\ SubSeq(s, 1, n) \in Seq(S) /\ Len(SubSeq(s, 1, n)) = n
      /\ \A i \in 1..n : SubSeq(s, 1, n)[i] = s[i]
  BY LenProperties, SubSeqProperties
<1> DEFINE t == SubSeq(s, 1, n)
           f == [i \in 1..n |-> i]
<1>2. /\ f \in [1..Len(t) -> 1..Len(s)]
      /\ \A i \in 1..Len(t) : t[i] = s[f[i]]
      /\ \A i, j \in 1..Len(t) : f[i] = f[j] => i = j
  BY <1>1, LenProperties
<1>3. t \in Seq(S)  BY <1>1
<1> HIDE DEF f, t
<1>4. Rest(t, s)  BY <1>2, <1>3, RestPlaces
<1> QED  BY <1>4 DEF t

\* A message that is about no buffer, and one that is.
LEMMA AppendBare ==
    ASSUME NEW S, NEW s \in Seq(S), NEW m \in S, ~Carries(m)
    PROVE  Rest(Append(s, m), s)
<1>1. /\ Len(Append(s, m)) = Len(s) + 1 /\ Len(s) \in Nat
      /\ \A i \in 1..Len(s) : Append(s, m)[i] = s[i]
      /\ Append(s, m)[Len(s) + 1] = m
  BY AppendProperties, LenProperties
<1>2. CarriedOnce(s) => CarriedOnce(Append(s, m))
  BY <1>1 DEF CarriedOnce
<1> QED  BY <1>2, RangeOfAppend DEF Rest

LEMMA AppendCarries ==
    ASSUME NEW S, NEW s \in Seq(S), NEW m \in S, Carries(m)
    PROVE  /\ Range(Append(s, m)) = Range(s) \cup {m}
           /\ Carried(Append(s, m)) = Carried(s) \cup {m.buf}
           /\ CarriedOnce(s) /\ m.buf \notin Carried(s) => CarriedOnce(Append(s, m))
<1>1. Range(Append(s, m)) = Range(s) \cup {m}  BY RangeOfAppend
<1>2. Carried(Append(s, m)) = Carried(s) \cup {m.buf}
  BY <1>1 DEF Carried
<1>3. ASSUME CarriedOnce(s), m.buf \notin Carried(s)
      PROVE  CarriedOnce(Append(s, m))
  <2>1. /\ Len(Append(s, m)) = Len(s) + 1 /\ Len(s) \in Nat
        /\ \A i \in 1..Len(s) : Append(s, m)[i] = s[i]
        /\ Append(s, m)[Len(s) + 1] = m
    BY AppendProperties, LenProperties
  <2>2. \A i \in 1..Len(s) : Carries(s[i]) => s[i].buf # m.buf
    BY <1>3, LenProperties DEF Carried, Range
  <2> QED  BY <1>3, <2>1, <2>2 DEF CarriedOnce
<1> QED  BY <1>1, <1>2, <1>3

-----------------------------------------------------------------------------
(* The invariant. *)

\* The buffers in each of the places a buffer passes.
Kinds == {"task", "net", "fetch", "read", "cqe"}
At(kind, e) ==
    CASE kind = "task"  -> Carried(tasks[e])
      [] kind = "net"   -> Carried(net[e])
      [] kind = "fetch" -> fetches[e]
      [] kind = "read"  -> Range(reads[e])
      [] kind = "cqe"   -> Range(read_cqes[e])

\* A buffer is in one place only, and there once.
Only(b, k, e) == \A l \in Kinds, f \in Ends : b \in At(l, f) => l = k /\ f = e
Apart == \A k \in Kinds, e \in Ends : \A b \in At(k, e) : Only(b, k, e)
Once == \A e \in Ends : /\ CarriedOnce(tasks[e]) /\ CarriedOnce(net[e])
                        /\ Distinct(reads[e]) /\ Distinct(read_cqes[e])

\* The entry of b at its sender, and at its reader.
Entered(e, b) == FindInTable(map_table[e], Addr[b]) = b
Noted(e, b) == FindInTable(map_table[e], b) = Addr[b]

\* The entries of a buffer are there for as long as they will be looked for.
EntriesOf(b) == \A e \in Ends :
    /\ \A m \in Range(net[e]) : m.type = "READ_REQUEST" /\ m.buf = b => Entered(e, b)
    /\ b \in fetches[e] \cup Range(reads[e]) \cup Range(read_cqes[e]) => Entered(Peer[e], b)
    /\ \A m \in Range(tasks[e]) \cup Range(net[e]) :
         m.type = "READ_OVER" /\ m.buf = b => m.addr = Addr[b] /\ Entered(Peer[e], b)
    /\ b \in Range(reads[e]) \cup Range(read_cqes[e]) => Noted(e, b)
Entries == \A b \in Buffers : EntriesOf(b)

\* Nothing that is under way concerns a buffer that is deleted.
Gone == \A k \in Kinds, e \in Ends : \A b \in At(k, e) : b \notin deleted

Places == Apart /\ Once /\ Entries /\ Gone

OwnInv == IInv /\ Places

-----------------------------------------------------------------------------
(* Steps that add no buffer to any place. *)

LEMMA Lost ==
    ASSUME Apart, \A k \in Kinds, e \in Ends : At(k, e)' \subseteq At(k, e)
    PROVE  Apart'
BY DEF Apart, Only

\* No message, READ or entry of b is new, and no entry is lost.
Stays(b) == \A e \in Ends :
    /\ \A m \in Range(net[e])' : Carries(m) /\ m.buf = b => m \in Range(net[e])
    /\ \A m \in Range(tasks[e])' : Carries(m) /\ m.buf = b => m \in Range(tasks[e])
    /\ b \in fetches[e]' => b \in fetches[e]
    /\ b \in Range(reads[e])' => b \in Range(reads[e])
    /\ b \in Range(read_cqes[e])' => b \in Range(reads[e]) \cup Range(read_cqes[e])
    /\ Entered(e, b) => Entered(e, b)'
    /\ Noted(e, b) => Noted(e, b)'

LEMMA StaysEntered ==
    ASSUME NEW b, EntriesOf(b), Stays(b)
    PROVE  EntriesOf(b)'
BY EndFacts DEF EntriesOf, Stays, Carries

Quiet ==
    /\ \A e \in Ends : /\ Rest(tasks[e]', tasks[e])
                       /\ Rest(net[e]', net[e])
                       /\ fetches[e]' \subseteq fetches[e]
                       /\ reads[e]' = reads[e] \/ reads[e]' = <<>>
                       /\ read_cqes[e]' = read_cqes[e]
    /\ UNCHANGED <<map_table, deleted>>

LEMMA EmptyRest ==
    /\ Range(<<>>) = {}
    /\ Distinct(<<>>)
BY DEF Range, Distinct

LEMMA QuietPlaces ==
    ASSUME Places, Quiet
    PROVE  Places'
<1>1. \A e \in Ends : /\ Range(reads[e])' \subseteq Range(reads[e])
                      /\ Distinct(reads[e]) => Distinct(reads[e])'
                      /\ Range(read_cqes[e])' = Range(read_cqes[e])
                      /\ Distinct(read_cqes[e])' = Distinct(read_cqes[e])
  BY EmptyRest DEF Quiet
<1>2. Apart' /\ Gone'
  <2>1. \A e \in Ends : /\ Carried(tasks[e])' \subseteq Carried(tasks[e])
                        /\ Carried(net[e])' \subseteq Carried(net[e])
    BY RestCarried DEF Quiet
  <2>2. ASSUME NEW k \in Kinds, NEW e \in Ends
        PROVE  At(k, e)' \subseteq At(k, e)
    BY <1>1, <2>1 DEF Kinds, At, Quiet
  <2> QED  BY <2>2, Lost DEF Places, Gone, Quiet
<1>3. Once'
  BY <1>1 DEF Once, Places, Quiet, Rest
<1>4. ASSUME NEW b \in Buffers PROVE EntriesOf(b)'
  <2>1. Stays(b)
    BY <1>1 DEF Quiet, Rest, Stays, Entered, Noted
  <2> QED  BY <2>1, StaysEntered DEF Places, Entries
<1> QED  BY <1>2, <1>3, <1>4 DEF Places, Entries

LEMMA Typed ==
    ASSUME IInv
    PROVE  /\ tasks \in [Ends -> Seq(Messages)] /\ net \in [Ends -> Seq(Messages)]
           /\ fetches \in [Ends -> SUBSET Buffers]
           /\ reads \in [Ends -> Seq(Buffers)] /\ read_cqes \in [Ends -> Seq(Buffers)]
           /\ \A e \in Ends : GoodTable(map_table[e])
           /\ map_table = [e \in Ends |-> map_table[e]]
           /\ Sent \subseteq Buffers
<1>1. TypeOK  BY InvariantTypes
<1> QED  BY <1>1, SentType DEF TypeOK, IInv, Tables

LEMMA Bare ==
    ASSUME NEW type \in {"ACK", "CLOSE", "CLOSE_ACK", "CLOSE_TERMINATE", "SYNC_ACK"}
    PROVE  Message(type) \in Messages /\ ~Carries(Message(type))
BY DEF Messages, Message, Carries

\* A message that is about no buffer is added.
LEMMA PostBare ==
    ASSUME NEW f, f \in [Ends -> Seq(Messages)], NEW e \in Ends,
           NEW m \in Messages, ~Carries(m)
    PROVE  \A g \in Ends : Rest([f EXCEPT ![e] = Append(@, m)][g], f[g])
BY AppendBare, RestSame

\* The message handled goes, and at most a bare one comes.
LEMMA AnswerRest ==
    ASSUME net \in [Ends -> Seq(Messages)], NEW e \in Ends, net[Peer[e]] # <<>>,
           \/ Answer(e, <<>>)
           \/ Answer(e, <<Message("ACK")>>)
           \/ Answer(e, <<Message("CLOSE_ACK")>>)
    PROVE  /\ net' \in [Ends -> Seq(Messages)]
           /\ net'[Peer[e]] = Tail(net[Peer[e]])
           /\ \A g \in Ends : Rest(net'[g], net[g])
<1>1. Peer[e] \in Ends /\ Peer[e] # e  BY EndFacts
<1>2. net[e] \o <<>> = net[e]
  BY ConcatEmptySeq
<1>3. ASSUME NEW m \in Messages PROVE net[e] \o <<m>> = Append(net[e], m)
  BY <1>3, AppendIsConcat
<1>4. /\ Message("ACK") \in Messages /\ ~Carries(Message("ACK"))
      /\ Message("CLOSE_ACK") \in Messages /\ ~Carries(Message("CLOSE_ACK"))
  BY Bare
<1>5. Rest(Tail(net[Peer[e]]), net[Peer[e]]) /\ Tail(net[Peer[e]]) \in Seq(Messages)
  BY <1>1, RestTail, HeadTailProperties
<1>6. ASSUME NEW t \in Seq(Messages), Rest(t, net[e]),
             net' = [net EXCEPT ![Peer[e]] = Tail(@), ![e] = t]
      PROVE  /\ net' \in [Ends -> Seq(Messages)]
             /\ net'[Peer[e]] = Tail(net[Peer[e]])
             /\ \A g \in Ends : Rest(net'[g], net[g])
  BY <1>1, <1>5, <1>6, RestSame
<1>7. CASE Answer(e, <<>>)
  <2>1. net' = [net EXCEPT ![Peer[e]] = Tail(@), ![e] = net[e]]
    BY <1>1, <1>2, <1>7 DEF Answer
  <2> QED  BY <1>6, <2>1, RestSame
<1>8. ASSUME NEW m \in Messages, ~Carries(m), Answer(e, <<m>>)
      PROVE  /\ net' \in [Ends -> Seq(Messages)]
             /\ net'[Peer[e]] = Tail(net[Peer[e]])
             /\ \A g \in Ends : Rest(net'[g], net[g])
  <2>1. net' = [net EXCEPT ![Peer[e]] = Tail(@), ![e] = Append(net[e], m)]
    BY <1>1, <1>3, <1>8 DEF Answer
  <2>2. Append(net[e], m) \in Seq(Messages) /\ Rest(Append(net[e], m), net[e])
    BY <1>8, AppendProperties, AppendBare
  <2> QED  BY <1>6, <2>1, <2>2
<1> QED  BY <1>4, <1>7, <1>8

\* The calls other than send_data, and the ends of sessions and queue pairs.
LEMMA SessionQuiet ==
    ASSUME IInv, NEW s \in Sessions,
           \/ Application(s) /\ ~SendData(s)
           \/ SpuriousWakeup(s)
           \/ Terminate(s)
           \/ StopProcess(s)
    PROVE  Quiet
<1>1. UNCHANGED <<pull, map_table, deleted>>
  BY DEF Application, SetSyncBarrier, WaitForSync, Close, SpuriousWakeup, Terminate,
      StopProcess, gone
<1>2. \A e \in Ends : Rest(tasks[e], tasks[e]) /\ Rest(net[e], net[e])
  BY RestSame
<1>3. CASE SetSyncBarrier(s)
  <2> DEFINE m == [type |-> "SYNC_REQUEST", size |-> Call(s).size]
  <2>1. Call(s).end \in Ends /\ Call(s).size \in Nat
    BY <1>3, CallType DEF SetSyncBarrier, Makes, IInv
  <2>2. m \in Messages /\ ~Carries(m)
    BY <2>1 DEF Messages, Carries
  <2>3. tasks' = [tasks EXCEPT ![Call(s).end] = Append(@, m)]
    BY <1>3 DEF SetSyncBarrier, AddTask
  <2> HIDE DEF m
  <2>4. \A e \in Ends : Rest(tasks'[e], tasks[e])
    BY <2>1, <2>2, <2>3, Typed, PostBare
  <2> QED  BY <1>1, <1>2, <1>3, <2>4 DEF SetSyncBarrier, pull, Quiet
<1>4. ASSUME NEW e \in Ends, NEW m \in Messages, ~Carries(m), UNCHANGED tasks,
             net' = [net EXCEPT ![e] = Append(@, m)]
      PROVE  Quiet
  <2>1. \A g \in Ends : Rest(net'[g], net[g])
    BY <1>4, Typed, PostBare
  <2> QED  BY <1>1, <1>2, <1>4, <2>1 DEF pull, Quiet
<1>5. CASE Close(s)
  BY <1>4, <1>5, CallType, Bare DEF Close, Makes, IInv
<1>6. CASE Terminate(s)
  BY <1>4, <1>6, Bare DEF Terminate, IInv, Control
<1>7. CASE WaitForSync(s) \/ SpuriousWakeup(s) \/ StopProcess(s)
  BY <1>1, <1>2, <1>7 DEF WaitForSync, SpuriousWakeup, StopProcess, chan, pull, Quiet
<1> QED  BY <1>3, <1>5, <1>6, <1>7 DEF Application

LEMMA QueuePairQuiet ==
    ASSUME IInv, NEW e \in Ends, BadCompletion(e) \/ DestroyEndpoint(e)
    PROVE  Quiet
<1>1. \A g \in Ends : Rest(tasks[g], tasks[g]) /\ Rest(net[g], net[g])
  BY RestSame
<1>2. CASE BadCompletion(e)
  BY <1>1, <1>2 DEF BadCompletion, chan, pull, gone, Quiet
<1>3. CASE DestroyEndpoint(e)
  <2>1. PICK n \in 0..Len(net[e]) : net' = [net EXCEPT ![e] = SubSeq(net[e], 1, n)]
    BY <1>3 DEF DestroyEndpoint
  <2>2. Rest(SubSeq(net[e], 1, n), net[e])
    BY Typed, RestPrefix
  <2>3. \A g \in Ends : Rest(net'[g], net[g])
    BY <1>1, <2>1, <2>2, Typed
  <2>4. \A g \in Ends : reads'[g] = reads[g] \/ reads'[g] = <<>>
    BY <1>3, Typed DEF DestroyEndpoint
  <2> QED  BY <1>1, <1>3, <2>3, <2>4 DEF DestroyEndpoint, Quiet
<1> QED  BY <1>2, <1>3

\* The handlers of messages that are about no buffer.
LEMMA HandlersQuiet ==
    ASSUME IInv, NEW e \in Ends, Handlers(e), ~ProcessReadRequest(e),
           ~ProcessReadSuccess(e), ~ProcessReadOver(e)
    PROVE  Quiet
<1>1. UNCHANGED <<tasks, pull, map_table, deleted>> /\ net[Peer[e]] # <<>>
  BY DEF Handlers, ProcessAck, ProcessSyncRequest, ProcessClose, ProcessCloseAck,
      ProcessCloseTerminate, ProcessSyncAck, Receives, gone
<1>2. \/ Answer(e, <<>>)
      \/ Answer(e, <<Message("ACK")>>)
      \/ Answer(e, <<Message("CLOSE_ACK")>>)
  BY DEF Handlers, ProcessAck, ProcessSyncRequest, ProcessClose, ProcessCloseAck,
      ProcessCloseTerminate, ProcessSyncAck
<1>3. \A g \in Ends : Rest(net'[g], net[g])
  BY <1>1, <1>2, Typed, AnswerRest
<1> QED  BY <1>1, <1>3, RestSame DEF pull, Quiet

-----------------------------------------------------------------------------
(* What insert_to_table and find_in_table do to the entries of all buffers. *)

LEMMA InsertFinds ==
    ASSUME AddressesDiffer, NEW t, GoodTable(t), NEW b \in Buffers,
           NEW key, NEW value, \/ key = b /\ value = Addr[b]
                               \/ key = Addr[b] /\ value = b
    PROVE  /\ FindInTable(InsertToTable(t, key, value), key) = value
           /\ \A c \in Buffers :
                LET u == InsertToTable(t, key, value) IN
                /\ FindInTable(t, c) = Addr[c] => FindInTable(u, c) = Addr[c]
                /\ FindInTable(t, Addr[c]) = c => FindInTable(u, Addr[c]) = c
<1> DEFINE u == InsertToTable(t, key, value)
<1>1. Addr[b] \in Range(Addr)  BY AddrAssumption
<1>2. key \in DOMAIN u /\ u[key] = IF key \in DOMAIN t THEN t[key] ELSE value
  BY DEF InsertToTable
<1>3. key \in DOMAIN t => t[key] = value
  BY <1>1 DEF GoodTable, AddressesDiffer
<1>4. \A c \in Buffers : c # None /\ Addr[c] # None
  BY AddrAssumption, NoneAssumption
<1>5. ASSUME NEW k, k \in DOMAIN t PROVE FindInTable(u, k) = FindInTable(t, k)
  BY <1>5 DEF InsertToTable, FindInTable
<1>6. ASSUME NEW k, k \notin DOMAIN t PROVE FindInTable(t, k) = None
  BY <1>6 DEF FindInTable
<1>7. FindInTable(u, key) = value
  BY <1>2, <1>3 DEF FindInTable
<1> HIDE DEF u
<1>8. ASSUME NEW c \in Buffers
      PROVE  /\ FindInTable(t, c) = Addr[c] => FindInTable(u, c) = Addr[c]
             /\ FindInTable(t, Addr[c]) = c => FindInTable(u, Addr[c]) = c
  BY <1>4, <1>5, <1>6
<1> QED  BY <1>7, <1>8 DEF u

LEMMA EraseFinds ==
    ASSUME AddressesDiffer, NEW t, NEW b \in Buffers, NEW key \in {b, Addr[b]}
    PROVE  \A c \in Buffers :
             /\ c # b \/ key = Addr[b] =>
                  FindInTable(Erase(t, key), c) = FindInTable(t, c)
             /\ c # b \/ key = b =>
                  FindInTable(Erase(t, key), Addr[c]) = FindInTable(t, Addr[c])
<1>1. ASSUME NEW k, k # key PROVE FindInTable(Erase(t, key), k) = FindInTable(t, k)
  BY <1>1 DEF Erase, Restrict, FindInTable
<1>2. ASSUME NEW c \in Buffers
      PROVE  /\ Addr[c] \in Range(Addr) /\ Addr[c] # b /\ c # Addr[b]
             /\ c # b => Addr[c] # Addr[b]
  BY AddrAssumption DEF AddressesDiffer
<1> QED  BY <1>1, <1>2

\* A step that inserts at e, or erases at e.
LEMMA EntriesInserted ==
    ASSUME AddressesDiffer, IInv, NEW e \in Ends, NEW b \in Buffers,
           NEW key, NEW value, \/ key = b /\ value = Addr[b]
                               \/ key = Addr[b] /\ value = b,
           map_table' = [map_table EXCEPT ![e] = InsertToTable(@, key, value)]
    PROVE  /\ \A g \in Ends, c \in Buffers : /\ Entered(g, c) => Entered(g, c)'
                                             /\ Noted(g, c) => Noted(g, c)'
           /\ key = b => Noted(e, b)'
           /\ key = Addr[b] => Entered(e, b)'
<1>1. /\ map_table'[e] = InsertToTable(map_table[e], key, value)
      /\ \A g \in Ends : g # e => map_table'[g] = map_table[g]
      /\ GoodTable(map_table[e])
  BY Typed
<1>2. /\ FindInTable(map_table'[e], key) = value
      /\ \A c \in Buffers :
           /\ FindInTable(map_table[e], c) = Addr[c] => FindInTable(map_table'[e], c) = Addr[c]
           /\ FindInTable(map_table[e], Addr[c]) = c => FindInTable(map_table'[e], Addr[c]) = c
  BY <1>1, InsertFinds
<1> QED  BY <1>1, <1>2 DEF Entered, Noted

LEMMA EntriesErased ==
    ASSUME AddressesDiffer, IInv, NEW e \in Ends, NEW b \in Buffers,
           NEW key \in {b, Addr[b]},
           map_table' = [map_table EXCEPT ![e] = Erase(@, key)]
    PROVE  \A g \in Ends, c \in Buffers :
             /\ g # e \/ c # b \/ key = b => (Entered(g, c) => Entered(g, c)')
             /\ g # e \/ c # b \/ key = Addr[b] => (Noted(g, c) => Noted(g, c)')
<1>1. /\ map_table'[e] = Erase(map_table[e], key)
      /\ \A g \in Ends : g # e => map_table'[g] = map_table[g]
  BY Typed
<1>2. \A c \in Buffers :
        /\ c # b \/ key = Addr[b] => FindInTable(map_table'[e], c) = FindInTable(map_table[e], c)
        /\ c # b \/ key = b =>
             FindInTable(map_table'[e], Addr[c]) = FindInTable(map_table[e], Addr[c])
  BY <1>1, EraseFinds
<1> QED  BY <1>1, <1>2 DEF Entered, Noted

-----------------------------------------------------------------------------
(* The steps of a buffer, from send_data on. *)

LEMMA PlacesSent ==
    ASSUME IInv, NEW k \in Kinds, NEW e \in Ends
    PROVE  At(k, e) \subseteq Sent
<1>1. received \subseteq Sent  BY DEF IInv, Stages
<1>2. ASSUME NEW s \in Seq(Msgs(Sent, received)) PROVE Carried(s) \subseteq Sent
  <2> SUFFICES ASSUME NEW m \in Range(s), Carries(m) PROVE m.buf \in Sent
    BY DEF Carried
  <2>1. m \in Msgs(Sent, received)
    BY <1>2, ElementOfSeq, LenProperties DEF Range
  <2> QED  BY <1>1, <2>1, Said DEF Carries
<1>3. ASSUME NEW S, NEW s \in Seq(S) PROVE Range(s) \subseteq S
  BY <1>3, ElementOfSeq, LenProperties DEF Range
<1>4. /\ tasks[e] \in Seq(Msgs(Sent, received)) /\ net[e] \in Seq(Msgs(Sent, received))
      /\ fetches[e] \subseteq Sent
      /\ reads[e] \in Seq(Sent) /\ read_cqes[e] \in Seq(received)
  BY DEF IInv, Flow
<1>5. /\ Carried(tasks[e]) \subseteq Sent /\ Carried(net[e]) \subseteq Sent
      /\ Range(reads[e]) \subseteq Sent /\ Range(read_cqes[e]) \subseteq Sent
  BY <1>1, <1>2, <1>3, <1>4
<1> QED  BY <1>4, <1>5 DEF Kinds, At

\* A buffer given to send_data was not sent before.
LEMMA NewlySent ==
    ASSUME SentOnce, IInv, NEW s \in Sessions, Makes(s, "send_data")
    PROVE  Call(s).buf \notin Sent
<1>1. /\ setup \in Setups /\ Program = setup.program
      /\ pc[s] \in Nat /\ pc[s] + 1 \in 1..Len(Program[s])
  BY ProgramType DEF IInv, Calling, Program, Makes, Returned
<1>2. ASSUME NEW r \in Sessions, NEW i \in Made(r), Program[r][i].op = "send_data",
             Program[r][i].buf = Call(s).buf
      PROVE  FALSE
  <2>1. i \in 1..Len(Program[r]) /\ i <= pc[r]
    BY DEF Made
  <2>2. Program[s][pc[s] + 1].op = "send_data" /\ Program[s][pc[s] + 1].buf = Call(s).buf
    BY DEF Makes, Call
  <2>3. r = s /\ i = pc[s] + 1
    BY <1>1, <1>2, <2>1, <2>2 DEF SentOnce
  <2> QED  BY <1>1, <2>1, <2>3
<1> QED  BY <1>2 DEF Sent

\* Where a buffer comes from it is in no other place.
LEMMA Placed ==
    /\ \A e : At("task", e) = Carried(tasks[e])
    /\ \A e : At("net", e) = Carried(net[e])
    /\ \A e : At("fetch", e) = fetches[e]
    /\ \A e : At("read", e) = Range(reads[e])
    /\ \A e : At("cqe", e) = Range(read_cqes[e])
BY DEF At

LEMMA OnlyThere ==
    ASSUME NEW b, NEW k, NEW e, Only(b, k, e)
    PROVE  \A g \in Ends :
             /\ b \in Carried(tasks[g]) => k = "task" /\ g = e
             /\ b \in Carried(net[g]) => k = "net" /\ g = e
             /\ b \in fetches[g] => k = "fetch" /\ g = e
             /\ b \in Range(reads[g]) => k = "read" /\ g = e
             /\ b \in Range(read_cqes[g]) => k = "cqe" /\ g = e
<1>1. ASSUME NEW l \in Kinds, NEW g \in Ends, b \in At(l, g)
      PROVE  l = k /\ g = e
  BY <1>1 DEF Only
<1>2. {"task", "net", "fetch", "read", "cqe"} \subseteq Kinds
  BY DEF Kinds
<1> QED  BY <1>1, <1>2, Placed

\* What to show of a step that brings b to a place and leaves the others alone.
LEMMA MovedPlaces ==
    ASSUME Places, NEW b, NEW l \in Kinds, NEW f \in Ends,
           \A k \in Kinds, e \in Ends :
             /\ \A c \in At(k, e)' : c = b \/ c \in At(k, e)
             /\ b \in At(k, e)' => k = l /\ e = f,
           deleted' = deleted, b \notin deleted,
           Once',
           \A c \in Buffers : c # b => Stays(c),
           EntriesOf(b)'
    PROVE  Places'
<1>1. Apart'
  <2>1. Apart  BY DEF Places
  <2> QED  BY <2>1 DEF Apart, Only
<1>2. Gone'
  BY DEF Places, Gone
<1>3. ASSUME NEW c \in Buffers, c # b PROVE EntriesOf(c)'
  BY <1>3, StaysEntered DEF Places, Entries
<1> QED  BY <1>1, <1>2, <1>3 DEF Places, Entries

LEMMA SendDataPlaces ==
    ASSUME SentOnce, OwnInv, NEW s \in Sessions, SendData(s)
    PROVE  Places'
<1>0. PICK b \in Buffers, e \in Ends : b = Call(s).buf /\ e = Call(s).end
  BY CallType DEF SendData, Makes, OwnInv, IInv
<1> DEFINE m == [type |-> "READ_REQUEST", buf |-> b]
<1>1. /\ tasks' = [tasks EXCEPT ![e] = Append(@, m)]
      /\ UNCHANGED <<net, fetches, reads, read_cqes, map_table>>
  BY <1>0 DEF SendData, AddTask, pull
<1>2. /\ \A k \in Kinds, g \in Ends : b \notin At(k, g)
      /\ deleted' = deleted /\ b \notin deleted
  BY <1>0, NewlySent, PlacesSent DEF SendData, OwnInv, IInv, Stages, gone
<1>3. m \in Messages /\ Carries(m) /\ m.buf = b /\ m.type # "READ_OVER"
  BY DEF Messages, Carries
<1> HIDE DEF m
<1>4. /\ \A g \in Ends : g # e => tasks'[g] = tasks[g]
      /\ tasks'[e] = Append(tasks[e], m) /\ tasks[e] \in Seq(Messages)
  BY <1>1, Typed DEF OwnInv
<1>5. /\ Range(tasks'[e]) = Range(tasks[e]) \cup {m}
      /\ Carried(tasks'[e]) = Carried(tasks[e]) \cup {b}
      /\ CarriedOnce(tasks[e]) /\ b \notin Carried(tasks[e]) => CarriedOnce(tasks'[e])
  BY <1>3, <1>4, AppendCarries
<1>6. ASSUME NEW k \in Kinds, NEW g \in Ends
      PROVE  /\ \A c \in At(k, g)' : c = b \/ c \in At(k, g)
             /\ b \in At(k, g)' => k = "task" /\ g = e
  BY <1>1, <1>2, <1>4, <1>5 DEF Kinds, At
<1>7. Once'
  BY <1>1, <1>2, <1>4, <1>5, Placed DEF Once, OwnInv, Places, Kinds
<1>8. ASSUME NEW c \in Buffers, c # b PROVE Stays(c)
  BY <1>1, <1>3, <1>4, <1>5, <1>8 DEF Stays, Entered, Noted
<1>9. EntriesOf(b)'
  <2>1. EntriesOf(b)  BY <1>1 DEF OwnInv, Places, Entries
  <2>2. \A g \in Ends : b \notin fetches[g] \cup Range(reads[g]) \cup Range(read_cqes[g])
    BY <1>2, Placed DEF Kinds
  <2>3. \A g \in Ends : \A n \in Range(tasks'[g]) : n.type = "READ_OVER" => n \in Range(tasks[g])
    BY <1>3, <1>4, <1>5
  <2> QED  BY <1>1, <2>1, <2>2, <2>3 DEF EntriesOf, Entered, Noted
<1>10. "task" \in Kinds /\ Places /\ deleted' = deleted /\ b \notin deleted
  BY <1>2 DEF Kinds, OwnInv
<1> QED  BY <1>6, <1>7, <1>8, <1>9, <1>10, MovedPlaces

LEMMA RunTaskPlaces ==
    ASSUME AddressesDiffer, OwnInv, NEW e \in Ends, NEW i \in 1..Len(tasks[e]), RunTask(e, i)
    PROVE  Places'
<1>0. PICK m : m = tasks[e][i]  OBVIOUS
<1> DEFINE b == m.buf
<1>1. /\ tasks' = [tasks EXCEPT ![e] = Without(@, i)]
      /\ net' = [net EXCEPT ![e] = Append(@, m)]
      /\ UNCHANGED <<fetches, reads, read_cqes, deleted>>
      /\ map_table' = IF m.type = "READ_REQUEST"
                      THEN [map_table EXCEPT ![e] = InsertToTable(@, Addr[b], b)]
                      ELSE map_table
  BY <1>0 DEF RunTask, pull, gone
<1>2. /\ tasks \in [Ends -> Seq(Messages)] /\ net \in [Ends -> Seq(Messages)]
      /\ m \in Messages
  BY <1>0, Typed, ElementOfSeq DEF OwnInv
<1>3. /\ \A g \in Ends : g # e => tasks'[g] = tasks[g] /\ net'[g] = net[g]
      /\ tasks'[e] = Without(tasks[e], i) /\ net'[e] = Append(net[e], m)
  BY <1>1, <1>2
<1>4. /\ Rest(tasks'[e], tasks[e]) /\ m \in Range(tasks[e])
      /\ CarriedOnce(tasks[e]) /\ Carries(m) => b \notin Carried(tasks'[e])
  BY <1>0, <1>2, <1>3, RestWithout
<1>5. CASE ~Carries(m)
  <2>1. Rest(net'[e], net[e])  BY <1>2, <1>3, <1>5, AppendBare
  <2>2. Quiet
    BY <1>1, <1>3, <1>4, <1>5, <2>1, RestSame DEF Quiet, Carries
  <2> QED  BY <2>2, QuietPlaces DEF OwnInv
<1>6. CASE Carries(m)
  <2>1. b \in Buffers  BY <1>2, <1>6 DEF Messages, Message, Carries
  <2>2. /\ Range(net'[e]) = Range(net[e]) \cup {m}
        /\ Carried(net'[e]) = Carried(net[e]) \cup {b}
        /\ CarriedOnce(net[e]) /\ b \notin Carried(net[e]) => CarriedOnce(net'[e])
    BY <1>2, <1>3, <1>6, AppendCarries
  <2>3. Only(b, "task", e) /\ b \notin deleted
    BY <1>4, <1>6, Placed DEF OwnInv, Places, Apart, Gone, Kinds, Carried
  <2>4. CarriedOnce(tasks[e])  BY DEF OwnInv, Places, Once
  <2>5. Carried(tasks'[e]) \subseteq Carried(tasks[e]) /\ b \notin Carried(tasks'[e])
    BY <1>4, <1>6, <2>4, RestCarried
  <2>6. ASSUME NEW k \in Kinds, NEW g \in Ends
        PROVE  /\ \A c \in At(k, g)' : c = b \/ c \in At(k, g)
               /\ b \in At(k, g)' => k = "net" /\ g = e
    <3>1. b \in At(k, g) => k = "task" /\ g = e
      BY <2>3 DEF Only
    <3> QED  BY <1>1, <1>3, <2>2, <2>5, <3>1 DEF Kinds, At
  <2>7. \A g \in Ends : b \notin Carried(net[g])
    BY <2>3, OnlyThere
  <2>8. Once'
    BY <1>1, <1>3, <1>4, <2>2, <2>4, <2>7 DEF Once, OwnInv, Places, Rest
  <2>9. /\ \A g \in Ends, c \in Buffers : /\ Entered(g, c) => Entered(g, c)'
                                          /\ Noted(g, c) => Noted(g, c)'
        /\ m.type = "READ_REQUEST" => Entered(e, b)'
    <3>1. CASE m.type = "READ_REQUEST"
      BY <1>1, <2>1, <3>1, EntriesInserted DEF OwnInv
    <3>2. CASE m.type # "READ_REQUEST"
      BY <1>1, <3>2 DEF Entered, Noted
    <3> QED  BY <3>1, <3>2
  <2>10. ASSUME NEW c \in Buffers, c # b PROVE Stays(c)
    BY <1>1, <1>3, <1>4, <2>2, <2>9, <2>10 DEF Stays, Rest
  <2>11. EntriesOf(b)'
    <3>1. EntriesOf(b)  BY <2>1 DEF OwnInv, Places, Entries
    <3>2. \A g \in Ends : b \notin fetches[g] \cup Range(reads[g]) \cup Range(read_cqes[g])
      BY <2>3, OnlyThere
    <3>3. m.type = "READ_OVER" => m.addr = Addr[b] /\ Entered(Peer[e], b)'
      BY <1>4, <2>1, <2>9, <3>1, EndFacts DEF EntriesOf
    <3>4. ASSUME NEW g \in Ends, NEW n \in Range(tasks'[g]), n.type = "READ_OVER", n.buf = b
          PROVE  n.addr = Addr[b] /\ Entered(Peer[g], b)'
      <4>1. n \in Range(tasks[g])  BY <1>3, <1>4, <3>4 DEF Rest, Carries
      <4> QED  BY <2>1, <2>9, <3>1, <3>4, <4>1, EndFacts DEF EntriesOf
    <3>5. ASSUME NEW g \in Ends, NEW n \in Range(net'[g]), Carries(n), n.buf = b
          PROVE  n = m /\ g = e
      BY <1>3, <2>2, <2>7, <3>5 DEF Carried
    <3> QED  BY <1>1, <2>9, <3>2, <3>3, <3>4, <3>5 DEF EntriesOf, Carries
  <2>12. "net" \in Kinds /\ Places /\ deleted' = deleted
    BY <1>1 DEF Kinds, OwnInv
  <2> QED  BY <2>3, <2>6, <2>8, <2>10, <2>11, <2>12, MovedPlaces
<1> QED  BY <1>5, <1>6

LEMMA ReadDataPlaces ==
    ASSUME AddressesDiffer, OwnInv, NEW e \in Ends, NEW b \in fetches[e], ReadData(e, b)
    PROVE  Places'
<1>1. /\ b \in Buffers
      /\ fetches \in [Ends -> SUBSET Buffers] /\ reads \in [Ends -> Seq(Buffers)]
  BY Typed DEF OwnInv
<1>2. /\ UNCHANGED <<tasks, net, read_cqes, deleted>>
      /\ \A g \in Ends : g # e => fetches'[g] = fetches[g] /\ reads'[g] = reads[g]
      /\ fetches'[e] = fetches[e] \ {b} /\ reads'[e] = Append(reads[e], b)
      /\ map_table' = [map_table EXCEPT ![e] = InsertToTable(@, b, Addr[b])]
  BY <1>1 DEF ReadData, chan, gone
<1>3. Range(reads'[e]) = Range(reads[e]) \cup {b}
  BY <1>1, <1>2, RangeOfAppend
<1>4. Only(b, "fetch", e) /\ b \notin deleted
  BY Placed DEF OwnInv, Places, Apart, Gone, Kinds
<1>5. ASSUME NEW k \in Kinds, NEW g \in Ends
      PROVE  /\ \A c \in At(k, g)' : c = b \/ c \in At(k, g)
             /\ b \in At(k, g)' => k = "read" /\ g = e
  <2>1. b \in At(k, g) => k = "fetch" /\ g = e
    BY <1>4 DEF Only
  <2> QED  BY <1>2, <1>3, <2>1 DEF Kinds, At
<1>6. \A g \in Ends : b \notin Range(reads[g]) \cup Range(read_cqes[g])
  BY <1>4, OnlyThere
<1>7. Once'
  <2>1. Once  BY DEF OwnInv, Places
  <2>2. Distinct(reads'[e])
    BY <1>1, <1>2, <1>6, <2>1, DistinctAppend DEF Once
  <2> QED  BY <1>2, <2>1, <2>2 DEF Once
<1>8. /\ \A g \in Ends, c \in Buffers : /\ Entered(g, c) => Entered(g, c)'
                                        /\ Noted(g, c) => Noted(g, c)'
      /\ Noted(e, b)'
  BY <1>1, <1>2, EntriesInserted DEF OwnInv
<1>9. ASSUME NEW c \in Buffers, c # b PROVE Stays(c)
  BY <1>2, <1>3, <1>8, <1>9 DEF Stays
<1>10. EntriesOf(b)'
  <2>1. EntriesOf(b)  BY <1>1 DEF OwnInv, Places, Entries
  <2>2. \A g \in Ends : b \notin Carried(tasks[g]) \cup Carried(net[g])
    BY <1>4, OnlyThere
  <2>3. \A g \in Ends : \A m \in Range(tasks'[g]) \cup Range(net'[g]) :
          m.type \in {"READ_REQUEST", "READ_OVER"} => m.buf # b
    BY <1>2, <2>2 DEF Carried, Carries
  <2>4. Entered(Peer[e], b)'
    BY <1>1, <1>8, <2>1, EndFacts DEF EntriesOf
  <2>5. \A g \in Ends : g # e =>
          b \notin fetches'[g] \cup Range(reads'[g]) \cup Range(read_cqes'[g])
    BY <1>2, <1>4, <1>6, OnlyThere
  <2> QED  BY <1>8, <2>3, <2>4, <2>5, EndFacts DEF EntriesOf
<1>11. "read" \in Kinds /\ Places /\ deleted' = deleted
  BY <1>2 DEF Kinds, OwnInv
<1> QED  BY <1>4, <1>5, <1>7, <1>9, <1>10, <1>11, MovedPlaces

LEMMA ExecuteReadPlaces ==
    ASSUME OwnInv, NEW e \in Ends, ExecuteRead(e)
    PROVE  Places'
<1>0. PICK b : b = Head(reads[e])  OBVIOUS
<1>1. /\ reads \in [Ends -> Seq(Buffers)] /\ read_cqes \in [Ends -> Seq(Buffers)]
      /\ reads[e] # <<>> /\ b \in Buffers
  BY <1>0, Typed, HeadTailProperties DEF OwnInv, ExecuteRead
<1>2. /\ UNCHANGED <<tasks, net, fetches, map_table, deleted>>
      /\ \A g \in Ends : g # e => reads'[g] = reads[g] /\ read_cqes'[g] = read_cqes[g]
      /\ reads'[e] = Tail(reads[e]) /\ read_cqes'[e] = Append(read_cqes[e], b)
  BY <1>0, <1>1 DEF ExecuteRead, chan, gone
<1>3. Once  BY DEF OwnInv, Places
<1>4. /\ Range(reads[e]) = {b} \cup Range(reads'[e])
      /\ b \notin Range(reads'[e]) /\ Distinct(reads'[e])
      /\ Range(read_cqes'[e]) = Range(read_cqes[e]) \cup {b}
  BY <1>0, <1>1, <1>2, <1>3, RangeOfTail, DistinctTail, RangeOfAppend DEF Once
<1>5. Only(b, "read", e) /\ b \notin deleted
  BY <1>4, Placed DEF OwnInv, Places, Apart, Gone, Kinds
<1>6. ASSUME NEW k \in Kinds, NEW g \in Ends
      PROVE  /\ \A c \in At(k, g)' : c = b \/ c \in At(k, g)
             /\ b \in At(k, g)' => k = "cqe" /\ g = e
  <2>1. b \in At(k, g) => k = "read" /\ g = e
    BY <1>5 DEF Only
  <2> QED  BY <1>2, <1>4, <2>1 DEF Kinds, At
<1>7. Once'
  <2>1. b \notin Range(read_cqes[e])
    BY <1>5, OnlyThere
  <2>2. Distinct(read_cqes'[e])
    BY <1>1, <1>2, <1>3, <2>1, DistinctAppend DEF Once
  <2> QED  BY <1>2, <1>3, <1>4, <2>2 DEF Once
<1>8. ASSUME NEW c \in Buffers PROVE Stays(c)
  BY <1>2, <1>4 DEF Stays, Entered, Noted
<1>9. EntriesOf(b)'
  BY <1>1, <1>8, StaysEntered DEF OwnInv, Places, Entries
<1>10. "cqe" \in Kinds /\ Places /\ deleted' = deleted
  BY <1>2 DEF Kinds, OwnInv
<1> QED  BY <1>5, <1>6, <1>7, <1>8, <1>9, <1>10, MovedPlaces

LEMMA ReadRequestPlaces ==
    ASSUME OwnInv, NEW e \in Ends, ProcessReadRequest(e)
    PROVE  Places'
<1>0. PICK m : m = Received(e)  OBVIOUS
<1> DEFINE p == Peer[e]
           b == m.buf
<1>1. /\ p \in Ends /\ p # e /\ Peer[p] = e
      /\ net \in [Ends -> Seq(Messages)] /\ fetches \in [Ends -> SUBSET Buffers]
      /\ net[p] # <<>> /\ m = Head(net[p]) /\ m.type = "READ_REQUEST"
      /\ UNCHANGED <<tasks, reads, read_cqes, map_table, deleted>>
  BY <1>0, EndFacts, Typed DEF OwnInv, ProcessReadRequest, Receives, Received, gone
<1>2. /\ net'[p] = Tail(net[p])
      /\ \A g \in Ends : Rest(net'[g], net[g])
  BY <1>1, AnswerRest DEF ProcessReadRequest
<1>3. CASE UNCHANGED fetches
  <2>1. Quiet  BY <1>1, <1>2, <1>3, RestSame DEF Quiet
  <2> QED  BY <2>1, QuietPlaces DEF OwnInv
<1>4. CASE fetches' = [fetches EXCEPT ![e] = @ \cup {b}]
  <2>1. m \in Messages /\ m \in Range(net[p]) /\ Carries(m) /\ b \in Buffers
    <3>1. m \in Messages  BY <1>1, HeadTailProperties
    <3>2. b \in Buffers  BY <1>1, <3>1 DEF Messages, Message
    <3> QED  BY <1>1, <3>1, <3>2, RestTail DEF Carries
  <2>2. Once  BY DEF OwnInv, Places
  <2>3. b \notin Carried(net'[p])
    BY <1>1, <1>2, <2>1, <2>2, RestTail DEF Once
  <2>4. Only(b, "net", p) /\ b \notin deleted
    BY <1>1, <2>1, Placed DEF OwnInv, Places, Apart, Gone, Kinds, Carried
  <2>5. \A g \in Ends : Carried(net'[g]) \subseteq Carried(net[g])
    BY <1>2, RestCarried
  <2>6. /\ fetches'[e] = fetches[e] \cup {b}
        /\ \A g \in Ends : g # e => fetches'[g] = fetches[g]
    BY <1>1, <1>4
  <2>7. ASSUME NEW k \in Kinds, NEW g \in Ends
        PROVE  /\ \A c \in At(k, g)' : c = b \/ c \in At(k, g)
               /\ b \in At(k, g)' => k = "fetch" /\ g = e
    <3>1. b \in At(k, g) => k = "net" /\ g = p
      BY <2>4 DEF Only
    <3> QED  BY <1>1, <2>3, <2>5, <2>6, <3>1 DEF Kinds, At
  <2>8. Once'
    BY <1>1, <1>2, <2>2 DEF Once, Rest
  <2>9. ASSUME NEW c \in Buffers, c # b PROVE Stays(c)
    BY <1>1, <1>2, <2>6, <2>9 DEF Stays, Entered, Noted, Rest
  <2>10. EntriesOf(b)'
    <3>1. EntriesOf(b)  BY <2>1 DEF OwnInv, Places, Entries
    <3>2. Entered(p, b)  BY <1>1, <2>1, <3>1 DEF EntriesOf
    <3>3. /\ \A g \in Ends : b \notin Range(reads[g]) \cup Range(read_cqes[g]) \cup fetches[g]
          /\ \A g \in Ends : b \notin Carried(tasks[g])
          /\ \A g \in Ends : b \notin Carried(net'[g])
      BY <1>1, <2>3, <2>4, <2>5, OnlyThere
    <3>4. \A g \in Ends : \A n \in Range(tasks'[g]) \cup Range(net'[g]) :
            n.type \in {"READ_REQUEST", "READ_OVER"} => n.buf # b
      BY <1>1, <3>3 DEF Carried, Carries
    <3>5. /\ \A g \in Ends : b \notin Range(reads'[g]) \cup Range(read_cqes'[g])
          /\ \A g \in Ends : b \in fetches'[g] => g = e
      BY <1>1, <2>6, <3>3
    <3>6. Entered(Peer[e], b)'
      BY <1>1, <3>2 DEF Entered
    <3> HIDE DEF b, p
    <3> QED  BY <3>4, <3>5, <3>6 DEF EntriesOf
  <2>11. "fetch" \in Kinds /\ Places /\ deleted' = deleted
    BY <1>1 DEF Kinds, OwnInv
  <2> QED  BY <2>4, <2>7, <2>8, <2>9, <2>10, <2>11, MovedPlaces
<1> QED  BY <1>0, <1>3, <1>4 DEF ProcessReadRequest

LEMMA ReadSuccessPlaces ==
    ASSUME AddressesDiffer, OwnInv, NEW e \in Ends, ProcessReadSuccess(e)
    PROVE  Places'
<1>0. PICK b : b = Head(read_cqes[e])  OBVIOUS
<1> DEFINE m == [type |-> "READ_OVER", addr |-> Addr[b], buf |-> b]
<1>1. /\ tasks \in [Ends -> Seq(Messages)] /\ net \in [Ends -> Seq(Messages)]
      /\ read_cqes \in [Ends -> Seq(Buffers)]
      /\ read_cqes[e] # <<>> /\ b \in Buffers
  BY <1>0, Typed, HeadTailProperties DEF OwnInv, ProcessReadSuccess
<1>2. Once /\ EntriesOf(b)  BY <1>1 DEF OwnInv, Places, Entries
<1>3. b \in Range(read_cqes[e])
  BY <1>0, <1>1, RangeOfTail
<1>4. Only(b, "cqe", e) /\ b \notin deleted
  BY <1>3, Placed DEF OwnInv, Places, Apart, Gone, Kinds
<1>5. Noted(e, b) /\ Entered(Peer[e], b)
  BY <1>2, <1>3 DEF EntriesOf
<1>6. /\ UNCHANGED <<fetches, reads, deleted>>
      /\ \A g \in Ends : g # e => read_cqes'[g] = read_cqes[g] /\ tasks'[g] = tasks[g]
      /\ read_cqes'[e] = Tail(read_cqes[e]) /\ tasks'[e] = Append(tasks[e], m)
      /\ map_table' = [map_table EXCEPT ![e] = Erase(@, b)]
  BY <1>0, <1>1, <1>5 DEF ProcessReadSuccess, AddTask, Noted, gone
<1>7. \A g \in Ends : Rest(net'[g], net[g])
  BY <1>0, <1>1, Bare, PostBare, RestSame DEF ProcessReadSuccess
<1>8. m \in Messages /\ Carries(m) /\ m.buf = b /\ m.addr = Addr[b] /\ m.type = "READ_OVER"
  BY <1>1, AddrAssumption DEF Messages, Carries
<1> HIDE DEF m
<1>9. /\ Range(tasks'[e]) = Range(tasks[e]) \cup {m}
      /\ Carried(tasks'[e]) = Carried(tasks[e]) \cup {b}
      /\ CarriedOnce(tasks[e]) /\ b \notin Carried(tasks[e]) => CarriedOnce(tasks'[e])
  BY <1>1, <1>6, <1>8, AppendCarries
<1>10. /\ Range(read_cqes[e]) = {b} \cup Range(read_cqes'[e])
       /\ b \notin Range(read_cqes'[e]) /\ Distinct(read_cqes'[e])
  BY <1>0, <1>1, <1>2, <1>6, RangeOfTail, DistinctTail DEF Once
<1>11. \A g \in Ends : Carried(net'[g]) \subseteq Carried(net[g])
  BY <1>7, RestCarried
<1>12. ASSUME NEW k \in Kinds, NEW g \in Ends
       PROVE  /\ \A c \in At(k, g)' : c = b \/ c \in At(k, g)
              /\ b \in At(k, g)' => k = "task" /\ g = e
  <2>1. b \in At(k, g) => k = "cqe" /\ g = e
    BY <1>4 DEF Only
  <2> QED  BY <1>6, <1>9, <1>10, <1>11, <2>1 DEF Kinds, At
<1>13. \A g \in Ends : b \notin Carried(tasks[g]) \cup Carried(net'[g])
                              \cup fetches[g] \cup Range(reads[g]) \cup Range(read_cqes'[g])
  BY <1>4, <1>6, <1>10, <1>11, OnlyThere
<1>14. Once'
  BY <1>2, <1>6, <1>7, <1>9, <1>10, <1>13 DEF Once, Rest
<1>15. \A g \in Ends, c \in Buffers : /\ Entered(g, c) => Entered(g, c)'
                                      /\ c # b => (Noted(g, c) => Noted(g, c)')
  BY <1>1, <1>6, EntriesErased DEF OwnInv
<1>16. ASSUME NEW c \in Buffers, c # b PROVE Stays(c)
  BY <1>6, <1>7, <1>8, <1>9, <1>10, <1>15, <1>16 DEF Stays, Rest
<1>17. EntriesOf(b)'
  <2>1. ASSUME NEW g \in Ends, NEW n \in Range(tasks'[g]) \cup Range(net'[g]), Carries(n),
               n.buf = b
        PROVE  n = m /\ g = e /\ n \notin Range(net'[g])
    BY <1>6, <1>9, <1>13, <2>1 DEF Carried
  <2>2. Entered(Peer[e], b)'
    BY <1>1, <1>5, <1>15, EndFacts
  <2> QED  BY <1>6, <1>8, <1>13, <2>1, <2>2 DEF EntriesOf, Carries
<1>18. "task" \in Kinds /\ Places /\ deleted' = deleted
  BY <1>6 DEF Kinds, OwnInv
<1> QED  BY <1>4, <1>12, <1>14, <1>16, <1>17, <1>18, MovedPlaces

\* The entry that is erased is that of the buffer read, which is in no place then.
LEMMA ReadOverPlaces ==
    ASSUME AddressesDiffer, OwnInv, NEW e \in Ends, ProcessReadOver(e)
    PROVE  Places'
<1>0. PICK m : m = Received(e)  OBVIOUS
<1> DEFINE p == Peer[e]
           b == m.buf
<1>1. /\ p \in Ends /\ p # e /\ Peer[p] = e
      /\ net \in [Ends -> Seq(Messages)]
      /\ net[p] # <<>> /\ m = Head(net[p]) /\ m.type = "READ_OVER"
      /\ UNCHANGED <<tasks, fetches, reads, read_cqes>>
  BY <1>0, EndFacts, Typed DEF OwnInv, ProcessReadOver, Receives, Received, pull
<1>2. /\ net'[p] = Tail(net[p])
      /\ \A g \in Ends : Rest(net'[g], net[g])
  BY <1>1, AnswerRest DEF ProcessReadOver
<1>3. m \in Messages /\ m \in Range(net[p]) /\ Carries(m) /\ b \in Buffers
  <2>1. m \in Messages  BY <1>1, HeadTailProperties
  <2>2. b \in Buffers  BY <1>1, <2>1 DEF Messages, Message
  <2> QED  BY <1>1, <2>1, <2>2, RestTail DEF Carries
<1>4. Once /\ EntriesOf(b)  BY <1>3 DEF OwnInv, Places, Entries
<1>5. b \notin Carried(net'[p])
  BY <1>1, <1>2, <1>3, <1>4, RestTail DEF Once
<1>6. Only(b, "net", p)
  BY <1>1, <1>3, Placed DEF OwnInv, Places, Apart, Kinds, Carried
<1>7. \A g \in Ends : Carried(net'[g]) \subseteq Carried(net[g])
  BY <1>2, RestCarried
<1>8. ASSUME NEW k \in Kinds, NEW g \in Ends
      PROVE  At(k, g)' \subseteq At(k, g) /\ b \notin At(k, g)'
  <2>1. b \in At(k, g) => k = "net" /\ g = p
    BY <1>6 DEF Only
  <2> QED  BY <1>1, <1>5, <1>7, <2>1 DEF Kinds, At
<1>9. Apart'
  BY <1>8, Lost DEF OwnInv, Places
<1>10. Once'
  BY <1>1, <1>2, <1>4 DEF Once, Rest
<1>11. m.addr = Addr[b]
  BY <1>1, <1>3, <1>4 DEF EntriesOf
<1>12. /\ map_table' = [map_table EXCEPT ![e] = Erase(@, Addr[b])]
       /\ deleted' = deleted \cup {b}
  <2>1. FindInTable(map_table[e], Addr[b]) = b
    BY <1>1, <1>3, <1>4 DEF EntriesOf, Entered
  <2>2. b # None  BY <1>3, NoneAssumption
  <2> QED  BY <1>0, <1>11, <2>1, <2>2 DEF ProcessReadOver
<1>13. \A g \in Ends, c \in Buffers : c # b => /\ Entered(g, c) => Entered(g, c)'
                                               /\ Noted(g, c) => Noted(g, c)'
  BY <1>3, <1>12, EntriesErased DEF OwnInv
<1>14. ASSUME NEW c \in Buffers, c # b PROVE EntriesOf(c)'
  <2>1. Stays(c)
    BY <1>1, <1>2, <1>13, <1>14 DEF Stays, Rest
  <2> QED  BY <2>1, StaysEntered DEF OwnInv, Places, Entries
<1>15. EntriesOf(b)'
  <2>1. \A g \in Ends : b \notin Carried(tasks'[g]) \cup Carried(net'[g]) \cup fetches'[g]
                               \cup Range(reads'[g]) \cup Range(read_cqes'[g])
    BY <1>8 DEF Kinds, At
  <2>2. \A g \in Ends : \A n \in Range(tasks'[g]) \cup Range(net'[g]) :
          n.type \in {"READ_REQUEST", "READ_OVER"} => n.buf # b
    BY <2>1 DEF Carried, Carries
  <2> QED  BY <2>1, <2>2 DEF EntriesOf
<1>16. Gone'
  BY <1>8, <1>12 DEF OwnInv, Places, Gone
<1> QED  BY <1>9, <1>10, <1>14, <1>15, <1>16 DEF Places, Entries

-----------------------------------------------------------------------------
(* The theorem. *)

LEMMA PlacesInit == Init => Places
<1> SUFFICES ASSUME Init PROVE Places  OBVIOUS
<1>1. \A e \in Ends : /\ tasks[e] = <<>> /\ net[e] = <<>> /\ fetches[e] = {}
                      /\ reads[e] = <<>> /\ read_cqes[e] = <<>>
  BY DEF Init
<1>2. Carried(<<>>) = {} /\ CarriedOnce(<<>>)
  BY EmptyRest DEF Carried, CarriedOnce
<1>3. Apart /\ Gone
  BY <1>1, <1>2, EmptyRest DEF Apart, Gone, Kinds, At
<1>4. Once
  BY <1>1, <1>2, EmptyRest DEF Once
<1>5. Entries
  BY <1>1, EmptyRest DEF Entries, EntriesOf
<1> QED  BY <1>3, <1>4, <1>5 DEF Places

LEMMA PlacesStep ==
    ASSUME AddressesDiffer, SentOnce, OwnInv, [Next]_vars
    PROVE  Places'
<1>1. ASSUME NEW s \in Sessions,
             Application(s) \/ SpuriousWakeup(s) \/ Terminate(s) \/ StopProcess(s)
      PROVE  Places'
  BY <1>1, SendDataPlaces, SessionQuiet, QuietPlaces DEF OwnInv
<1>2. ASSUME NEW e \in Ends, Pool(e) PROVE Places'
  BY <1>2, RunTaskPlaces, ReadDataPlaces DEF Pool
<1>3. ASSUME NEW e \in Ends, BadCompletion(e) \/ DestroyEndpoint(e) PROVE Places'
  BY <1>3, QueuePairQuiet, QuietPlaces DEF OwnInv
<1>4. ASSUME NEW e \in Ends, Handlers(e) PROVE Places'
  BY <1>4, HandlersQuiet, QuietPlaces, ReadRequestPlaces, ReadSuccessPlaces, ReadOverPlaces
     DEF OwnInv
<1>5. CASE UNCHANGED vars
  <2>1. Quiet
    BY <1>5, RestSame DEF Quiet, vars, chan, pull, gone
  <2> QED  BY <2>1, QuietPlaces DEF OwnInv
<1> QED  BY <1>1, <1>2, <1>3, <1>4, <1>5, ExecuteReadPlaces DEF Next

LEMMA OwnStep == AddressesDiffer /\ SentOnce /\ OwnInv /\ [Next]_vars => OwnInv'
BY PlacesStep, StepInvariant DEF OwnInv

LEMMA EntriesOwn == OwnInv => OwnBuffer
<1> SUFFICES ASSUME OwnInv, NEW e \in Ends, NEW m \in Range(tasks[e]) \cup Range(net[e]),
                    m.type = "READ_OVER"
             PROVE  FindInTable(map_table[Peer[e]], m.addr) = m.buf
  BY DEF OwnBuffer
<1>1. m \in Messages
  BY Typed, ElementOfSeq, LenProperties DEF OwnInv, Range
<1>2. m.buf \in Buffers
  BY <1>1 DEF Messages, Message
<1> QED  BY <1>2 DEF OwnInv, Places, Entries, EntriesOf, Entered

LEMMA OwnInvariance == ASSUME AddressesDiffer, SentOnce PROVE Spec => []OwnInv
<1>1. Init => OwnInv
  BY InitInvariant, PlacesInit DEF OwnInv
<1>2. OwnInv /\ [Next]_vars => OwnInv'
  BY OwnStep
<1> QED  BY <1>1, <1>2, PTL DEF Spec

\* The READ_OVER of a buffer finds that buffer in the table of its sender, for
\* as long as it is asked for or in flight (find_in_table, rdma_message.cpp),
\* when no two buffers have one address and no buffer is sent twice.
THEOREM OwnBufferCorrect == ASSUME AddressesDiffer, SentOnce PROVE Spec => []OwnBuffer
BY OwnInvariance, EntriesOwn, PTL

TransferNext == [TransferOf!Next]_(TransferOf!tvars)

\* A READ that is executed is of a buffer that its sender still has.
LEMMA TransferStep ==
    ASSUME AddressesDiffer, OwnInv, [Next]_vars
    PROVE  TransferNext
<1>1. Advances  BY AdvancesStep DEF OwnInv
<1>2. CASE UNCHANGED <<Sent, received, deleted>>
  BY <1>2 DEF TransferNext, TransferOf!tvars
<1>3. CASE \E b \in Buffers : Sent' = Sent \cup {b} /\ UNCHANGED <<received, deleted>>
  BY <1>3 DEF TransferNext, TransferOf!Next, TransferOf!Send
<1>4. ASSUME NEW e \in Ends, Reads(e) PROVE TransferNext
  <2> DEFINE b == Head(reads[e])
  <2>1. reads[e] \in Seq(Buffers) /\ reads[e] # <<>>
    BY <1>4, Typed DEF OwnInv, Reads, ExecuteRead
  <2>2. b \in Range(reads[e]) /\ b \in Buffers
    BY <2>1, RangeOfTail, HeadTailProperties
  <2>3. b \notin deleted
    BY <2>2, Placed DEF OwnInv, Places, Gone, Kinds
  <2>4. TransferOf!Read(b)
    BY <1>4, <2>3 DEF Reads, TransferOf!Read
  <2> QED  BY <2>2, <2>4 DEF TransferNext, TransferOf!Next
<1>5. ASSUME NEW b \in Buffers, Deletes(b) PROVE TransferNext
  BY <1>5 DEF Deletes, TransferNext, TransferOf!Next, TransferOf!Delete
<1> QED  BY <1>1, <1>2, <1>3, <1>4, <1>5 DEF Advances

\* The sessions transfer buffers as Transfer promises: the peer reads what was
\* sent and its sender still has, and a buffer is deleted only after the peer
\* has read it (process_read_success and process_attached_message,
\* rdma_message.cpp).
THEOREM Refinement == ASSUME AddressesDiffer, SentOnce PROVE Spec => TransferSpec
<1>1. Init => TransferOf!Init
  <2> SUFFICES ASSUME Init PROVE TransferOf!Init  OBVIOUS
  <2>1. Sent = {}
    BY InitInvariant DEF Init, IInv, Calling, Sent, Made
  <2> QED  BY <2>1 DEF Init, TransferOf!Init
<1>2. OwnInv /\ [Next]_vars => TransferNext
  BY TransferStep
<1> QED  BY <1>1, <1>2, OwnInvariance, PTL DEF Spec, TransferSpec, TransferOf!Spec, TransferNext
=============================================================================
