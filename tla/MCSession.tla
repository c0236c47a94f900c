----------------------------- MODULE MCSession -----------------------------
(* Instances of Session for TLC: the connections and the applications. *)
EXTENDS Session, Applications, TLC

CONSTANTS c, d, c2, d2,            \* ends: clients c and c2, their server ends
          Client, Server, Client2, \* sessions
          b1, b2, b3, b4, x1, x2, x3, x4  \* buffers and their addresses

OneEnds == {c, d}
OnePeer == (c :> d) @@ (d :> c)
OneSession == (c :> Client) @@ (d :> Server)

TwoEnds == {c, d, c2, d2}
TwoPeer == OnePeer @@ (c2 :> d2) @@ (d2 :> c2)
TwoSession == OneSession @@ (c2 :> Client2) @@ (d2 :> Server)

FourBuffers == {b1, b2, b3, b4}
TwoBuffers == {b1, b2}
AddrFour == (b1 :> x1) @@ (b2 :> x2) @@ (b3 :> x3) @@ (b4 :> x4)
AddrRepeated == (b1 :> x1) @@ (b2 :> x1)
AddrTwo == (b1 :> x1) @@ (b2 :> x2)
SizeFour == (b1 :> 1) @@ (b2 :> 2) @@ (b3 :> 1) @@ (b4 :> 1)
SizeTwo == (b1 :> 1) @@ (b2 :> 2)

\* Both applications send, nobody closes.
Pull == (Client :> Sends(c, <<b1, b2, b3>>)) @@ (Server :> <<Send(d, b4)>>)
PullTwo == (Client :> Sends(c, <<b1, b2>>)) @@ (Server :> <<Send(d, b4)>>)

BenchmarkTwo == Client :> Benchmark(c, <<b1, b2>>, 3)
BenchmarkThree == Client :> Benchmark(c, <<b1, b2, b3>>, 4)

\* An application of the library that uses its barrier twice, for buffers at addresses
\* of their own: not the warm-up of benchmark.cpp, which repeats the addresses.
TwoRounds == Client :> (<<Barrier(c, 1), Send(c, b1), Wait>> \o Benchmark(c, <<b2, b3>>, 3))

MainTwo == Client :> Main(c, <<b1, b2>>)

\* Both ends send and close.
BothClose == (Client :> Main(c, <<b1>>)) @@ (Server :> Main(d, <<b4>>))

\* A server that sends too, to a client like benchmark.cpp.
Serve == (Client :> Benchmark(c, <<b1>>, 1)) @@ (Server :> <<Send(d, b2)>>)

\* Two clients of one server.
TwoClients == (Client :> Benchmark(c, <<b1>>, 1)) @@ (Client2 :> Benchmark(c2, <<b2>>, 2))
TwoSenders == (Client :> Main(c, <<b1>>)) @@ (Client2 :> Main(c2, <<b2>>))

\* The other applications only connect.
Applications(program) == program @@ [s \in Sessions |-> <<>>]
Ptp(program) == [program |-> Applications(program), daemons |-> {}]
Daemon(program) == [program |-> Applications(program), daemons |-> {Server}]

TransferSetups == {Ptp(Pull), Ptp(MainTwo), Daemon(MainTwo), Daemon(BenchmarkThree),
                   Ptp(BothClose), Daemon(TwoSenders)}
BarrierSetups == {Ptp(BenchmarkThree), Daemon(BenchmarkTwo), Ptp(TwoRounds), Ptp(PullTwo)}
MainSetups == {Ptp(MainTwo)}
WaitSetups == {Ptp(BenchmarkTwo)}
ServeSetups == {Ptp(Serve)}
BothSetups == {Ptp(BothClose)}
ClientsSetups == {Daemon(TwoClients)}

\* What the theorems ask, of the instances they speak of.
ASSUME TransferInstance == Setups = TransferSetups => AddressesDiffer /\ SentOnce
ASSUME BarrierInstance == Setups = BarrierSetups =>
    AddressesDiffer /\ SentOnce /\ BarrierRounds /\ ClosesLast /\ OneEndEach
=============================================================================
