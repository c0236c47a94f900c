---------------------------- MODULE Applications ----------------------------
(***************************************************************************)
(* The calls the clients of the two programs make on their endpoint e,     *)
(* once it is connected (src/benchmark.cpp, src/main.cpp).  The servers of *)
(* both only connect: that of main.cpp as a daemon, that of benchmark.cpp  *)
(* in ptp mode.                                                            *)
(***************************************************************************)
EXTENDS Naturals, Sequences

Barrier(e, size) == [op |-> "set_sync_barrier", end |-> e, size |-> size]
Send(e, b) == [op |-> "send_data", end |-> e, buf |-> b]
Wait == [op |-> "wait_for_sync"]
CloseCall(e) == [op |-> "close", end |-> e]

Sends(e, buffers) == [i \in 1..Len(buffers) |-> Send(e, buffers[i])]

\* benchmark.cpp: a barrier for all the data, its blocks, the wait, the close.
Benchmark(e, blocks, total_data) ==
    <<Barrier(e, total_data)>> \o Sends(e, blocks) \o <<Wait, CloseCall(e)>>

\* main.cpp: any number of sends, then the close, with no wait between them.
Main(e, buffers) == Sends(e, buffers) \o <<CloseCall(e)>>
=============================================================================
