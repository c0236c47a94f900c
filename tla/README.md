# RDMA-wheel in TLA+

TLA+ modules for the RDMA communication framework in `src/`, the TLC
configurations that check them on small instances, and TLAPS proofs about all
four detailed specifications. `PROJECT.json` lists runs, mutants, the lines each
definition models, findings, hazards and theorems.

## 1. The system

Two processes are connected by InfiniBand queue pairs. A process has a
*session* (`RDMA_Session`: device, one completion queue, one thread that empties
it) that holds *endpoints* (`RDMA_Endpoint`: one queue pair to one peer), each
with a *channel* (`RDMA_Channel`: one outgoing and one incoming message buffer,
locks, three thread pools). `TCP_Sock_Pre` brings the two sides together over
TCP. To send a buffer the sender announces it (READ_REQUEST), the peer reads it
by RDMA READ and says so (READ_OVER), the sender deletes it.

| Component | State | Operations | Interacts through |
|---|---|---|---|
| `RDMA_Channel` | `local_status_`, `remote_status_`, outgoing and incoming buffer, three pools, `map_table_`, data count | `task_with_lock`, `release_local`, `release_remote`, `write`, `send`, `recv`, `read_data`, table and count, destructor | tasks run by pool threads; work posted to the queue pair; called from the completion thread |
| `RDMA_Message` | `sync_flag`, `sync_cv` (globals) | message handlers, completion handlers | called by the completion thread; calls the channel; sets `status_` |
| `RDMA_Session` | verbs objects, `status_`, `endpoint_list_` | constructor, `session_processCQ`, `new_endpoint`, connect calls, destructor | dispatches completions; called back by the daemon thread; destroyed by the application |
| `RDMA_Endpoint` | queue pair, `connected_` | `connect`, `send_data`, `send_rawdata`, `set_sync_barrier`, `wait_for_sync`, `close`, destructor | called by the application |
| `TCP_Sock_Pre` | sockets, `daemon_run_` | accept loop, single accept, exchange of connection data, `close_daemon` | its own thread; calls `new_endpoint` |
| `RDMA_Buffer`, `RDMA_MemoryPool` | memory regions | register, deregister | created by application and pool tasks, deleted by the completion thread |
| `main.cpp`, `benchmark.cpp` | | sequences of endpoint calls | |
| ThreadPool, MemoryPool | submodules, not in the repository | | external |

What makes it hard:

- *Interleaving.* Four worker threads, two unlock threads, four other pool
  threads and a completion thread at each end, with one message buffer each way;
  a daemon's thread beside the session it calls.
- *Ordering.* Pools reorder tasks; `close` goes past what is queued; the count
  behind the sync barrier depends on the order of messages; objects must be
  destroyed in an order and after the threads that use them.
- *Failure.* A bad completion ends the completion thread; a request that comes
  out of WORK is dropped without an ACK; a client may die while it connects; a
  queue pair may be destroyed before it has sent what was posted.
- *Liveness.* Condition variables with `notify_one`, a wait with no timeout,
  a session that ends only when its table becomes empty, destructors that wait
  for pools.

Correct means: the message buffers lose, tear and repeat nothing; each lock is
released by its own message and no other; no wakeup is lost; a buffer lives until
it is read and is then deleted; `wait_for_sync` returns when, and only when, the
peer has the data; `close` ends both sessions with nothing outstanding; each
completion is handled once and in order; a destroyed session leaves nothing
behind; clients are connected to the endpoint that was made for them.

## 2. Modules

| Module | Models | Extends or instantiates |
|---|---|---|
| `Mailbox` | abstract: a one-slot mailbox per end | |
| `Channel` | locks, buffers, worker and unlock threads, queue pair, completion handlers of one connection | instantiates `Mailbox` |
| `Transfer` | abstract: a buffer is sent, read while its sender has it, deleted when it was read | |
| `Session` | pull protocol, sync barrier, close handshake, destructors of channel and endpoint | uses a channel as the mailbox that `ChannelRefinement` proves it to be; instantiates `Transfer` |
| `Applications` | the calls `main.cpp` and `benchmark.cpp` make on an endpoint | |
| `CompletionQueue` | `session_processCQ`, the device's queue, constructor and destructor of the session | |
| `Connect` | TCP rendezvous in both modes, exchange, queue pair transitions, the session beside them | |
| `SequenceLemmas` | lemmas about Append, Head, Tail and concatenation | |
| `ChannelProofs`, `ChannelRefinement` | safety of `Channel`; it implements `Mailbox`; `BoundedOvertaking` | `Channel`, `SequenceLemmas` |
| `SessionProofs` | types of `Session`; what is read was sent, what is deleted was read | `Session` |
| `TransferProofs` | `OwnBuffer`; `Session` implements `Transfer` | `SessionProofs`, `SequenceLemmas` |
| `BarrierProofs` | the sync barrier and the close handshake of `Session`: `SyncSound`, `QuietAtClose`, `CleanGoodbye`, `ClosedIsFinal` | `TransferProofs` |
| `CompletionQueueProofs` | order, types, ownership, missed completions | `CompletionQueue` |
| `ConnectProofs` | types and agreement of the exchange | `Connect`, `SequenceLemmas` |
| `MCChannel`, `MCSession`, `MCConnect` | values of the constants for TLC | `MCSession` extends `Applications` |

An operator under a comment that begins with *(mutation)* belongs to no
specification: it is a definition as a plausible bug would have it, and
`PROJECT.json` names the property TLC then finds violated.

### Channel

An attached message is copied to `outgoing_` and written to the peer's
`incoming_`. `RunTask` takes both locks, copies and posts under the mutex, as the
body of `task_with_lock` does; `WaitTask` is the other outcome of testing the
predicate. The write's completion leads to `ReleaseLocal` by way of
`ProcessWriteSuccess`; the peer parses (`ProcessAttachedMessage`), answers
(`SendAck`, a step of its own because the NIC and the pools run on in between),
and the ACK leads to `ReleaseRemote` by way of `ProcessAck`. The NIC reads the
outgoing buffer when it *executes* the write, so a buffer refilled too early shows
as a message that was not sent. Completions of one kind stay in order; of different kinds
any order is allowed, which is weaker than the hardware's promise.

SYNC_ACK, CLOSE, CLOSE_ACK and CLOSE_TERMINATE, the *notices*, go out by `send`
like an ACK: no lock holds them back, and each consumes a receive of the peer. An
end sends one at any time (`SendNotice`), a handler may answer one with another and
may set `status_` (`ProcessNotice`), and a READ_OVER may be the last that a CLOSING
session has waited for (`SendAck`). Which notice follows which is the subject of
`Session`; `Channel` allows more. `Notices[e]` bounds how many are under way. That
bound is not arbitrary: `FewNotices` of `Session`, checked by `session_transfer`,
says that in its setups there are never more than three, and `ReceiversCorrect`
(section 5) that five receives are then enough.

The tasks are named by their message, so a message is requested at most once in a
behaviour; this bounds the state space and costs nothing: two requests with the
same content are two names.

### Session

Each of `Ends` is one side of one connection; `SessionOf` groups ends in
sessions, so that a daemon with two clients is one session with two ends. A
behaviour begins by choosing one of `Setups`: the program of each application
(built from `Applications`) and the sessions that run as daemons. One run so
checks several applications, and `setup` never changes.

The channel is reduced to `tasks`, `locked` and `net`: one lock stands for both,
which the refinement of `Mailbox` justifies, and a task may run before the
`WorkThreads - 1` tasks ahead of it, which `BoundedOvertaking` justifies. Handlers
of the completion thread are one action each, except that `Terminate` is a second
step of the handlers that find the table empty: a worker may run in between.

When an application has returned and its completion thread is joined, the
destructors run: `~RDMA_Channel` waits for the pools (`PoolsEmpty`), and
`~RDMA_Endpoint` destroys the queue pair (`DestroyEndpoint`). With `LossyDestroy`
a queue pair may go before it has sent all that was posted; `BadCompletion` is
what its peer then sees, and it ends the peer's completion thread. A destroyed
end executes no RDMA READ of its peer any more.

### CompletionQueue

One action per call of the loop: `Loop`, `GetEvent`, `Arm`, `Poll`, `Handle`.
`Fail` is the early return of either call, `BadCompletion` that of a completion
without success. A failing `ibv_poll_cq` is no early return: `PollFails` goes on
as after an empty queue, with `ne` negative. The device (`Complete`) raises one
event per arming, from the first endpoint on; its queue has `Depth` entries, at
least the `CQ_SIZE` asked for.

`owner` walks through the constructor, one verbs object per step, any of which
may fail; then endpoints and registered buffers come, and the destructor takes
the objects apart in its order. The device refuses to destroy an object that
others use, and the code only logs that, so a wrong order shows as an object left
over. The destructor of a session whose constructor failed joins a thread that
does not exist (`JoinBroken`, which ends the process). The memory pool's blocks
are in a submodule; its destructor is taken to delete them.

`daemon` says who makes endpoints. In ptp mode it is the application's thread,
before the destructor. In daemon mode it is the daemon's thread, which the
destructor does not join: `NewEndpoint` may then come beside every call of the
destructor and after it, as long as the domain and the queue are there, and
`NewEndpointCrashes` is what may come instead, on freed memory or when the
constructor of the endpoint fails.

### Connect

The server's one thread walks through accept, `new_endpoint`, send, receive and
`connect` for each client; clients receive first. `spc` begins as `"daemon"` or
`"ptp"`, the two modes: the first serves client after client, the second closes
its listening socket after one. Where the opening of the socket fails the thread
ends, or goes on with the socket -1, as the code does; so it does in ptp mode where
`accept` fails (`AcceptFails`), while a daemon goes back to its `epoll_wait`. A failed transfer yields
`Garbage`, because `exchange_qp_data` logs the failure and returns whatever was
in its variable; `connect` then sets `connected_` all the same.

The constructor of an endpoint has three calls that may fail. Without a queue pair
or the port's attributes it returns without a channel, and `get_local_con_data` goes
through the null pointer: the process dies (`CreateFails`; a client's death is
`Crash`). A failing `modify_qp_to_init` is ignored: the queue pair stays in RESET,
from which neither RTR nor RTS can be reached, and `connected_` becomes true
(`Connected`). `Served`, which the liveness properties promise, therefore says that
both ends have learnt each other and are connected, and that their queue pairs are
in RTS unless they never left RESET.

Beside that thread the session may end (a client closes it: `SessionEnds`, which
calls `close_daemon`), fail (a bad completion: `SessionFails`, which does not)
and be destroyed by its application (`DestroySession`). `close_daemon` writes no
bytes to a listening socket; whether that ends the `epoll_wait`, does nothing, or
kills the process by SIGPIPE depends on the system, and all three are outcomes.

## 3. Runs

| Run | Instance | Shows |
|---|---|---|
| `channel` | 3 messages from A, 1 from B, 2 threads, 3 receives, a notice from A, the 2 messages the peer may ignore symmetric; 389,862 states | `TypeOK`, `IntactInOrder`, `LocksAccounted`, `NoLostWakeup`, `ReceiverReady`, `OutgoingStable`, `BoundedOvertaking`, refinement of `Mailbox` |
| `channel_live` | 2 and 1 messages; 61,578 states | `EveryRequestDelivered` |
| `completion_queue` | queue of 2 that the device has made 3 deep, 5 completions, from constructor to destructor, in both modes; 81,548 states | `TypeOK`, `HandledInOrder`, `NoMissedCompletion`, `ThreadHasQueue`, `NothingLeft`, `EveryCompletionHandled` |
| `session_transfer` | six pairs of applications, 4 buffers, 3 threads, spurious wakeups, lossy destructors; 220,406 states | `TypeOK`, `OwnBuffer`, `FewNotices`, refinement of `Transfer` |
| `session_barrier` | `benchmark.cpp` in ptp mode and as a daemon's client, an application with two barriers, and sends both ways; 17,549 states | `SyncSound`, `QuietAtClose`, `CleanGoodbye`, `ClosedIsFinal`, `EverySendOver`, `CloseEnds`, `DestructorReturns` |
| `connect` | 3 clients, one may die or be left in RESET, both modes; 267,398 states | `TypeOK`, `Agreement`, `AcceptedClientServed`, `EveryClientServed` |
| `session_repeat` | two buffers, one address | violates `OwnBuffer` |
| `session_wait` | `benchmark.cpp`, two blocks | violates `WaitReturns` |
| `session_closing` | `benchmark.cpp`, one block, server sends too | violates `CloseEnds` |
| `session_clients` | two clients of one daemon | violates `QuietAtClose` |
| `session_both` | both ends send and close | violates `ClosedIsFinal` |
| `connect_destroy` | two clients of a daemon | violates `SessionOutlivesCallback` |

*Why the bounds are enough.* Two worker threads are the fewest that contend and
the fewest with overtaking; three messages let a release of the first meet the
third. One receive for a write, one for an ACK and one per notice under way are the
fewest the channel works with: the three that B has for what A sends. With the three
notices of `FewNotices` it takes five, where the code has 100. A completion queue
asked to hold 2, which holds 3, with 5 completions fills the queue, polls a full
batch and leaves work behind it, both within CQ_SIZE and beyond. With three buffers one way, one the other and three threads, every message of the protocol
can meet every other, and a task may overtake two. Three clients make one wait
behind a dying one while a third is in the exchange. The theorems of section 5
remove the bounds from the safety properties they prove.

`CHECK_DEADLOCK FALSE` in every configuration: the systems stop, when every message
has been sent, the sessions are destroyed, or the threads have ended.

*Fairness.* Weak fairness of each thread: the operating system runs a thread that
can run, and `std::mutex`, pools and condition variables keep none waiting that
has a step to take. Weak fairness of each queue pair: a reliable connection
executes what was posted. The completion thread of a channel is fair only until
its session is CLOSED. In `Connect` the threads of the server and of each client
are fair, and strong fairness of `Accept` says that the accept of a client which
`epoll_wait` reports again and again (it is level-triggered) does not fail every
time. Nothing is assumed of the device (`Complete`), of the session's owner in
`CompletionQueue`, of spurious wakeups, crashes, failing calls, bad completions,
`SendNotice`, or of what becomes of the session in `Connect`.

`session_barrier` excludes spurious wakeups and lossy destructors by its
constants, because two of its properties fail with them (section 4): it shows
what holds without. Its application with two barriers has buffers at addresses of
their own. It is not the warm-up that `benchmark.cpp:64-74` has commented out, whose
buffers are at the addresses of the second round: SYNC_ACK comes before the READ_OVERs,
so the second buffer of an address may find the entry of the first still there. Those
addresses are the case of `session_repeat`. For a warm-up of one block, sent again in a
second round of two, TLC finds `OwnBuffer`, `CleanGoodbye` and `EverySendOver` violated; the
other properties of the run hold in that small instance, and nothing is claimed of
larger ones.

## 4. What the violations show

1. `session_repeat` (`rdma_channel.cpp:229`). `map_table_` is keyed by address and
   `insert` keeps an older entry. Two buffers at one address in flight, which
   `main.cpp` produces by sending `b` in a loop, share an entry; the second
   READ_OVER finds none and its buffer is leaked.
2. `session_wait` (`rdma_endpoint.cpp:169`, `rdma_channel.cpp:198`). A
   READ_REQUEST task may overtake the SYNC_REQUEST task; its data is counted before
   the count is reset, the target is never reached, `wait_for_sync` never returns.
3. `session_closing` (`rdma_message.cpp:149`). A client that is CLOSING drops the
   server's READ_REQUEST without an ACK, so the server's channel stays locked, the
   READ_OVER the client waits for is never sent, and the client's session never ends.
4. `session_clients` (`rdma_message.cpp:235`). One client's CLOSE_TERMINATE ends the
   daemon's session while it reads from another client.
5. `session_both` (`rdma_message.cpp:212`). A session that is CLOSED may still handle
   the CLOSE of its peer in the rest of its batch and is CLOSING again; its
   completion thread goes on, and nothing need ever end it.
6. `connect_destroy` (`rdma_session.cpp:151`). The daemon's thread may run
   `new_endpoint` for a second client on a session that the first has closed and
   the application destroyed.

More is known from TLC on these modules and has no run of its own:

- `wait_for_sync` waits without a loop (`rdma_endpoint.cpp:167`): with
  `SpuriousWakeups = TRUE` in `MCSessionBarrier.cfg`, `SyncSound` fails.
- `~RDMA_Endpoint` may destroy the queue pair before CLOSE_TERMINATE was sent
  (`rdma_endpoint.cpp:69`): with `LossyDestroy = TRUE`, `CloseEnds` fails.
- `close` passes the tasks still queued (`rdma_endpoint.cpp:128`): for the program of
  `main.cpp`, `EverySendOver` fails, because the sessions end with a buffer never
  read, and `DestructorReturns` fails, because `~RDMA_Channel` waits for a task
  that waits for an ACK. `Transfer` still holds: no buffer is deleted unread.
- One poll takes CQ_SIZE completions at most (`rdma_session.cpp:249`), and the device
  may have made the queue deeper. What the poll then leaves raises no event of its own:
  in `MCCompletionQueue.cfg`, with a queue of 3 for a CQ_SIZE of 2, the thread may wait
  beside one completion until another comes. `NoMissedCompletion` says that it is no
  more than the difference.
- The warm-up of `benchmark.cpp` with its real addresses: see section 3.
- A daemon's client whose server sends too never ends either: its table may be
  emptied in `process_read_success` (`rdma_message.cpp:287`), which does not look
  at `status_`.

These things stand in the models as outcomes rather than properties: a
constructor that fails leaves a destructor that crashes, or an endpoint without a
channel; the device is never closed; a buffer that no READ_OVER deletes keeps its
region, and the region keeps the protection domain; an endpoint that the daemon's
thread makes beside the destructor keeps the queue, the event channel and the domain;
a failing `ibv_poll_cq` leaves its completions until another one comes. When
`close_daemon`'s write has no effect, the daemon's thread, and the destructor of
`TCP_Sock_Pre` that joins it, wait for one more client.

## 5. Proofs

No theorem bounds the number of messages, ends, buffers, threads, receives,
completions or clients. The assumptions are those the modules name (two different
ends, values that differ from `None`, at least one worker thread, two receives
more than there may be notices under way, a completion queue with room for one batch, applications that use the ends of their
own session) and those a theorem states itself.

`ChannelProofs`. `LocksAccounted` is not inductive alone. The invariant `IInv`
has these parts, each preserved by its own lemmas:

- `TypeOK`;
- `ReceivesAccounted`: every receive of an end is posted or stands in a
  completion, of a message, an ACK or a notice, so posted receives follow from the
  work in flight;
- `LocalOwed` and `RemoteOwed`: a lock is taken exactly when one token (a posted
  write, a completion, a release task, or for the remote lock also a message being
  handled and an ACK on its way) will release it. The remote lock may be owed none
  once the peer has left WORK;
- `Flight`: where the one message in flight is, the buffers on its way hold that
  message, and what was sent is what was got plus that message.

From `IInv`: `LocksCorrect`, `ReceiversCorrect` (tokens bound the messages and ACKs
under way to an end by two, the model's bound the notices), `DeliveryCorrect`, and `OutgoingCorrect` (a posted write means the local lock
is taken, so no task fills the buffer). `WakeupCorrect` needs only types: a release
that frees the second lock wakes a thread, and a thread goes to sleep only on a lock
that is taken.

`ChannelRefinement`. The mapping takes queued, ready and sleeping tasks for
`todo`. A task is in one of these places only (`TasksApart`), so `RunTask` removes
it from `todo` as `Put` does; `Flight` makes the message parsed the one in the slot.
All other steps map to stutters. The mailbox leaves the order open; how far it may be
changed is `OvertakingCorrect`, from one more invariant (`OrderInv`): the queue is the
end of what was requested (`InOrder`), everything requested before it is sent or has
one of the threads, and at most `WorkThreads` have one (`ThreadsBusy`). So what a
message overtakes maps one to one into the other threads' tasks.

`SessionProofs`, for buffers at different addresses (`AddressesDiffer`; with two at
one address `session_repeat` shows the table failing). The invariant `IInv`:

- `Calling`: where the applications are, and that one that waits is in
  `wait_for_sync`, so that a wakeup returns from that call and no other;
- `Control`: the types of flags and counters;
- `Tables` (`GoodTable`): an entry leads from a buffer to its own address, or from
  an address to a buffer that has it;
- `Flow(Sent, received)`: messages, fetches and READs concern buffers that were
  sent, completions and READ_OVERs buffers that were read;
- `Stages`: deleted buffers were read, read buffers were sent.

`TypeCorrect` and `StagesCorrect` follow. By `Flow` every READ is of a buffer that
was sent, and with `Tables` the buffer a READ_OVER finds is one that was read. Closes,
dropped requests, spurious wakeups and destroyed queue pairs take things away and
add none, so this holds whatever is closed when. `AdvancesStep` says what a step can
do to the buffers: send one, read one, delete one that was read, or nothing.

`TransferProofs`, when moreover each buffer is sent once (`SentOnce`). `IInv` does
not say that an entry is still there when it is looked for, or the region when it is
read. For this, four parts are added (`Places`):

- `Apart`: a buffer under way is in one place only, a task, a message, the fetch
  pool, a READ or the completion of a READ;
- `Once`: it is there once;
- `Entries`: from the READ_REQUEST posted to the READ_OVER handled, the sender's
  table leads from the address to the buffer, and the reader's from the buffer to
  the address while it reads;
- `Gone`: nothing under way concerns a deleted buffer.

Six steps bring a buffer to a place, each emptying the place it comes from
(`MovedPlaces`), and `process_attached_message` of READ_OVER deletes a buffer that is
then nowhere; all other steps only take things away (`Quiet`). `Apart` is what makes
the rest inductive: the erasure of an entry harms nobody, because the buffer it
belongs to is on its way only once. From `Entries` follows `OwnBufferCorrect`. With
`Gone` an RDMA READ that is executed is the abstract `Read` of a buffer its sender
still has, a READ_OVER the abstract `Delete`, and everything else a stutter
(`Refinement`).

`BarrierProofs` is about applications that use the calls as they are meant; with
others the properties fail. `Session` names what is asked of them, each for itself,
and `MCSession` checks by an ASSUME that the applications of `session_barrier`, those
of `benchmark.cpp` among them, have all of it:

- `AddressesDiffer` and `SentOnce`, as above;
- `BarrierRounds`: a barrier comes when everything sent before it was waited for, and
  is for no less than the data sent up to the next one (`session_wait` is within
  this, and still waits for ever: the theorem says what holds *when* a wait returns);
- `~SpuriousWakeups`, for the wait without a loop of section 4;
- `ClosesLast`, for the close only: `close` is the last call, comes after a wait for
  all that was sent (it passes what is queued, as the program of `main.cpp` shows),
  and the other application only connects (`session_closing`, `session_both`);
- `OneEndEach`, for the close only: one connection per session (`session_clients`).

Nothing is assumed of `LossyDestroy`: the queue pairs may lose whatever was posted.

The barrier is a token. It is in a task, in a SYNC_REQUEST, in the peer's count that
has not reached its target, or in a SYNC_ACK; then `sync_flag` is set. Beside `OwnInv`
of `TransferProofs` the invariant `SyncInv` has

- `Origins` and `Fresh`: what is under way was asked for by a call that was made, and
  a buffer whose `send_data` was not made is nowhere;
- `Tokens`: a session has at most one token, in one place, and none with the flag;
- `Rounds`: the token is of the last barrier; while the peer counts, the count is no
  more than the data of this round that was counted, so the target is not reached
  before all of it was; in a SYNC_ACK and with the flag, all of it was;
- `Waited`: a wait after the last barrier returned on the flag, and what was sent
  before a wait that has returned was counted.

Each token moves by one action only (`Moved`), and a second one is never made because
`BarrierRounds` has `set_sync_barrier` wait for the flag first. That the count reaches
the target only with the last buffer is a fact about cardinalities (`DataSize`): bytes
are pairs of a buffer and a position, so no buffer counts for another. `SyncSoundCorrect`
follows: this is where an overtaken SYNC_REQUEST, whose reset drops data already
counted, harms the wait but not its promise.

For the close, `CloseInv` adds

- `Goodbyes`: who may say CLOSE, CLOSE_ACK and CLOSE_TERMINATE, and when; only the end
  that closes terminates, with its table empty;
- `Handshake`: one CLOSE is answered by one CLOSE_ACK, behind which only READ_OVERs
  follow, and CLOSE_TERMINATE is the last message of all (`Order`);
- `Ended`: a CLOSED session has an empty table and nothing on its way to it, and the
  side that did not close is CLOSED only after the one that did; threads stop, and
  queue pairs go, only then;
- `Keys`: an entry belongs to a READ under way or to a buffer the end has sent.

By `Waited`, once `close` is called every buffer was read, and only its READ_OVER can
be under way (`Over`, `Sides`). Each entry still in the table of the closing end stands
for one READ_OVER, so an empty table means that nothing is left: hence `QuietCorrect`
and `GoodbyeCorrect`. `ClosedForGood`: no CLOSE or CLOSE_ACK can reach a CLOSED session.

`CompletionQueueProofs`. `OrderCorrect`: handled, polled and queued completions
together are the history. `Owned` says what the session has at each call of its
constructor and destructor, in both modes, and where its thread is then; from it
`QueueCorrect` (the thread never outlives its queue, and no endpoint, also none that
a daemon's thread makes beside or after the destructor, outlives the queue, the event
channel and the domain: the device refuses to destroy them then) and `CleanupCorrect`
(what is left in the end, such a late endpoint with what it uses included).
`MissedCorrect`, for every depth of the device's queue and with polls that fail: an
unarmed queue has an event raised, or the thread is about to arm it or to poll
(`Watched`), so a thread that blocks is armed, and has nothing in its queue unless its
last poll was full or failed. After a full one the queue holds at most
`Depth - CQ_SIZE`: none if the device gave what was asked for.

`ConnectProofs`. `Agreement` rests on an invariant that follows a datum around the
exchange: a client nobody has accepted is in the backlog once and knows nothing
(`Unaccepted`), what is sent to a client is the number of one endpoint and of no
other client's (`Sent`), a client knows what was sent to it and answers with its
own name (`Answered`), and an endpoint knows the answer of the client it was sent
to (`Learnt`). Endpoints whose queue pair stays in RESET, accepts that fail and
processes that die, the server's included, change none of it. The one thread of the daemon is what keeps `remote_sock_` still
during an exchange.

Only model-checked: liveness (`EveryRequestDelivered`, `EveryCompletionHandled`,
`EverySendOver`, `CloseEnds`, `DestructorReturns`, `AcceptedClientServed`,
`EveryClientServed`), because fairness and ENABLED are beyond the prover, and
`FewNotices`, whose bound rests on all of the close handshake with programs that no
theorem of section 5 admits (both ends close). Every other invariant and action
property of a passing run is a theorem.

## 6. Not modelled

- The contents of messages beyond the fields the receiver uses, and their layout.
  (The values of the exchange are converted to network byte order; the fields of
  messages are not, which matters only between machines of different endianness.)
- Two endpoints of one process that wait for a barrier each: they share `sync_flag`
  and `sync_cv`, and no program of the repository does it. `sync_flag` is one per
  session in `Session`.
- The memory pool's block lists and the thread pool's own code, which are in
  submodules that the repository does not contain.
- Completion queues and send queues that overflow: what the device then does is not
  in the code, which only logs a failing `ibv_post_send` or `ibv_post_recv`.
- A `modify_qp_to_rtr` or `modify_qp_to_rts` that fails with the right data on a queue
  pair in INIT; the code ignores it as it ignores the others.
- Address lookup, socket options, logging, random numbers, timing, command lines.
- Functions without a caller: `delete_endpoint`, `sock_sync_ready`,
  `work_pool_clear`; the message types WRITE_REQUEST and WRITE_READY, which are
  never sent.

## 7. Order of work, and what is left

Written in this order: `Mailbox` and `Channel` with proofs and refinement;
`CompletionQueue` with proofs; `Session`; `Connect`; then `Transfer` and the
refinement, the destructors of both, the proofs for `Session` and `Connect`, those
of the barrier and the close, and the bound on overtaking.

Left for whoever goes on: an abstract specification of a barrier; the
composition of `CompletionQueue` with `Session` (a batch is handled in parts, a
handler per step, which `Session` already allows).
