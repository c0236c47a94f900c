-------------------------- MODULE CompletionQueue --------------------------
(***************************************************************************)
(* The completion queue of a session and the thread that empties it        *)
(* (RDMA_Session::session_processCQ, src/src/rdma_session.cpp): wait for   *)
(* an event, re-arm the notification, poll one batch, handle it.           *)
(*                                                                         *)
(* The queue and its event channel belong to the device: an armed queue    *)
(* raises one event for the next completion that enters it and is then     *)
(* unarmed; a completion that enters an unarmed queue raises none.  What a *)
(* handler does is the subject of Channel and Session; here a completion   *)
(* is good, good and the last of its session, or bad.                      *)
(*                                                                         *)
(* The session belongs to an application that constructs it, one verbs     *)
(* object after the other, connects endpoints and destroys it.  In daemon  *)
(* mode the endpoints are made by the daemon's thread instead, which the   *)
(* destructor does not stop: it may make one beside the destructor, after  *)
(* it, or crash on what is gone.                                           *)
(***************************************************************************)
EXTENDS Integers, Sequences

CONSTANTS
    CQ_SIZE,        \* entries asked of ibv_create_cq and polled at once
    Depth,          \* entries the device gave the queue: it may round up
    MaxCompletions  \* bound of the model: completions in all

ASSUME SizeAssumption == /\ CQ_SIZE \in Nat \ {0}
                         /\ Depth \in Nat /\ Depth >= CQ_SIZE
ASSUME MaxAssumption == MaxCompletions \in Nat

\* A good completion, that of a CLOSE_TERMINATE, one without IBV_WC_SUCCESS.
Completion == {"GOOD", "TERMINATE", "BAD"}

VARIABLES
    daemon,     \* the application has called daemon_connect, not ptp_connect
    owner,      \* the next call of the constructor or destructor; "built" between
                \* them, "broken" when the constructor has returned early,
                \* "destroyed" or "crashed" at the end
    objects,    \* what the session has: "context", "pd", "event_channel", "cq",
                \* "mempool", "endpoints"; "regions": memory of the application that
                \* an RDMA_Buffer has registered and not deregistered
    cq,         \* completions in the queue, oldest first
    armed,      \* ibv_req_notify_cq was called and no event raised since
    events,     \* events in the channel
    pc,         \* the thread: "none" before it is started, "loop", "event", "arm", "poll",
                \* "handle", "ended" after the loop, "failed" after an early return
    wc,         \* what is left of the polled batch
    ne,         \* what the last ibv_poll_cq returned
    status,     \* status_
    completed,  \* history: all completions, oldest first
    handled     \* history: completions handled, oldest first

session == <<daemon, owner, objects>>
batch == <<wc, ne>>
history == <<completed, handled>>
thread == <<cq, armed, events, pc, batch, status, history>>
vars == <<session, thread>>

Init == /\ daemon \in BOOLEAN
        /\ owner = "open_ib_device"
        /\ objects = {}
        /\ cq = <<>>
        /\ armed = FALSE
        /\ events = 0
        /\ pc = "none"
        /\ wc = <<>>
        /\ ne = 0
        /\ status = "WORK"
        /\ completed = <<>>
        /\ handled = <<>>

-----------------------------------------------------------------------------
(* The constructor and the destructor, called by the application's thread. *)

Creates(call, object, next) ==
    /\ owner = call
    /\ owner' = next
    /\ objects' = objects \cup {object}
    /\ UNCHANGED daemon

OpenDevice == /\ Creates("open_ib_device", "context", "alloc_pd")
              /\ UNCHANGED thread

AllocPd == /\ Creates("alloc_pd", "pd", "create_comp_channel")
           /\ UNCHANGED thread

CreateCompChannel == /\ Creates("create_comp_channel", "event_channel", "create_cq")
                     /\ UNCHANGED thread

CreateCq == /\ Creates("create_cq", "cq", "req_notify_cq")
            /\ UNCHANGED thread

\* The queue is armed before there is a thread and before there is an endpoint.
ReqNotifyCq ==
    /\ owner = "req_notify_cq"
    /\ owner' = "start_thread"
    /\ armed' = TRUE
    /\ UNCHANGED <<daemon, objects, cq, events, pc, batch, status, history>>

StartThread ==
    /\ Creates("start_thread", "mempool", "built")
    /\ pc' = "loop"
    /\ status' = "WORK"
    /\ UNCHANGED <<cq, armed, events, batch, history>>

\* A call fails and the constructor returns.
ConstructorFails ==
    /\ owner \in {"open_ib_device", "alloc_pd", "create_comp_channel", "create_cq",
                  "req_notify_cq"}
    /\ owner' = "broken"
    /\ UNCHANGED <<daemon, objects, thread>>

\* (mutation) the completion thread is not joined
JoinNothing ==
    /\ owner = "built"
    /\ owner' = "delete_endpoints"
    /\ UNCHANGED <<daemon, objects, thread>>

\* stop_process
Join ==
    /\ owner = "built"
    /\ pc \in {"ended", "failed"}
    /\ owner' = "delete_endpoints"
    /\ UNCHANGED <<daemon, objects, thread>>

\* The process dies with the next call on a broken session: there is no pool for a new
\* endpoint and no thread for stop_process.
JoinBroken ==
    /\ owner = "broken"
    /\ owner' = "crashed"
    /\ UNCHANGED <<daemon, objects, thread>>

\* The device refuses to destroy what others still use; that is only logged.
Destroys(call, object, users, next) ==
    /\ owner = call
    /\ owner' = next
    /\ objects' = IF users \cap objects = {} THEN objects \ {object} ELSE objects
    /\ UNCHANGED <<daemon, thread>>

\* (mutation) the endpoints are not deleted
KeepEndpoints == Destroys("delete_endpoints", "none", {}, "delete_mempool")

DeleteEndpoints == Destroys("delete_endpoints", "endpoints", {}, "delete_mempool")

DeleteMempool == Destroys("delete_mempool", "mempool", {}, "destroy_cq")

DestroyCq == Destroys("destroy_cq", "cq", {"endpoints"}, "destroy_comp_channel")

DestroyCompChannel ==
    Destroys("destroy_comp_channel", "event_channel", {"cq"}, "dealloc_pd")

DeallocPd == Destroys("dealloc_pd", "pd", {"endpoints", "mempool", "regions"}, "destroyed")

-----------------------------------------------------------------------------
(* new_endpoint: a queue pair of pd_ that completes into cq_, made by the   *)
(* application's thread (ptp_connect) or, in daemon mode, by the daemon's.  *)

\* The calls of the destructor from the deletion of the endpoints on.
Destruction == {"delete_endpoints", "delete_mempool", "destroy_cq", "destroy_comp_channel",
                "dealloc_pd", "destroyed"}

\* The daemon's thread is not stopped by the destructor, and the device makes a queue
\* pair for as long as it has the domain and the queue.  One that comes while or after
\* endpoint_list_ is gone through is not deleted.
NewEndpoint ==
    /\ owner = "built" \/ (daemon /\ owner \in Destruction)
    /\ {"pd", "cq"} \subseteq objects
    /\ objects' = objects \cup {"endpoints"}
    /\ UNCHANGED <<daemon, owner, thread>>

\* No queue pair is made, so that channel_ is null; or, beside the destructor, the
\* endpoint, the list, the pool or the session is found freed.
NewEndpointCrashes ==
    /\ owner = "built" \/ (daemon /\ owner \in Destruction)
    /\ owner' = "crashed"
    /\ UNCHANGED <<daemon, objects, thread>>

\* send_rawdata: an RDMA_Buffer registers the caller's memory with pd_.  The
\* application of a daemon has no endpoint to call.
SendRawdata ==
    /\ ~daemon
    /\ owner = "built" /\ "endpoints" \in objects
    /\ objects' = objects \cup {"regions"}
    /\ UNCHANGED <<daemon, owner, thread>>

-----------------------------------------------------------------------------
(* The device and the completion thread. *)

\* The device completes some work of an endpoint.
Complete(c) ==
    /\ "endpoints" \in objects
    /\ Len(completed) < MaxCompletions
    /\ Len(cq) < Depth
    /\ cq' = Append(cq, c)
    /\ completed' = Append(completed, c)
    /\ armed' = FALSE
    /\ events' = IF armed THEN events + 1 ELSE events
    /\ UNCHANGED <<session, pc, batch, status, handled>>

\* while (status_ != CLOSED)
Loop == /\ pc = "loop"
        /\ pc' = IF status # "CLOSED" THEN "event" ELSE "ended"
        /\ UNCHANGED <<session, cq, armed, events, batch, status, history>>

\* ibv_get_cq_event blocks until there is an event.
GetEvent == /\ pc = "event"
            /\ events > 0
            /\ events' = events - 1
            /\ pc' = "arm"
            /\ UNCHANGED <<session, cq, armed, batch, status, history>>

\* (mutation) the notification is not asked for again
ArmNever == /\ pc = "arm"
            /\ pc' = "poll"
            /\ UNCHANGED <<session, cq, armed, events, batch, status, history>>

Arm == /\ pc = "arm"
       /\ armed' = TRUE
       /\ pc' = "poll"
       /\ UNCHANGED <<session, cq, events, batch, status, history>>

\* Either call fails and the thread returns.
Fail == /\ pc \in {"event", "arm"}
        /\ pc' = "failed"
        /\ UNCHANGED <<session, cq, armed, events, batch, status, history>>

\* The first n of a sequence, and the others.
First(s, n) == SubSeq(s, 1, n)
Others(s, n) == SubSeq(s, n + 1, Len(s))

\* What ibv_poll_cq returns.
Polled == IF Len(cq) < CQ_SIZE THEN Len(cq) ELSE CQ_SIZE

\* (mutation) no test of ne > 0
PollUnchecked ==
    /\ pc = "poll"
    /\ ne' = Polled
    /\ wc' = First(cq, Polled)
    /\ cq' = Others(cq, Polled)
    /\ pc' = "handle"
    /\ UNCHANGED <<session, armed, events, status, history>>

\* (mutation) one completion per event
PollOne ==
    /\ pc = "poll"
    /\ ne' = Len(First(cq, 1))
    /\ wc' = First(cq, 1)
    /\ cq' = Others(cq, 1)
    /\ pc' = IF cq # <<>> THEN "handle" ELSE "loop"
    /\ UNCHANGED <<session, armed, events, status, history>>

\* One call of ibv_poll_cq; what it leaves is not polled before the next event.
Poll ==
    /\ pc = "poll"
    /\ ne' = Polled
    /\ wc' = First(cq, Polled)
    /\ cq' = Others(cq, Polled)
    /\ pc' = IF Polled > 0 THEN "handle" ELSE "loop"
    /\ UNCHANGED <<session, armed, events, status, history>>

\* The call fails, which is taken for an empty queue.
PollFails ==
    /\ pc = "poll"
    /\ ne' = -1
    /\ pc' = "loop"
    /\ UNCHANGED <<session, cq, armed, events, wc, status, history>>

\* (mutation) the batch is left when its session is CLOSED
NextInBatchUnlessClosed(c) == IF Tail(wc) = <<>> \/ c = "TERMINATE" THEN "loop" ELSE "handle"

\* The batch is handled to its end, even if status_ is CLOSED on the way.
NextInBatch(c) == IF Tail(wc) = <<>> THEN "loop" ELSE "handle"

\* A good completion may be a READ_OVER that deletes the last RDMA_Buffer that
\* had registered memory.
Handle ==
    /\ pc = "handle"
    /\ Head(wc) # "BAD"
    /\ objects' \in {objects, IF Head(wc) = "GOOD" THEN objects \ {"regions"} ELSE objects}
    /\ handled' = Append(handled, Head(wc))
    /\ status' = IF Head(wc) = "TERMINATE" THEN "CLOSED" ELSE status
    /\ wc' = Tail(wc)
    /\ pc' = NextInBatch(Head(wc))
    /\ UNCHANGED <<daemon, owner, cq, armed, events, ne, completed>>

\* A bad completion ends the thread; status_ and the rest of the batch stay.
BadCompletion ==
    /\ pc = "handle"
    /\ Head(wc) = "BAD"
    /\ pc' = "failed"
    /\ UNCHANGED <<session, cq, armed, events, batch, status, history>>

Thread == \/ Loop
          \/ GetEvent
          \/ Arm
          \/ Poll
          \/ Handle
          \/ BadCompletion

Owner == \/ OpenDevice
         \/ AllocPd
         \/ CreateCompChannel
         \/ CreateCq
         \/ ReqNotifyCq
         \/ StartThread
         \/ ConstructorFails
         \/ SendRawdata
         \/ Join
         \/ JoinBroken
         \/ DeleteEndpoints
         \/ DeleteMempool
         \/ DestroyCq
         \/ DestroyCompChannel
         \/ DeallocPd

\* A crash ends all threads of the process.
Next == /\ owner # "crashed"
        /\ \/ Owner
           \/ NewEndpoint
           \/ NewEndpointCrashes
           \/ \E c \in Completion : Complete(c)
           \/ Thread
           \/ PollFails
           \/ Fail

Spec == Init /\ [][Next]_vars

\* The thread runs when it can; the device need not complete anything.
FairSpec == Spec /\ WF_vars(owner # "crashed" /\ Thread)

-----------------------------------------------------------------------------

OwnerCalls ==
    {"open_ib_device", "alloc_pd", "create_comp_channel", "create_cq", "req_notify_cq",
     "start_thread", "built", "broken", "delete_endpoints", "delete_mempool", "destroy_cq",
     "destroy_comp_channel", "dealloc_pd", "destroyed", "crashed"}
Objects == {"context", "pd", "event_channel", "cq", "mempool", "endpoints", "regions"}

\* Every variable has its type, and the thread is in the loop over a batch only
\* when the batch is not over.
TypeOK ==
    /\ daemon \in BOOLEAN
    /\ owner \in OwnerCalls
    /\ objects \subseteq Objects
    /\ cq \in Seq(Completion) /\ Len(cq) <= Depth
    /\ armed \in BOOLEAN
    /\ events \in Nat
    /\ pc \in {"none", "loop", "event", "arm", "poll", "handle", "ended", "failed"}
    /\ wc \in Seq(Completion) /\ Len(wc) <= CQ_SIZE
    /\ pc = "handle" => wc # <<>>
    /\ ne \in -1..CQ_SIZE
    /\ status \in {"WORK", "CLOSED"}
    /\ completed \in Seq(Completion)
    /\ handled \in Seq(Completion)

\* Completions are handled in order, each once, and a thread whose loop has ended
\* has skipped none of its batch, also not those of other endpoints behind the
\* CLOSE_TERMINATE of one.
HandledInOrder == /\ handled \o wc \o cq = completed
                  /\ pc = "ended" => wc = <<>>

\* When the thread is about to block in ibv_get_cq_event the queue is armed, and it
\* is empty when the last poll was neither full nor failed: a completion between the
\* poll and the wait, or between the event and the poll, is not missed.  A full poll
\* leaves no more than what the device has rounded up by.
NoMissedCompletion == pc = "event" /\ events = 0 =>
    /\ armed
    /\ ne \in 0..CQ_SIZE - 1 => cq = <<>>
    /\ ne = CQ_SIZE => Len(cq) <= Depth - CQ_SIZE

\* The completion thread never runs on an event channel or a queue that does not
\* exist yet or no more.  No endpoint outlives what it uses, also not one that the
\* daemon's thread makes beside the destructor: ibv_destroy_cq and ibv_dealloc_pd
\* fail then.
ThreadHasQueue ==
    /\ pc \notin {"none", "ended", "failed"} => {"event_channel", "cq"} \subseteq objects
    /\ "endpoints" \in objects => {"pd", "event_channel", "cq"} \subseteq objects

\* A session that was constructed and destroyed leaves nothing but the device open,
\* each object released after those that use it.  Only a buffer that no READ_OVER has
\* deleted keeps its region, and with it the protection domain, and only an endpoint
\* that a daemon has made too late keeps its queue, the event channel and the domain.
NothingLeft == owner = "destroyed" =>
    objects \in {{"context"}, {"context", "pd", "regions"}} \cup
        IF daemon THEN {{"context", "pd", "event_channel", "cq", "endpoints"}} ELSE {}

\* The thread waits after a poll that was full, so that it left some, or failed.
Stalled == pc = "event" /\ events = 0 /\ ne \in {-1, CQ_SIZE}

\* Every completion is handled, unless the thread has returned, stalled or crashed.
EveryCompletionHandled == \A i \in 1..MaxCompletions :
    Len(completed) >= i ~> \/ Len(handled) >= i
                            \/ pc \in {"ended", "failed"}
                            \/ Stalled
                            \/ owner = "crashed"

=============================================================================
