------------------------------ MODULE Transfer ------------------------------
(***************************************************************************)
(* What the pull protocol promises for the buffers an application sends,   *)
(* with no messages, tables or threads: the data of a buffer reaches the   *)
(* peer only after it was sent and while its sender has it; the buffer is  *)
(* deleted, its memory region deregistered, only after the peer has read   *)
(* it.  There is no promise that a buffer is ever read: the session may be *)
(* closed before.                                                          *)
(***************************************************************************)
EXTENDS Naturals

CONSTANT Buffers     \* the RDMA_Buffers

VARIABLES sent,      \* buffers given to send_data
          read,      \* buffers whose data the peer has
          deleted    \* buffers deleted by their sender

tvars == <<sent, read, deleted>>

Init == /\ sent = {}
        /\ read = {}
        /\ deleted = {}

Send(b) == /\ sent' = sent \cup {b}
           /\ UNCHANGED <<read, deleted>>

Read(b) == /\ b \in sent \ deleted
           /\ read' = read \cup {b}
           /\ UNCHANGED <<sent, deleted>>

Delete(b) == /\ b \in read
             /\ deleted' = deleted \cup {b}
             /\ UNCHANGED <<sent, read>>

Next == \E b \in Buffers : Send(b) \/ Read(b) \/ Delete(b)

Spec == Init /\ [][Next]_tvars
=============================================================================
