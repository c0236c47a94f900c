------------------------------ MODULE Mailbox ------------------------------
(***************************************************************************)
(* What one RDMA_Channel pair promises to the code above it, with no       *)
(* locks, buffers or completions: every end owns a one-slot mailbox at its *)
(* peer.  A requested message is put in the slot at most once, in an order *)
(* of the pool's choosing, only when the slot is empty; the peer takes     *)
(* each message out once and unchanged.  There is no promise that a        *)
(* message put is ever taken: a peer that has left WORK takes no request.  *)
(***************************************************************************)
EXTENDS Naturals, Sequences

CONSTANTS Ends,          \* the two ends of the connection
          Peer(_),       \* the other end
          Msgs           \* Msgs[e]: the attached messages end e may send

VARIABLES todo,          \* todo[e]: messages requested at e and not yet put
          sent,          \* sent[e]: messages put by e, in order
          got            \* got[e]: messages taken by e, in order

mvars == <<todo, sent, got>>

\* The slot of e's peer holds the one message put and not yet taken.
Full(e) == sent[e] # got[Peer(e)]

Init == /\ todo = [e \in Ends |-> {}]
        /\ sent = [e \in Ends |-> <<>>]
        /\ got  = [e \in Ends |-> <<>>]

Request(e, m) == /\ todo' = [todo EXCEPT ![e] = @ \cup {m}]
                 /\ UNCHANGED <<sent, got>>

Put(e, m) == /\ m \in todo[e]
             /\ ~Full(e)
             /\ todo' = [todo EXCEPT ![e] = @ \ {m}]
             /\ sent' = [sent EXCEPT ![e] = Append(@, m)]
             /\ UNCHANGED got

Take(e) == /\ Full(e)
           /\ \E m \in Msgs[e] :
                /\ sent[e] = Append(got[Peer(e)], m)
                /\ got' = [got EXCEPT ![Peer(e)] = Append(@, m)]
           /\ UNCHANGED <<todo, sent>>

Next == \E e \in Ends : \/ \E m \in Msgs[e] : Request(e, m) \/ Put(e, m)
                        \/ Take(e)

Spec == Init /\ [][Next]_mvars
=============================================================================
