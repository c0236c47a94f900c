----------------------------- MODULE MCChannel -----------------------------
(* Instances of Channel for TLC. *)
EXTENDS Channel, TLC

CONSTANTS a1, a2, a3, b1

\* Three messages one way, one the other; the peer may ignore two of them.
MsgsOneSided == (A :> {a1, a2, a3}) @@ (B :> {b1})
RequestsOneSided == {a1, a2}
Symmetric == Permutations(RequestsOneSided)

\* The peer is told to close, or that a round is over.
NoticesOneSided == (A :> 1) @@ (B :> 0)

\* Traffic both ways.
MsgsBothSides == (A :> {a1, a2}) @@ (B :> {b1})
RequestsBothSides == {a1, b1}
=============================================================================
