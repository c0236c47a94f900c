----------------------------- MODULE MCConnect -----------------------------
(* Instances of Connect for TLC. *)
EXTENDS Connect

CONSTANTS c1, c2, c3

ThreeClients == {c1, c2, c3}
TwoClients == {c1, c2}
OneCrasher == {c1}
=============================================================================
