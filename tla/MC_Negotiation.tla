--------------------------- MODULE MC_Negotiation ---------------------------
(* Instantiations of Negotiation for TLC.  A, B, C are model values;       *)
(* eA, eB, eC are the endpoints they listen on, eB2 a second endpoint of B *)
(* (the address B's datagrams appear to come from behind a shared NAT).   *)
EXTENDS Negotiation

CONSTANTS A, B, C, eA, eB, eC, eB2

\* Two nodes on a flat network: every node is seen at its own endpoint.
TwoEndpoints == {eA, eB}
TwoReach == (eA :> A) @@ (eB :> B)
TwoSource == (A :> (B :> eA)) @@ (B :> (A :> eB))

ThreeNodes == {A, B, C}

\* Per-node bounds on the packets handed to the gate.
SendsOne == [n \in ThreeNodes |-> 1]
SendsTwo == [n \in ThreeNodes |-> 2]
SendsOneTwo == (A :> 1) @@ (B :> 2) @@ (C :> 1)

\* Three nodes; B is behind the same NAT as A (its datagrams reach A from
\* eB2), C is on the flat network.
NatThreeEndpoints == {eA, eB, eB2, eC}
NatThreeReach == (eA :> A) @@ (eB :> B) @@ (eB2 :> B) @@ (eC :> C)
NatThreeSource == [n \in ThreeNodes |->
                     [m \in ThreeNodes |-> CASE n = B /\ m = A -> eB2
                                             [] n = A -> eA
                                             [] n = B -> eB
                                             [] n = C -> eC]]
=============================================================================
