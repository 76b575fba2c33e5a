---------------------------- MODULE MC_Membership ----------------------------
(* Instantiations of Membership for TLC.  A founded the network; B and C  *)
(* are public nodes, D sits behind a NAT.                                 *)
EXTENDS Membership, TLC

CONSTANTS A, B, C, D

\* B and C play the same part: both are public non-founders.
PublicJoiners == Permutations({B, C})
=============================================================================
