--------------------------- MODULE MC_JoinProtocol ---------------------------
(* Instances of JoinProtocol for TLC; the constants are given in the .cfg  *)
(* files.  One tick stands for a network hop; the 5 s timers are worth     *)
(* Timeout ticks, so a step answered within the timeout has room for the   *)
(* three hops of the ping exchange.                                        *)
EXTENDS JoinProtocol
=============================================================================
