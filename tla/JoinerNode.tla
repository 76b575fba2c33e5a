------------------------------ MODULE JoinerNode ------------------------------
(***************************************************************************)
(* A joining node as main.cpp runs it: the key-file startup (Startup)      *)
(* followed, once hostPair is loaded and the LinkLayer built, by           *)
(* link.joinNetwork(nodeName) and the join protocol (JoinProtocol).        *)
(* The process may crash during startup and is started again; a crash      *)
(* after joinNetwork is not modelled.                                      *)
(***************************************************************************)
EXTENDS JoinProtocol, Startup

nodeVars == <<vars, svars>>

NodeInit == Init /\ StartupInit

\* main() lines 86-115, before any LinkLayer exists.
StartupStep == joinStep = "Unset" /\ StartupNext /\ UNCHANGED vars

\* main() line 128 and everything the LinkLayer does after it: only a
\* process that has its key pair gets there.
LinkStep == phase = "ready" /\ Next /\ UNCHANGED svars

\* link.joinNetwork's initTransport: beginReceiving fails (the UDP port is
\* already bound), joinNetwork returns false before anything else, and
\* main returns 1.
BindFails ==
    /\ phase = "ready" /\ joinStep = "Unset"
    /\ phase' = "exited"
    /\ UNCHANGED <<vars, keyFile, hostKey, crashes>>

NodeNext == StartupStep \/ LinkStep \/ BindFails

\* JoinProtocol's fairness, with joinNetwork called by main once it is
\* ready; main's own startup steps are taken, a restart is not promised.
NodeFairness ==
    /\ WF_nodeVars(Generate /\ UNCHANGED vars)
    /\ WF_nodeVars(WriteKeyFile /\ UNCHANGED vars)
    /\ WF_nodeVars(phase = "ready" /\ JoinNetwork /\ UNCHANGED svars)
    /\ WF_nodeVars(JoinTimeout /\ UNCHANGED svars)
    /\ WF_nodeVars(PingTimeout /\ UNCHANGED svars)
    /\ WF_nodeVars(Tick /\ UNCHANGED svars)
    /\ WF_nodeVars(\E m \in net : Receive(m) /\ UNCHANGED svars)

NodeSpec == NodeInit /\ [][NodeNext]_nodeVars /\ NodeFairness

NodeTypeOK == TypeOK /\ StartupTypeOK
=============================================================================
