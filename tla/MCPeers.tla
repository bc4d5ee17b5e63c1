------------------------------ MODULE MCPeers ------------------------------
(* What is at the other end of wol's sockets, side by side: the proxy of the *)
(* proxy mode and the listener of the test driver.                           *)
EXTENDS MCProxy, NicFake

VARIABLE peer

peersVars == <<proxyVars, nicVars, peer>>

PeersInit == ProxyInit /\ NicInit /\ peer \in {"proxy", "listener"}

PeersNext ==
  \/ peer = "proxy"    /\ ProxyNext /\ UNCHANGED <<nicVars, peer>>
  \/ peer = "listener" /\ NicNext   /\ UNCHANGED <<proxyVars, peer>>

OfProxy(A)    == peer = "proxy" /\ A /\ UNCHANGED <<nicVars, peer>>
OfListener(A) == peer = "listener" /\ A /\ UNCHANGED <<proxyVars, peer>>

(* The fairness of the two, for the one that is at work. *)
PeersFairSpec ==
  /\ PeersInit /\ [][PeersNext]_peersVars
  /\ WF_peersVars(OfProxy(ClientStep))
  /\ WF_peersVars(OfProxy(ChallengeInTurn))
  /\ WF_peersVars(OfListener(DriverStep))
  /\ WF_peersVars(OfListener(ListenerStep))

(* The types of the variables of proxy_send and of the two threads.          *)
PeersTypeOK == ProxyTypeOK /\ NicTypeOK

(* Nobody waits for the other for ever: a call of proxy_send comes back      *)
(* (CallsEnd of Proxy, with its one exception), and the main thread of       *)
(* check/nic-fake.py is woken (DriverGoesOn of NicFake).                     *)
PeersGoOn ==
  /\ peer = "proxy" => CallsEnd
  /\ peer = "listener" => DriverGoesOn
=============================================================================
