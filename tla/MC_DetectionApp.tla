--------------------------- MODULE MC_DetectionApp ---------------------------
(***************************************************************************)
(* DetectionApp instantiated for TLC.  The shipped configuration has      *)
(* MaxPackets = 6000, a 6000-slice pool and the literal offset 6000 in     *)
(* Send; the runs keep those three equal and scale them down.  Actor 0 is  *)
(* the server, clients are numbered from 1.                                *)
(*                                                                         *)
(* The script configurations take the clients, their routes, SetFill and   *)
(* the start order from module Topology.  The generic ones describe the    *)
(* deployment the detector is meant for: every client routed through the   *)
(* compressing link.                                                       *)
(***************************************************************************)
EXTENDS DetectionApp, Topology, TLC

\* Both scripts give client and server the same MaxPackets (DetectionApp's
\* single N), and stop nothing before every schedule and echo has ended
\* (DetectionApp's Quiescent guard on the Stop actions).
ASSUME \A S \in {Project1, UdpApp} : SameCount(S) /\ StopsAfterSchedules(S)

\* src/project1.cc.  The values are written out so that TLC does not
\* recompute the routes in every state; the ASSUME checks them against
\* module Topology.
P1Clients    == {1, 2, 3, 4}
P1Early      == {2}
P1StartOrder == <<2, 3, 1, 0, 4>>
P1Routed     == {1}
P1ViaLink    == {}
P1Filled     == {}
P1Stoppers   == {1, 3}
ASSUME /\ P1Clients = ClientIds(Project1)
       /\ P1Early = Early(Project1)
       /\ P1StartOrder = AppStartOrder(Project1)
       /\ P1Routed = {i \in P1Clients : HasRoute(Project1, i)}
       /\ P1ViaLink = {i \in P1Clients : CrossesLink(Project1, i)}
       /\ P1Filled = Filled(Project1)
       /\ P1Stoppers = StopSet(Project1)

\* src/examples/udp-app.cc
UAClients    == {1, 2}
UAEarly      == {}
UAStartOrder == <<0, 2, 1>>
UARouted     == {1}
UAViaLink    == {}
UAFilled     == {1}
UAStoppers   == {1, 2}
ASSUME /\ UAClients = ClientIds(UdpApp)
       /\ UAEarly = Early(UdpApp)
       /\ UAStartOrder = AppStartOrder(UdpApp)
       /\ UARouted = {i \in UAClients : HasRoute(UdpApp, i)}
       /\ UAViaLink = {i \in UAClients : CrossesLink(UdpApp, i)}
       /\ UAFilled = Filled(UdpApp)
       /\ UAStoppers = StopSet(UdpApp)

\* One client started after the server.
OneClient      == {1}
OneStartOrder  == <<0, 1>>

\* Two clients, the first started before the server (as a client with no
\* Start call is).
TwoClients     == {1, 2}
TwoStartOrder  == <<1, 0, 2>>
=============================================================================
