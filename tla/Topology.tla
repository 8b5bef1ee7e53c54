------------------------------ MODULE Topology ------------------------------
(***************************************************************************)
(* The scenario scripts src/project1.cc and src/examples/udp-app.cc: the   *)
(* nodes they create (in creation order, which is also the order in which  *)
(* ns-3 initialises them), the point-to-point pair with the compressing    *)
(* device, the CSMA segment, and where and when they install the           *)
(* UdpAppServer and the UdpAppClients.  Every client is given the          *)
(* server's CSMA address (udpIp.GetAddress (1)).                           *)
(*                                                                         *)
(* Ipv4GlobalRoutingHelper::PopulateRoutingTables gives a node a route to  *)
(* an address exactly when the address's node is connected to it through  *)
(* the installed channels; every node runs the Internet stack and so       *)
(* forwards.  Times are in milliseconds.                                   *)
(***************************************************************************)
EXTENDS Naturals, Sequences, SequencesExt, Relation, TLC

\* project1.cc: comp and decomp form the compressing pair, sender and
\* receiver the CSMA segment.  Clients in the order they are installed:
\* clientApp (Start 1 s), the unnamed one on comp (no Start: 0 s),
\* p2pServer on decomp (1 s), p2pClient on comp (2 s).  A stop of 0 is no
\* Stop call: ns-3 then never schedules StopApplication.
Project1 ==
  [nodes   |-> <<"comp", "decomp", "sender", "receiver">>,
   p2p     |-> {"comp", "decomp"},
   csma    |-> {"sender", "receiver"},
   server  |-> [node |-> "receiver", start |-> 1000, stop |-> 3000000, count |-> 6000],
   count   |-> 6000,
   interval |-> 15,
   clients |-> <<[node |-> "sender", start |-> 1000, stop |-> 3000000,  fill |-> FALSE],
                 [node |-> "comp",   start |-> 0,    stop |-> 0,        fill |-> FALSE],
                 [node |-> "decomp", start |-> 1000, stop |-> 30000000, fill |-> FALSE],
                 [node |-> "comp",   start |-> 2000, stop |-> 0,        fill |-> FALSE]>>]

\* examples/udp-app.cc: p2pNodes are created before udpNodes; the client on
\* udpNodes 0 gets SetFill (fill, 6, 1024) before the run, p2pClient not.
UdpApp ==
  [nodes   |-> <<"p2p0", "p2p1", "udp0", "udp1">>,
   p2p     |-> {"p2p0", "p2p1"},
   csma    |-> {"udp0", "udp1"},
   server  |-> [node |-> "udp1", start |-> 1000, stop |-> 300000, count |-> 6000],
   count   |-> 6000,
   interval |-> 15,
   clients |-> <<[node |-> "udp0", start |-> 2000, stop |-> 300000, fill |-> TRUE],
                 [node |-> "p2p0", start |-> 2000, stop |-> 300000, fill |-> FALSE]>>]

\* The channels: the point-to-point link and the CSMA bus (any two of its
\* nodes are one hop apart).
LinkEdge(S) == S.p2p
Channels(S) == {LinkEdge(S)} \cup {{a, b} : a, b \in S.csma}

ClientIds(S) == DOMAIN S.clients

\* Node m reaches node n over the given set of channels.
Reaches(S, edges, m, n) ==
  LET V == ToSet(S.nodes)
      hop == [x, y \in V |-> \E e \in edges : {x, y} \subseteq e]
  IN  ReflexiveTransitiveClosure(hop, V)[m, n]

\* The client's socket has a route to the server's address.
HasRoute(S, i) == Reaches(S, Channels(S), S.clients[i].node, S.server.node)

\* Every route from the client to the server crosses the compressing link.
CrossesLink(S, i) ==
  /\ HasRoute(S, i)
  /\ ~Reaches(S, Channels(S) \ {LinkEdge(S)}, S.clients[i].node, S.server.node)

\* Clients that start before the server has bound its port.
Early(S) == {i \in ClientIds(S) : S.clients[i].start < S.server.start}

\* Clients given a Stop time.
StopSet(S) == {i \in ClientIds(S) : S.clients[i].stop # 0}

(***************************************************************************)
(* Timing.  count and interval are the MaxPackets and Interval attributes  *)
(* of the client helper, so every client of a script has them.  Send runs  *)
(* first at the start time (ScheduleTransmit (0)) and then reschedules     *)
(* itself 2 * m_count times, m_interval apart.                             *)
(***************************************************************************)
LastSendTime(S, i) == S.clients[i].start + 2 * S.count * S.interval

\* Every StopApplication the script schedules (the server's and the
\* clients' with a Stop time) runs after every client's last send, with
\* one interval to spare for the datagram and its echo (two 2 ms hops of
\* the CSMA bus, about 1.7 ms each to transmit 1024 bytes at 5 Mb/s).
StopsAfterSchedules(S) ==
  \A t \in {S.server.stop} \cup {S.clients[i].stop : i \in StopSet(S)} :
    \A i \in ClientIds(S) : LastSendTime(S, i) + S.interval < t

\* The server's phase length is the clients' MaxPackets.
SameCount(S) == S.server.count = S.count

\* SetFill before the run leaves m_dataSize = 1024.
Filled(S) == {i \in ClientIds(S) : S.clients[i].fill}

(***************************************************************************)
(* The order in which StartApplication runs: by start time, and at equal   *)
(* times by node creation order (each node schedules its applications'     *)
(* starts when it is initialised), then by installation order; the server  *)
(* is installed before the clients.  Actor 0 is the server.                *)
(***************************************************************************)
NodeRank(S, n) == CHOOSE i \in DOMAIN S.nodes : S.nodes[i] = n

Actor(S, a) == IF a = 0 THEN S.server ELSE S.clients[a]
StartKey(S, a) ==
  <<Actor(S, a).start, NodeRank(S, Actor(S, a).node), a>>
KeyBefore(k, l) ==
  \/ k[1] < l[1]
  \/ k[1] = l[1] /\ k[2] < l[2]
  \/ k[1] = l[1] /\ k[2] = l[2] /\ k[3] < l[3]
AppStartOrder(S) ==
  SortSeq([j \in 1..Len(S.clients) + 1 |-> j - 1],
          LAMBDA a, b : KeyBefore(StartKey(S, a), StartKey(S, b)))
=============================================================================
