---------------------------- MODULE DetectionApp ----------------------------
(***************************************************************************)
(* The compression detector: UdpAppClient (src/model/udp-app-client.cc)    *)
(* sends N+1 low-entropy packets, switches to slices of a "random" pool    *)
(* and sends N more; UdpAppServer (src/model/udp-app-server.cc) counts the *)
(* first N arrivals as the low phase and the next as the high phase,       *)
(* stamping the first and the N-th of each, and reports both durations at  *)
(* StopApplication.                                                        *)
(*                                                                         *)
(* Several clients may be installed (the scripts install two or four);     *)
(* which of them have a route to the server, which routes cross the        *)
(* compressing link, which were given SetFill, and the order in which the  *)
(* applications start are constants (module Topology computes them from   *)
(* the scripts).  The path from a routed client to the server is a FIFO    *)
(* link that may lose packets.  Timestamps are wall-clock                  *)
(* (high_resolution_clock); the model keeps which packet was stamped, not  *)
(* when.                                                                   *)
(***************************************************************************)
EXTENDS Integers, Sequences, SequencesExt

CONSTANTS
  Clients,            \* UdpAppClient instances sending to the server
  N,                  \* MaxPackets of clients and server (m_count)
  PoolSlices,         \* 1024-byte slices in the packets pool (6000)
  HardOffset,         \* the literal 6000 in Send's index m_sent_l - 6000
  FileExistsAtStart,  \* ./randomfile exists before the run
  EarlyClients,       \* clients whose start time precedes the server's
  ServerActor,        \* the server's entry in StartOrder
  StartOrder,         \* clients and ServerActor in StartApplication order
  Routed,             \* clients whose socket has a route to the server
  ViaLink,            \* clients whose route crosses the compressing link
  FilledClients,      \* clients given SetFill before the run
  Stoppers,           \* clients given a Stop time
  Lossy,              \* the network may lose packets
  NoPkt               \* model value: no packet stamped yet

ASSUME N \in Nat \ {0} /\ PoolSlices \in Nat \ {0} /\ HardOffset \in Nat
ASSUME /\ StartOrder \in Seq(Clients \cup {ServerActor})
       /\ ToSet(StartOrder) = Clients \cup {ServerActor}
       /\ ViaLink \subseteq Routed /\ Routed \subseteq Clients
       /\ Stoppers \subseteq Clients

VARIABLES
  started,      \* StartApplication has run
  scheduled,    \* m_sendEvent is pending
  sentL,        \* m_sent_l
  highMode,     \* m_dataSize # 0
  pool,         \* contents of the packets pool: "unfilled", "zero", "bits"
  poolReads,    \* slice indices Send has copied from the pool (ghost)
  sentLog,      \* per client, the packets sent so far (ghost)
  fileExists,   \* ./randomfile exists on disk
  stopped,      \* the client's StopApplication has closed its socket
  echoLog,      \* per client, the echoes HandleRead received (ghost)
  net,          \* per client, packets on the way to the server
  echoNet,      \* per client, the server's echoes on the way back
  recvL, recvH, \* m_received_l, m_received_h
  allLow,       \* receivedAllLowEntropy
  firstT, lastT,\* packets whose arrival set m_first_t, m_last_t
  durL, durH,   \* m_duration_l / m_duration_h: [first, last] or NoPkt
  countedL,     \* arrivals counted in the low phase, in order (ghost)
  countedH,     \* arrivals counted in the high phase, in order (ghost)
  serverStarted,\* the server's StartApplication has bound its sockets
  serverStopped \* the server's StopApplication has reported

clientVars == <<started, scheduled, sentL, highMode, pool, poolReads, sentLog, fileExists>>
serverVars == <<recvL, recvH, allLow, firstT, lastT, durL, durH, countedL, countedH,
               serverStarted, serverStopped>>
rxVars == <<stopped, echoLog>>
netVars == <<net, echoNet>>
vars == <<clientVars, rxVars, netVars, serverVars>>

Pkt == [src : Clients, seq : Nat, mode : {"low", "high"}, payload : {"zero", "bits", "oob"}]

\* UdpAppClient constructor: m_sent_l = 0, no event, m_dataSize = 0 unless
\* SetFill was called before the run.
InitClient ==
  /\ started = [c \in Clients |-> FALSE]
  /\ scheduled = [c \in Clients |-> FALSE]
  /\ sentL = [c \in Clients |-> 0]
  /\ highMode = [c \in Clients |-> c \in FilledClients]
  /\ pool = [c \in Clients |-> "unfilled"]
  /\ poolReads = [c \in Clients |-> {}]
  /\ sentLog = [c \in Clients |-> <<>>]
  /\ fileExists = FileExistsAtStart
  /\ stopped = [c \in Clients |-> FALSE]
  /\ echoLog = [c \in Clients |-> <<>>]

\* UdpAppServer constructor: both counters and durations 0 (NoPkt: nothing
\* stamped or computed), receivedAllLowEntropy false.
InitServer ==
  /\ recvL = 0 /\ recvH = 0 /\ allLow = FALSE
  /\ firstT = NoPkt /\ lastT = NoPkt
  /\ durL = NoPkt /\ durH = NoPkt
  /\ countedL = <<>> /\ countedH = <<>>
  /\ serverStarted = FALSE
  /\ serverStopped = FALSE

Init ==
  /\ InitClient
  /\ net = [c \in Clients |-> <<>>]
  /\ echoNet = [c \in Clients |-> <<>>]
  /\ InitServer

(***************************************************************************)
(* The simulator runs the StartApplication events in StartOrder: by start  *)
(* time, and events of the same time in the order they were scheduled.     *)
(***************************************************************************)
StartedActor(a) == IF a = ServerActor THEN serverStarted ELSE started[a]
StartsAfterPredecessors(a) ==
  \A i \in 1..Len(StartOrder) :
    StartOrder[i] = a => \A h \in 1..i - 1 : StartedActor(StartOrder[h])

\* Server StartApplication binds the IPv4 and IPv6 sockets and installs
\* HandleRead.
ServerStart ==
  /\ ~serverStarted
  /\ StartsAfterPredecessors(ServerActor)
  /\ serverStarted' = TRUE
  /\ UNCHANGED <<clientVars, rxVars, netVars, recvL, recvH, allLow, firstT,
                 lastT, durL, durH, countedL, countedH, serverStopped>>

\* A datagram reaching the server's node before the port is bound finds no
\* socket and is discarded.
DropUnbound(c) ==
  /\ ~serverStarted
  /\ net[c] # <<>>
  /\ net' = [net EXCEPT ![c] = Tail(@)]
  /\ UNCHANGED <<clientVars, rxVars, echoNet, serverVars>>

(***************************************************************************)
(* FillInPacketArray: the ifstream is opened before the file is created,  *)
(* so on a run that creates randomfile nothing is read and the pool keeps  *)
(* its zero contents; otherwise it holds the file's '0'/'1' characters.    *)
(***************************************************************************)
\* Mutant: the stream never opens (randomfile written elsewhere).
FilledPoolNeverRead == "zero"

FilledPool == IF fileExists THEN "bits" ELSE "zero"

\* StartApplication: fill the pool, open the socket, ScheduleTransmit(0).
StartApplication(c) ==
  /\ ~started[c]
  /\ StartsAfterPredecessors(c)
  /\ started' = [started EXCEPT ![c] = TRUE]
  /\ pool' = [pool EXCEPT ![c] = FilledPool]
  /\ fileExists' = TRUE
  /\ scheduled' = [scheduled EXCEPT ![c] = TRUE]
  /\ UNCHANGED <<sentL, highMode, poolReads, sentLog, rxVars, netVars, serverVars>>

(***************************************************************************)
(* Send: in high mode copy pool slice m_sent_l - 6000 into m_data and send *)
(* it; in low mode copy slice m_sent_l (unused) and send lowPackets.  Then *)
(* ++m_sent_l and reschedule while m_sent_l <= 2 * m_count, switching to   *)
(* high mode when m_sent_l == m_count + 1.                                 *)
(***************************************************************************)
\* Mutants of the reschedule chain at the end of Send.
RescheduleOneMore(n) == n <= N \/ n = N + 1 \/ n <= 2 * N + 1
RescheduleStopsEarly(n) == n <= N \/ n = N + 1 \/ n < 2 * N
SwitchesAtCount(n) == ~(n <= N) /\ n = N

\* The if / else-if chain ending Send, on the incremented m_sent_l: every
\* branch reschedules; only the m_count + 1 branch sets m_dataSize.
Reschedules(n) == n <= N \/ n = N + 1 \/ n <= 2 * N
SwitchesToHigh(n) == ~(n <= N) /\ n = N + 1

\* Socket Send to an address the node has no route to fails (its -1 is
\* ignored) and the packet goes nowhere.
Routes(c, pkt) == IF c \in Routed THEN <<pkt>> ELSE <<>>

SlicePayload(c, idx) == IF idx \in 0..PoolSlices - 1 THEN pool[c] ELSE "oob"

\* The first send is ScheduleTransmit (0) at the start time, queued behind
\* a server start at the same time: only an early client can send before
\* the server has bound its port.
Send(c) ==
  /\ scheduled[c]
  /\ c \in EarlyClients \/ serverStarted
  /\ LET k == sentL[c]
         idx == IF highMode[c] THEN k - HardOffset ELSE k
         pkt == [src |-> c, seq |-> k + 1,
                 mode |-> IF highMode[c] THEN "high" ELSE "low",
                 payload |-> IF highMode[c] THEN SlicePayload(c, idx) ELSE "zero"]
     IN /\ poolReads' = [poolReads EXCEPT ![c] = @ \cup {idx}]
        /\ net' = [net EXCEPT ![c] = @ \o Routes(c, pkt)]
        /\ sentLog' = [sentLog EXCEPT ![c] = Append(@, pkt)]
        /\ sentL' = [sentL EXCEPT ![c] = k + 1]
        /\ highMode' = [highMode EXCEPT ![c] = @ \/ SwitchesToHigh(k + 1)]
        /\ scheduled' = [scheduled EXCEPT ![c] = Reschedules(k + 1)]
  /\ UNCHANGED <<started, pool, fileExists, rxVars, echoNet, serverVars>>

\* The network loses a packet or an echo on the way (queue overflow,
\* corruption).
Lose(c) ==
  /\ Lossy
  /\ \/ /\ \E i \in 1..Len(net[c]) : net' = [net EXCEPT ![c] = RemoveAt(@, i)]
        /\ UNCHANGED echoNet
     \/ /\ \E i \in 1..Len(echoNet[c]) : echoNet' = [echoNet EXCEPT ![c] = RemoveAt(@, i)]
        /\ UNCHANGED net
  /\ UNCHANGED <<clientVars, rxVars, serverVars>>

\* Mutants of the phase-closing test.
PhaseEndsEarly(r) == r # 1 /\ r = N - 1
PhaseEndsLeq(r) == r # 1 /\ ~(r <= N) /\ r = N

\* The branch of HandleRead that closes a phase: the N-th arrival, unless
\* the "== 1" branch, tested first, takes it.
PhaseEnds(r) == r # 1 /\ ~(r < N) /\ r = N

\* Mutant: the response is built but never sent.
NoReply(pkt) == <<>>

\* The response: a fresh m_size-byte packet sent to the datagram's source
\* address; the model's echo names the datagram it answers.
Reply(pkt) == <<pkt>>

(***************************************************************************)
(* Server HandleRead for one arrival: count it in the current phase; the   *)
(* 1st stamps m_first_t, the 2nd..N-th stamp m_last_t, the N-th computes   *)
(* the phase duration from m_first_t (and ends the low phase); then answer *)
(* the sender.                                                             *)
(***************************************************************************)
\* Mutant: m_first_t is stamped only while unset, so the high window keeps
\* the low phase's first frame.
StampFirstOnce(r, pkt) ==
  CASE r = 1 /\ firstT = NoPkt -> firstT' = pkt /\ UNCHANGED lastT
    [] r > 1 /\ r <= N -> lastT' = pkt /\ UNCHANGED firstT
    [] OTHER -> UNCHANGED <<firstT, lastT>>

Stamp(r, pkt) ==
  CASE r = 1 -> firstT' = pkt /\ UNCHANGED lastT
    [] r <= N -> lastT' = pkt /\ UNCHANGED firstT
    [] OTHER -> UNCHANGED <<firstT, lastT>>

HandleRead(c) ==
  /\ serverStarted /\ ~serverStopped
  /\ net[c] # <<>>
  /\ LET pkt == Head(net[c])
         window == [first |-> firstT, last |-> pkt]
     IN /\ net' = [net EXCEPT ![c] = Tail(@)]
        /\ echoNet' = [echoNet EXCEPT ![c] = @ \o Reply(pkt)]
        /\ IF ~allLow
           THEN LET r == recvL + 1 IN
                /\ recvL' = r
                /\ countedL' = Append(countedL, pkt)
                /\ Stamp(r, pkt)
                /\ durL' = IF PhaseEnds(r) THEN window ELSE durL
                /\ allLow' = PhaseEnds(r)
                /\ UNCHANGED <<recvH, countedH, durH>>
           ELSE LET r == recvH + 1 IN
                /\ recvH' = r
                /\ countedH' = Append(countedH, pkt)
                /\ Stamp(r, pkt)
                /\ durH' = IF PhaseEnds(r) THEN window ELSE durH
                /\ UNCHANGED <<recvL, countedL, durL, allLow>>
  /\ UNCHANGED <<clientVars, rxVars, serverStarted, serverStopped>>

\* Client HandleRead: the socket's receive callback traces the echo.
ClientHandleRead(c) ==
  /\ ~stopped[c]
  /\ echoNet[c] # <<>>
  /\ echoLog' = [echoLog EXCEPT ![c] = Append(@, Head(echoNet[c]))]
  /\ echoNet' = [echoNet EXCEPT ![c] = Tail(@)]
  /\ UNCHANGED <<clientVars, stopped, net, serverVars>>

(***************************************************************************)
(* StopApplication of clients and server run at a fixed time (300 s or    *)
(* more) well after the 2N+1 sends at 15 ms intervals: every send has      *)
(* happened and every packet and echo has arrived or been lost (checked    *)
(* against the scripts by Topology's StopsAfterSchedules).                 *)
(***************************************************************************)
Quiescent == \A c \in Clients : started[c] /\ ~scheduled[c] /\ net[c] = <<>>
                                /\ echoNet[c] = <<>>

\* Client StopApplication, for a client given a Stop time: close the socket
\* and drop its callback; the Cancel of the expired m_sendEvent is a no-op.
ClientStop(c) ==
  /\ c \in Stoppers /\ ~stopped[c]
  /\ Quiescent
  /\ stopped' = [stopped EXCEPT ![c] = TRUE]
  /\ UNCHANGED <<clientVars, echoLog, netVars, serverVars>>

\* Server StopApplication prints both durations and the verdict, then
\* closes both sockets.

ServerStop ==
  /\ ~serverStopped
  /\ Quiescent
  /\ serverStopped' = TRUE
  /\ UNCHANGED <<clientVars, rxVars, netVars, recvL, recvH, allLow, firstT,
                 lastT, durL, durH, countedL, countedH, serverStarted>>

Next ==
  \/ ServerStart
  \/ \E c \in Clients : \/ StartApplication(c) \/ Send(c) \/ Lose(c)
                        \/ DropUnbound(c) \/ HandleRead(c)
                        \/ ClientHandleRead(c) \/ ClientStop(c)
  \/ ServerStop

Spec == Init /\ [][Next]_vars

\* Application starts, scheduled sends, deliveries and the stop are all
\* simulator events, and every scheduled event runs.
FairSpec == Spec /\ \A c \in Clients : /\ WF_vars(StartApplication(c))
                                       /\ WF_vars(Send(c))
                                       /\ WF_vars(HandleRead(c))
                                       /\ WF_vars(DropUnbound(c))
                                       /\ WF_vars(ClientHandleRead(c))
                                       /\ WF_vars(ClientStop(c))
                /\ WF_vars(ServerStart) /\ WF_vars(ServerStop)

-----------------------------------------------------------------------------
(* Properties *)

TypeOK ==
  /\ started \in [Clients -> BOOLEAN] /\ scheduled \in [Clients -> BOOLEAN]
  /\ sentL \in [Clients -> 0..2 * N + 1] /\ highMode \in [Clients -> BOOLEAN]
  /\ pool \in [Clients -> {"unfilled", "zero", "bits"}]
  /\ poolReads \in [Clients -> SUBSET Int]
  /\ sentLog \in [Clients -> Seq(Pkt)] /\ net \in [Clients -> Seq(Pkt)]
  /\ stopped \in [Clients -> BOOLEAN]
  /\ echoLog \in [Clients -> Seq(Pkt)] /\ echoNet \in [Clients -> Seq(Pkt)]
  /\ fileExists \in BOOLEAN
  /\ recvL \in Nat /\ recvH \in Nat /\ allLow \in BOOLEAN
  /\ firstT \in Pkt \cup {NoPkt} /\ lastT \in Pkt \cup {NoPkt}
  /\ durL \in [first : Pkt \cup {NoPkt}, last : Pkt] \cup {NoPkt}
  /\ durH \in [first : Pkt \cup {NoPkt}, last : Pkt] \cup {NoPkt}
  /\ countedL \in Seq(Pkt) /\ countedH \in Seq(Pkt)
  /\ serverStarted \in BOOLEAN /\ serverStopped \in BOOLEAN

\* Each client's schedule (spec 4.4): packets 1..N low entropy, packet N+1
\* the transition packet, N+2..2N+1 high entropy, and nothing after 2N+1.
ClientSchedule ==
  \A c \in Clients :
    /\ Len(sentLog[c]) <= 2 * N + 1
    /\ \A k \in 1..Len(sentLog[c]) :
         /\ k <= N => sentLog[c][k].mode = "low"
         /\ k >= N + 2 => sentLog[c][k].mode = "high"

\* Every started client eventually sends its whole schedule.
ClientCompletes == \A c \in Clients : <>(Len(sentLog[c]) = 2 * N + 1)

\* Every routed client eventually sends its 2N+1 datagrams and its
\* HandleRead receives an echo of each, in send order: the client's first
\* Send waits behind the server's port binding, the server answers every
\* datagram it reads, and the client's socket is still open when the echo
\* arrives.
EchoesReturn ==
  \A c \in Routed : <>(Len(sentLog[c]) = 2 * N + 1 /\ echoLog[c] = sentLog[c])

\* The Timing Analyzer of spec.md: arrivals in the order HandleRead counts
\* them, the windows the two durations are computed from, and the report.
SchedulePkt == [src : Clients, seq : 1..2 * N + 1, mode : {"low", "high"},
                payload : {"zero", "bits", "oob"}]
Timer == INSTANCE PhaseTimer WITH Frames <- SchedulePkt, NoFrame <- NoPkt,
           arrivals <- countedL \o countedH, lowWin <- durL, highWin <- durH,
           reported <- serverStopped

\* The server implements the Timing Analyzer: whatever arrives, in whatever
\* order, m_duration_l is computed from arrivals 1 and N, m_duration_h from
\* arrivals N+1 and 2N, each exactly when its N-th frame arrives, and nothing
\* is counted after StopApplication.
TimerRefinement == Timer!Spec

\* The server's low phase, once closed, is exactly one client's packets
\* 1..N, so m_duration_l spans that client's low-entropy phase.
LowWindowExact ==
  allLow => /\ Len(countedL) = N
            /\ \E c \in Clients :
              \A k \in 1..N : countedL[k].src = c /\ countedL[k].seq = k

\* The server's high phase, once measured, is exactly one client's
\* high-entropy packets N+2..2N+1.
HighWindowExact ==
  durH # NoPkt => \E c \in Clients :
    /\ Len(sentLog[c]) = 2 * N + 1
    /\ SubSeq(countedH, 1, N) = SubSeq(sentLog[c], N + 2, 2 * N + 1)

\* When StopApplication prints the verdict both phases have been measured
\* (otherwise it compares against the initial 0).
ReportComplete == serverStopped => durL # NoPkt /\ durH # NoPkt

\* Send only copies slices inside the 6000-slice pool.
PoolIndexInBounds == \A c \in Clients : poolReads[c] \subseteq 0..PoolSlices - 1

\* Every high-entropy packet carries pool data read from randomfile.
HighPayloadFromPool ==
  \A c \in Clients : \A k \in 1..Len(sentLog[c]) :
    sentLog[c][k].mode = "high" => sentLog[c][k].payload = "bits"

\* On any run, a first one included, the high-entropy packets of a client
\* with a route to the server never carry the all-zero pool: the client
\* whose FillInPacketArray creates randomfile (and so reads nothing) is,
\* in the script's start order, one whose packets go nowhere.
MeasuredPayloadFromPool ==
  \A c \in Routed : \A k \in 1..Len(sentLog[c]) :
    sentLog[c][k].mode = "high" => sentLog[c][k].payload # "zero"

\* Every packet the server times came through the compressing link (spec
\* section 2 data flow and 4.4 rationale): otherwise the two durations say
\* nothing about the compression the scripts enable on that link.
ServerMeasuresLink ==
  \A k \in 1..Len(countedL \o countedH) : (countedL \o countedH)[k].src \in ViaLink
=============================================================================
