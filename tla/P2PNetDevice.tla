---------------------------- MODULE P2PNetDevice ----------------------------
(***************************************************************************)
(* One direction of a PointToPointNetDevice pair with the compression      *)
(* extension (src/model/point-to-point-net-device.cc): the sending         *)
(* device's Send / TransmitStart / TransmitComplete READY-BUSY machine and *)
(* its DropTail transmit queue, the channel carrying frames to the peer,   *)
(* and the peer device's Receive, which strips the PPP header, undoes the  *)
(* compression and hands the packet to its upper layer.                    *)
(*                                                                         *)
(* Payload bytes are abstracted to 0 (a zero byte) and 1 (any non-zero     *)
(* byte): the codec's behaviour depends only on where the first zero is.   *)
(***************************************************************************)
EXTENDS Integers, Sequences, SequencesExt, TLC

CONSTANTS
  Packets,          \* IP packets the node may hand to Send: [proto, body]
  QueueCap,         \* MaxSize of the device's DropTailQueue, in packets
  MaxSends,         \* bound on the number of Send calls
  CompressTx,       \* "Compression" attribute of the sending device
  CompressRx,       \* "Compression" attribute of the receiving device
  ConfigProto,      \* PPP number read from config.json protocolsToCompress
  ChannelMayReject, \* the channel may refuse TransmitStart
  RxErrorModel,     \* a ReceiveErrorModel is attached to the receiver
  NoPacket          \* model value: m_currentPkt == 0

\* Protocol numbers of the two namespaces (PppToEther / EtherToPpp).
IPv4 == \h0800
IPv6 == \h86DD
PppIPv4 == \h0021
PppIPv6 == \h0057
LZS == \h4021

\* PppHeader::GetSerializedSize: the PPP header is 2 bytes.
PppHeaderSize == 2
\* Send allocates adjustedPacketSize = packetSize + 8.
AdjustSlack == 8

\* Frame bodies. "plain": the packet's bytes. "deflate": a zlib stream of
\* the input the compressor consumed (data, then extra bytes read beyond
\* the packet) in a buffer of size bytes, complete or cut off where the
\* buffer ends. "uninit": size bytes of uninitialised heap.
PlainBody(bytes) ==
  [enc |-> "plain", data |-> bytes, extra |-> 0, size |-> Len(bytes), complete |-> TRUE]
DeflateBody(in, extra, size, complete) ==
  [enc |-> "deflate", data |-> in, extra |-> extra, size |-> size, complete |-> complete]
UninitBody(size) ==
  [enc |-> "uninit", data |-> <<>>, extra |-> 0, size |-> size, complete |-> TRUE]

PppEther == (PppIPv4 :> IPv4) @@ (LZS :> LZS) @@ (PppIPv6 :> IPv6)
EtherPpp == (IPv4 :> PppIPv4) @@ (LZS :> LZS) @@ (IPv6 :> PppIPv6)

\* An unmapped number trips NS_ASSERT_MSG; in an optimised build the
\* assertion is compiled out and the function returns 0.
PppToEther(proto) == IF proto \in DOMAIN PppEther THEN PppEther[proto] ELSE 0
EtherToPpp(proto) == IF proto \in DOMAIN EtherPpp THEN EtherPpp[proto] ELSE 0

\* DoInitialize: m_protocol = PppToEther(hex value of protocolsToCompress).
MProtocol == PppToEther(ConfigProto)

(***************************************************************************)
(* Compress(newBuffer, outputData, adjustedPacketSize): deflate is given   *)
(* avail_in = strlen(newBuffer) + 1 bytes.  newBuffer holds the packet     *)
(* followed by AdjustSlack uninitialised bytes, so when the packet has no  *)
(* zero byte strlen runs into them: the zero it stops at is any of them,   *)
(* or none, and strlen reads past the allocation (OverRead).               *)
(***************************************************************************)
OverRead == AdjustSlack + 1

CompressInputs(bytes) ==
  LET z == SelectInSeq(bytes, LAMBDA b : b = 0)
  IN IF z # 0 THEN {<<SubSeq(bytes, 1, z), 0>>}
     ELSE {<<bytes, e>> : e \in 1..OverRead}

(***************************************************************************)
(* deflate (Z_BEST_COMPRESSION, Z_FINISH) into avail_out = size bytes.     *)
(* The stream is a 2-byte zlib header, one final block and the 4-byte      *)
(* Adler-32.  For input of L bytes the block is at worst the cheaper of a  *)
(* fixed-Huffman block (3 header bits, every byte a literal, 7 bits for    *)
(* end of block) and a stored block (5 + L bytes; chosen when not longer   *)
(* than the fixed one by 4 bytes).  A fixed literal costs 8 bits for       *)
(* bytes 0..143 and 9 for 144..255; the slack bytes strlen ran into are    *)
(* unknown and cost 9.  When that worst case does not fit, whether the     *)
(* stream fits depends on the bytes: deflate then stops at the end of the  *)
(* buffer and returns Z_OK, which Compress ignores.                        *)
(***************************************************************************)
LiteralBits(b) == IF b < 144 THEN 8 ELSE 9
DeflateWorstLen(bytes, extra) ==
  LET L == Len(bytes) + extra
      bits == 3 + FoldLeft(LAMBDA acc, b : acc + LiteralBits(b), 0, bytes)
                + 9 * extra + 7
      fixed == (bits + 7) \div 8
  IN 6 + (IF L + 4 <= fixed THEN L + 5 ELSE fixed)
StreamFits(bytes, extra, size) ==
  IF DeflateWorstLen(bytes, extra) <= size THEN {TRUE} ELSE {TRUE, FALSE}

\* Compress(newBuffer, outputData, adjustedPacketSize): the bodies it may
\* leave in outputData.
Compress(bytes, size) ==
  UNION {{DeflateBody(in[1], in[2], size, ok) :
            ok \in StreamFits(in[1], in[2], size)} : in \in CompressInputs(bytes)}

\* AddHeader(p, protocolNumber): a PPP header carrying
\* EtherToPpp(protocolNumber) in front of the body; the frame also names
\* the packet p it was built from.
AddHeader(body, protocolNumber, p) ==
  [ppp |-> EtherToPpp(protocolNumber), body |-> body, orig |-> p]

\* ProcessHeader(p, param): remove the PPP header, param = PppToEther of
\* its protocol.
ProcessHeader(f) == [proto |-> PppToEther(f.ppp), body |-> f.body]

\* The frames Send may build from packet p (compressed or plain branch);
\* the compressed branch calls AddHeader(newPacket, 0x4021).
SendFrames(p) ==
  IF CompressTx /\ p.proto = MProtocol
  THEN {AddHeader(b, LZS, p) : b \in Compress(p.body.data, p.body.size + AdjustSlack)}
  ELSE {AddHeader(p.body, p.proto, p)}

\* What the receiving device hands to m_rxCallback for frame f.  For an LZS
\* frame it copies packetSize bytes (PPP header included) into buffer,
\* Decompress returns its own freshly allocated array c, and Create<Packet>
\* wraps packetSize bytes of it.  AddHeader(packet, 0x0021) passes the PPP
\* number through EtherToPpp, which has no entry for it, so the header
\* carries 0 and ProcessHeader hands the packet up as protocol 0.
RxPacket(f) ==
  IF CompressRx /\ f.ppp = LZS
  THEN ProcessHeader(AddHeader(UninitBody(f.body.size + PppHeaderSize), PppIPv4, f.orig))
  ELSE ProcessHeader(f)

VARIABLES
  txState,      \* m_txMachineState
  currentPkt,   \* m_currentPkt
  queue,        \* m_queue: frames waiting for the wire
  linkUp,       \* m_linkUp
  wire,         \* frames the channel is carrying to the peer, oldest first
  delivered,    \* packets the peer handed to its m_rxCallback
  sends,        \* Send calls so far
  macTxDrops,   \* m_macTxDropTrace hits
  phyTxDrops,   \* m_phyTxDropTrace hits
  phyRxDrops,   \* peer's m_phyRxDropTrace hits
  handedUp      \* (ghost) the packets whose frames the peer handed up

vars == <<txState, currentPkt, queue, linkUp, wire, delivered,
          sends, macTxDrops, phyTxDrops, phyRxDrops, handedUp>>

Bodies == [enc : {"plain", "deflate", "uninit"}, data : Seq({0, 1}),
           extra : 0..OverRead, size : Nat, complete : BOOLEAN]
Frames == [ppp : {PppIPv4, PppIPv6, LZS}, body : Bodies, orig : Packets]

Init ==
  /\ txState = "READY"
  /\ currentPkt = NoPacket
  /\ queue = <<>>
  /\ linkUp = FALSE
  /\ wire = <<>>
  /\ delivered = <<>>
  /\ sends = 0
  /\ macTxDrops = 0
  /\ phyTxDrops = 0
  /\ phyRxDrops = 0
  /\ handedUp = <<>>

\* Mutant: the capacity test admits one packet too many.
QueueHasRoomOffByOne(q) == Len(q) <= QueueCap

\* Send's `if (m_queue->Enqueue (...))`: the DropTail queue accepts the
\* frame while it holds fewer than MaxSize packets.
QueueHasRoom(q) == Len(q) < QueueCap

(***************************************************************************)
(* TransmitStart(p): BUSY, remember p, schedule TransmitComplete (enabled  *)
(* by txState = "BUSY"), and hand p to the channel, which may refuse it.   *)
(***************************************************************************)
TransmitStart(f) ==
  /\ txState' = "BUSY"
  /\ currentPkt' = f
  /\ \/ /\ wire' = Append(wire, f)
        /\ UNCHANGED phyTxDrops
     \/ /\ ChannelMayReject
        /\ phyTxDrops' = phyTxDrops + 1
        /\ UNCHANGED wire

\* Mutant: the compressed branch drops `packet = m_queue->Dequeue ()`, whose
\* result it never uses, and so leaves newPacket queued behind itself.
EnqueueAndStartNoDequeue(f, compressed) ==
  LET q == Append(queue, f) IN
  IF txState = "READY"
  THEN /\ queue' = IF compressed THEN q ELSE Tail(q)
       /\ TransmitStart(IF compressed THEN f ELSE Head(q))
  ELSE /\ queue' = q
       /\ UNCHANGED <<txState, currentPkt, wire, phyTxDrops>>

\* m_queue->Enqueue succeeded: if the device is READY, Dequeue the head and
\* TransmitStart it, or newPacket in the compressed branch.
EnqueueAndStart(f, compressed) ==
  LET q == Append(queue, f) IN
  IF txState = "READY"
  THEN /\ queue' = Tail(q)
       /\ TransmitStart(IF compressed THEN f ELSE Head(q))
  ELSE /\ queue' = q
       /\ UNCHANGED <<txState, currentPkt, wire, phyTxDrops>>

\* Mutant: Send enqueues but never starts a transmission from READY.
SendEnqueueOnly(p) ==
  /\ sends < MaxSends
  /\ sends' = sends + 1
  /\ IF ~linkUp \/ ~QueueHasRoom(queue)
     THEN /\ macTxDrops' = macTxDrops + 1
          /\ UNCHANGED queue
     ELSE /\ \E f \in SendFrames(p) : queue' = Append(queue, f)
          /\ UNCHANGED macTxDrops
  /\ UNCHANGED <<txState, currentPkt, wire, phyTxDrops, linkUp, delivered, phyRxDrops,
                 handedUp>>

(***************************************************************************)
(* Send(packet, dest, protocolNumber).  Link down: drop.  Otherwise build  *)
(* the frame, enqueue it (full queue: drop) and, if READY, dequeue the     *)
(* head and start transmitting.  The compressed branch dequeues into       *)
(* `packet` but transmits newPacket; the plain branches transmit what they *)
(* dequeued.                                                               *)
(***************************************************************************)
Send(p) ==
  /\ sends < MaxSends
  /\ sends' = sends + 1
  /\ IF ~linkUp \/ ~QueueHasRoom(queue)
     THEN /\ macTxDrops' = macTxDrops + 1
          /\ UNCHANGED <<txState, currentPkt, queue, wire, phyTxDrops>>
     ELSE /\ \E f \in SendFrames(p) :
               EnqueueAndStart(f, CompressTx /\ p.proto = MProtocol)
          /\ UNCHANGED macTxDrops
  /\ UNCHANGED <<linkUp, delivered, phyRxDrops, handedUp>>

\* Mutant: the next frame is transmitted but never dequeued.
TransmitCompleteNoDequeue ==
  /\ txState = "BUSY"
  /\ IF queue = <<>>
     THEN /\ txState' = "READY"
          /\ currentPkt' = NoPacket
          /\ UNCHANGED <<wire, phyTxDrops>>
     ELSE TransmitStart(Head(queue))
  /\ UNCHANGED <<queue, linkUp, delivered, sends, macTxDrops, phyRxDrops, handedUp>>

\* Mutant: the completion event only ever runs when no frame waits, so a
\* device with a backlog stays BUSY.
TransmitCompleteIdleOnly ==
  /\ txState = "BUSY"
  /\ queue = <<>>
  /\ txState' = "READY"
  /\ currentPkt' = NoPacket
  /\ UNCHANGED <<queue, wire, phyTxDrops, linkUp, delivered, sends,
                 macTxDrops, phyRxDrops, handedUp>>

(***************************************************************************)
(* TransmitComplete: READY, forget m_currentPkt, and if the queue holds a  *)
(* frame dequeue it and TransmitStart it again.                            *)
(***************************************************************************)
TransmitComplete ==
  /\ txState = "BUSY"
  /\ IF queue = <<>>
     THEN /\ txState' = "READY"
          /\ currentPkt' = NoPacket
          /\ UNCHANGED <<queue, wire, phyTxDrops>>
     ELSE /\ queue' = Tail(queue)
          /\ TransmitStart(Head(queue))
  /\ UNCHANGED <<linkUp, delivered, sends, macTxDrops, phyRxDrops, handedUp>>

\* Attach(ch) -> NotifyLinkUp.
Attach ==
  /\ ~linkUp
  /\ linkUp' = TRUE
  /\ UNCHANGED <<txState, currentPkt, queue, wire, delivered,
                 sends, macTxDrops, phyTxDrops, phyRxDrops, handedUp>>

(***************************************************************************)
(* The channel delivers the oldest frame; the peer's Receive either drops  *)
(* it as corrupt (error model) or hands RxPacket(f) up.                    *)
(***************************************************************************)
Receive ==
  /\ wire # <<>>
  /\ wire' = Tail(wire)
  /\ \/ /\ RxErrorModel
        /\ phyRxDrops' = phyRxDrops + 1
        /\ UNCHANGED <<delivered, handedUp>>
     \/ /\ delivered' = Append(delivered, RxPacket(Head(wire)))
        /\ handedUp' = Append(handedUp, Head(wire).orig)
        /\ UNCHANGED phyRxDrops
  /\ UNCHANGED <<txState, currentPkt, queue, linkUp, sends,
                 macTxDrops, phyTxDrops>>

Next ==
  \/ \E p \in Packets : Send(p)
  \/ TransmitComplete
  \/ Attach
  \/ Receive

Spec == Init /\ [][Next]_vars

\* Every scheduled simulator event runs: TransmitComplete and the channel's
\* delivery to the peer are scheduled events.
FairSpec == Spec /\ WF_vars(TransmitComplete) /\ WF_vars(Receive)

-----------------------------------------------------------------------------
(* Properties *)

\* Every variable holds a value of its type; the queue never exceeds its
\* MaxSize (DropTailQueue::Enqueue refuses the packet instead).
TypeOK ==
  /\ txState \in {"READY", "BUSY"}
  /\ currentPkt \in Frames \cup {NoPacket}
  /\ queue \in Seq(Frames) /\ Len(queue) <= QueueCap
  /\ linkUp \in BOOLEAN
  /\ wire \in Seq(Frames)
  /\ delivered \in Seq([proto : Nat, body : Bodies])
  /\ sends \in 0..MaxSends
  /\ {macTxDrops, phyTxDrops, phyRxDrops} \subseteq 0..MaxSends
  /\ handedUp \in Seq(Packets)

\* The device never sits READY with frames in its queue: every Send that
\* finds it READY starts transmitting, and every TransmitComplete restarts
\* from the queue.  Send's compressed branch relies on this when it
\* transmits newPacket instead of the frame it dequeued.
WorkConserving == txState = "READY" => queue = <<>> /\ currentPkt = NoPacket

\* The link refines FifoLink: what the peer hands up is, in order, the
\* packets Send accepted, unchanged, at most once each, some possibly lost.
Orig(s) == [i \in 1..Len(s) |-> s[i].orig]
Link == INSTANCE FifoLink WITH pending <- Orig(wire) \o Orig(queue)
LinkRefinement == Link!Spec

\* Whatever the codec does to the bytes, the link hands packets up in the
\* order Send accepted them, each at most once.  Send's compressed branch
\* dequeues into `packet` and transmits newPacket; this is the order
\* guarantee that lets it (the bytes are LinkRefinement's concern, which
\* compression breaks).
Order == INSTANCE FifoLink WITH pending <- Orig(wire) \o Orig(queue),
                                delivered <- handedUp
OrderRefinement == Order!Spec

\* Every packet Send accepted is eventually handed up or dropped by the
\* channel or the receiver's error model.
Accepted == sends - macTxDrops
Resolved == Len(delivered) + phyTxDrops + phyRxDrops
AllResolved == \A k \in 1..MaxSends : (Accepted >= k) ~> (Resolved >= k)

\* A compressed frame carries a complete deflate stream of exactly the
\* packet's bytes, so that decoding it can give the packet back (spec 3:
\* decode(encode(p)) = p even when the encoding is larger than p; spec
\* 4.1: explicit byte counts, never string termination).  Compress takes
\* its input length from strlen and its output room from Send's
\* packetSize + 8 allocation.
FrameEncodesPacket ==
  \A f \in ToSet(wire) \cup ToSet(queue) :
    f.ppp = LZS => /\ f.body.data = f.orig.body.data /\ f.body.extra = 0
                   /\ f.body.complete

\* With compression enabled, every frame of the configured target protocol
\* leaves the device compressed (spec 4.3 send; an identifier outside the
\* marker table is a fatal configuration error, spec 7).  DoInitialize
\* passes protocolsToCompress through PppToEther, which maps anything but
\* a PPP number to 0 in an optimised build.
CompressesTarget ==
  CompressTx => \A f \in ToSet(wire) \cup ToSet(queue) :
                  f.orig.proto = ConfigProto => f.ppp = LZS
=============================================================================
