-------------------------- MODULE MC_P2PNetDevice --------------------------
(* Model-checking instance of P2PNetDevice: small packets whose bytes put  *)
(* the first zero at the end, at the start, or nowhere.                    *)
EXTENDS P2PNetDevice

\* An IPv4 packet whose only zero byte is its last (a C string).
PktV4Str == [proto |-> IPv4, body |-> PlainBody(<<1, 0>>)]
\* An IPv4 packet with no zero byte.
PktV4Dense == [proto |-> IPv4, body |-> PlainBody(<<1, 1>>)]
\* An IPv4 packet of seven bytes whose only zero is its last: deflate reads
\* exactly the packet, and its worst-case stream just fits packetSize + 8.
PktV4Tail == [proto |-> IPv4, body |-> PlainBody(<<1, 1, 1, 1, 1, 1, 0>>)]
\* An IPv6 packet starting with a zero byte.
PktV6 == [proto |-> IPv6, body |-> PlainBody(<<0, 1>>)]

MCPacketsMixed == {PktV4Str, PktV6}
MCPacketsV4 == {PktV4Str, PktV4Dense, PktV4Tail}
MCPacketsTail == {PktV4Tail}
MCPacketsAll == {PktV4Str, PktV4Dense, PktV6}
=============================================================================
