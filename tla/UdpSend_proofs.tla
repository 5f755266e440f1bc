--------------------------- MODULE UdpSend_proofs ---------------------------
(***************************************************************************)
(* Proofs about the send path, for every set of payload lengths and every  *)
(* size up to which the C library enlarges a block where it is.            *)
(***************************************************************************)
EXTENDS UdpSend, TLAPS

-----------------------------------------------------------------------------
(* The lengths of the layers.                                              *)

\* The values of a uint16_t, without their enumeration.
LEMMA U16Range == \A x : x \in U16 <=> x \in Nat /\ x <= MaxU16
<1>1. MaxU16 \in Nat
  BY DEF MaxU16
<1> QED
  BY <1>1 DEF U16

\* A conversion to uint16_t gives one of them, and keeps those.
LEMMA Conversion ==
  /\ \A x \in Int : u16(x) \in U16
  /\ \A x \in U16 : u16(x) = x /\ bswap_16(x) \in U16
<1>1. ASSUME NEW x \in Int PROVE u16(x) \in U16
  <2>1. u16(x) \in Nat /\ u16(x) <= 65535
    BY DEF u16
  <2> QED
    BY <2>1, U16Range DEF MaxU16
<1>2. ASSUME NEW x \in U16 PROVE u16(x) = x /\ bswap_16(x) \in U16
  <2>1. x \in Nat /\ x <= 65535
    BY U16Range DEF MaxU16
  <2>2. u16(x) = x
    BY <2>1 DEF u16
  <2>3. bswap_16(x) \in Nat /\ bswap_16(x) <= 65535
    BY <2>1 DEF bswap_16
  <2> QED
    BY <2>2, <2>3, U16Range DEF MaxU16
<1> QED
  BY <1>1, <1>2

\* Each layer's length is a uint16_t.
LEMMA LengthTypes ==
  ASSUME len \in Nat
  PROVE  /\ UdpLen \in U16 /\ IpLen \in U16 /\ ReallocSize \in U16
         /\ DataLen \in Nat /\ Accepted \in U16
<1>1. UdpLen \in U16
  <2>1. u16(len) \in Nat
    BY Conversion, U16Range
  <2> QED
    BY <2>1, Conversion DEF UdpLen, udp_hdr_size
<1>2. DataLen \in Nat
  BY DEF DataLen, udp_hdr_size
<1>3. IpLen \in U16
  <2>1. u16(DataLen) \in Nat
    BY <1>2, Conversion, U16Range
  <2> QED
    BY <2>1, Conversion DEF IpLen, ipv4_hdr_size
<1>4. ReallocSize \in U16
  BY <1>1, Conversion DEF ReallocSize
<1>5. Accepted \in U16
  <2>1. IpLen \in Nat
    BY <1>3, U16Range
  <2> QED
    BY <2>1, <1>3, Conversion DEF Accepted, eth_hdr_size
<1> QED
  BY <1>1, <1>2, <1>3, <1>4, <1>5

\* The lengths agree for what an IPv4 datagram can carry (udp.c:68, ip.c:185).
LEMMA LengthsFit ==
  ASSUME len \in Nat, len <= LongestPayload
  PROVE  UdpLen = udp_hdr_size + len /\ IpLen = ipv4_hdr_size + DataLen
<1>1. len \in U16 /\ DataLen \in U16 /\ ipv4_hdr_size + DataLen \in U16
  BY U16Range DEF LongestPayload, DataLen, udp_hdr_size, ipv4_hdr_size, MaxU16
<1>2. UdpLen = u16(udp_hdr_size + len)
  BY <1>1, Conversion, U16Range DEF UdpLen, udp_hdr_size
<1> QED
  BY <1>1, <1>2, Conversion DEF DataLen, IpLen

\* For a short message the size udp.c:94 asks for, with its bytes swapped, is
\* 256 times the right one.
LEMMA ShortFits ==
  ASSUME len \in Nat, len <= ShortMessage
  PROVE  ReallocSize = 256 * DataLen /\ DataLen \in Nat /\ DataLen >= 8
<1>1. len <= LongestPayload
  BY DEF ShortMessage, LongestPayload, udp_hdr_size, ipv4_hdr_size
<1>2. UdpLen = DataLen
  BY <1>1, LengthsFit DEF DataLen
<1>3. DataLen \in Nat /\ DataLen >= 8 /\ DataLen < 256
  BY DEF ShortMessage, DataLen, udp_hdr_size
<1>4. bswap_16(DataLen) = 256 * DataLen
  BY <1>3 DEF bswap_16
<1> QED
  BY <1>2, <1>3, <1>4 DEF ReallocSize

\* The lengths are those of the datagram being sent.
LEMMA LengthsStay ==
  ASSUME UNCHANGED arguments
  PROVE  /\ IpLen' = IpLen /\ ReallocSize' = ReallocSize
         /\ DataLen' = DataLen /\ Accepted' = Accepted
BY DEF arguments, UdpLen, IpLen, ReallocSize, DataLen, Accepted, u16

\* The values the layers pass as results, and the sizes they allocate.
LEMMA Results ==
  /\ 0 \in U16 /\ MaxU16 \in U16 /\ u16(-1) = MaxU16
  /\ udp_hdr_size \in Nat /\ ipv4_hdr_size \in Nat
  /\ \A n \in U16 : n \in Nat /\ eth_hdr_size + n \in Nat
<1>1. MaxU16 \in Nat /\ MaxU16 = -1 + 65536
  BY DEF MaxU16
<1>2. ASSUME NEW x \in Int PROVE u16(x + 65536) = u16(x)
  BY DEF u16
<1>3. 0 \in U16 /\ MaxU16 \in U16
  BY <1>1, U16Range
<1>4. u16(-1) = MaxU16
  BY <1>1, <1>2, <1>3, Conversion
<1> QED
  BY <1>3, <1>4, U16Range DEF udp_hdr_size, ipv4_hdr_size, eth_hdr_size

\* What link_tx returns for a frame the device took, and the frame itself.
LEMMA FrameTypes ==
  ASSUME len \in Nat, intact \in BOOLEAN
  PROVE  /\ u16(IpLen) = IpLen /\ u16(eth_hdr_size + IpLen) \in U16
         /\ Frame \in [bytes : U16, whole : BOOLEAN] /\ Frame # NoFrame
         /\ Frame.bytes = IpLen /\ Frame.whole = intact
<1>1. IpLen \in U16
  BY LengthTypes
<1>2. IpLen \in Nat /\ eth_hdr_size + IpLen \in Nat
  BY <1>1, Results
<1> QED
  BY <1>1, <1>2, Conversion DEF Frame, NoFrame

-----------------------------------------------------------------------------
(* The inductive invariant.                                                *)

\* Before the first call of udp_send nothing is live.
LEMMA InitUInv == Init => UInv
<1> SUFFICES ASSUME Init PROVE UInv
  OBVIOUS
<1>1. 0 \in U16
  BY Results
<1>2. TypeOK
  BY <1>1 DEF Init, TypeOK, Blocks, Freed
<1>3. HeapShape /\ ShortShape /\ SentShape
  BY <1>1 DEF Init, HeapShape, ShortShape, SentShape, Blocks, WithIpHdr,
              WithIpPacket, WithPacket
<1> QED
  BY <1>2, <1>3 DEF UInv

\* A call of udp_send, whatever the last one left.
LEMMA CallStep ==
  ASSUME UInv, NEW n \in PayloadLens, NEW l \in Links, Call(n, l)
  PROVE  UInv'
<1> USE DEF Call, Goto
<1>0. n \in Nat /\ 0 \in U16
  BY PayloadLensAssumption, Results
<1>1. TypeOK'
  BY <1>0 DEF UInv, TypeOK
<1>2. HeapShape'
  BY DEF UInv, HeapShape, WithIpHdr, WithIpPacket, WithPacket
<1>3. ShortShape' /\ SentShape'
  BY DEF ShortShape, SentShape, WithIpHdr, WithPacket
<1> QED
  BY <1>1, <1>2, <1>3 DEF UInv

\* The steps of udp_send and create_udp_hdr (udp.c:55-105).
LEMMA UdpStep ==
  ASSUME UInv, UdpLayer
  PROVE  UInv'
<1>1. len \in Nat /\ TypeOK /\ HeapShape /\ ShortShape /\ SentShape
  BY DEF UInv, TypeOK
<1> USE <1>1
<1>2. CASE CreateUdpHdr
  <2> USE <1>2 DEF CreateUdpHdr, Goto, arguments, Alloc
  <2>1. TypeOK'
    <3>1. udp_hdr_size \in Nat
      BY Results
    <3>2. heap' \in [Blocks -> Nat \cup {Freed}]
      BY <3>1 DEF TypeOK, Blocks
    <3> QED
      BY <3>2 DEF TypeOK
  <2>2. HeapShape'
    BY LengthsStay DEF TypeOK, HeapShape, Blocks, WithIpHdr, WithIpPacket,
                       WithPacket
  <2>3. ShortShape'
    BY DEF ShortShape, WithIpHdr
  <2>4. SentShape'
    BY LengthsStay DEF SentShape, WithPacket, WithIpHdr
  <2> QED
    BY <2>1, <2>2, <2>3, <2>4 DEF UInv
<1>3. CASE ReallocInPlace
  <2> USE <1>3 DEF ReallocInPlace, Goto, arguments, Alloc
  <2>1. TypeOK'
    <3>1. ReallocSize \in Nat
      BY LengthTypes, Results
    <3>2. heap' \in [Blocks -> Nat \cup {Freed}]
      BY <3>1 DEF TypeOK, Blocks
    <3> QED
      BY <3>2 DEF TypeOK
  <2>2. HeapShape'
    BY LengthsStay DEF TypeOK, HeapShape, Blocks, WithIpHdr, WithIpPacket,
                       WithPacket
  <2>3. ShortShape'
    BY DEF ShortShape, WithIpHdr
  <2>4. SentShape'
    BY LengthsStay DEF SentShape, WithPacket, WithIpHdr
  <2> QED
    BY <2>1, <2>2, <2>3, <2>4 DEF UInv
<1>4. CASE ReallocMoves
  <2> USE <1>4 DEF ReallocMoves, Goto, arguments
  <2>1. TypeOK'
    <3>1. ReallocSize \in Nat
      BY LengthTypes, Results
    <3>2. heap' \in [Blocks -> Nat \cup {Freed}]
      BY <3>1 DEF TypeOK, Blocks
    <3> QED
      BY <3>2 DEF TypeOK
  <2>2. HeapShape'
    BY LengthsStay DEF TypeOK, HeapShape, Blocks, WithIpHdr, WithIpPacket,
                       WithPacket
  <2>3. ShortShape'
    BY DEF ShortShape, WithIpHdr
  <2>4. SentShape'
    BY LengthsStay DEF SentShape, WithPacket, WithIpHdr
  <2> QED
    BY <2>1, <2>2, <2>3, <2>4 DEF UInv
<1>5. CASE ReallocFails
  <2> USE <1>5 DEF ReallocFails, Goto, arguments, FreeAll
  <2>1. TypeOK'
    BY DEF TypeOK, Blocks
  <2>2. HeapShape'
    BY LengthsStay DEF TypeOK, HeapShape, Blocks, WithIpHdr, WithIpPacket,
                       WithPacket
  <2>3. ShortShape'
    BY DEF ShortShape, WithIpHdr
  <2>4. SentShape'
    BY LengthsStay DEF SentShape, WithPacket, WithIpHdr
  <2> QED
    BY <2>1, <2>2, <2>3, <2>4 DEF UInv
<1>6. CASE ReallocZero
  <2> USE <1>6 DEF ReallocZero, Goto, arguments, FreeAll, GotoUnless
  <2>1. TypeOK'
    BY DEF TypeOK, Blocks
  <2>2. HeapShape'
    BY LengthsStay DEF TypeOK, HeapShape, Blocks, WithIpHdr, WithIpPacket,
                       WithPacket
  <2>3. ShortShape'
    <3>1. len <= ShortMessage => ReallocSize > 0
      BY ShortFits
    <3> QED
      BY <3>1, LengthTypes, Results DEF ShortShape, arguments
  <2>4. SentShape'
    <3>1. /\ pc = "realloc" /\ pc' \in {"idle", "dead"}
          /\ wire' = wire /\ ret' = ret /\ id_marked' = id_marked
      OBVIOUS
    <3> QED
      BY <3>1 DEF SentShape, WithPacket, WithIpHdr
  <2> QED
    BY <2>1, <2>2, <2>3, <2>4 DEF UInv
<1>7. CASE CopyPayload
  <2> USE <1>7 DEF CopyPayload, Goto, arguments, GotoUnless, InBlock
  <2>1. TypeOK'
    BY DEF TypeOK, Blocks
  <2>2. HeapShape'
    BY LengthsStay DEF TypeOK, HeapShape, Blocks, WithIpHdr, WithIpPacket,
                       WithPacket
  <2>3. ShortShape'
    <3>1. len <= ShortMessage => DataLen <= ReallocSize
      BY ShortFits
    <3>2. packet = "uhdr" => heap["uhdr"] = ReallocSize
      BY DEF HeapShape, WithPacket
    <3>3. len <= ShortMessage /\ packet = "uhdr" => bad' = bad /\ intact'
      BY <3>1, <3>2
    <3>4. len' = len /\ packet' = packet /\ wire' = wire
      OBVIOUS
    <3> QED
      BY <3>3, <3>4 DEF ShortShape
  <2>4. SentShape'
    <3>1. /\ pc = "copy" /\ pc' \in {"create_ipv4_hdr", "dead"}
          /\ wire' = wire /\ ret' = ret /\ id_marked' = id_marked
      OBVIOUS
    <3> QED
      BY <3>1 DEF SentShape, WithPacket, WithIpHdr
  <2> QED
    BY <2>1, <2>2, <2>3, <2>4 DEF UInv
<1>8. CASE FreePacket
  <2> USE <1>8 DEF FreePacket, Goto, arguments, FreeAll
  <2>1. TypeOK'
    BY DEF TypeOK, Blocks
  <2>2. HeapShape'
    BY LengthsStay DEF TypeOK, HeapShape, Blocks, WithIpHdr, WithIpPacket,
                       WithPacket
  <2>3. ShortShape'
    BY DEF ShortShape, WithIpHdr
  <2>4. SentShape'
    BY LengthsStay DEF SentShape, WithPacket, WithIpHdr
  <2> QED
    BY <2>1, <2>2, <2>3, <2>4 DEF UInv
<1> QED
  BY <1>2, <1>3, <1>4, <1>5, <1>6, <1>7, <1>8 DEF UdpLayer

\* The steps of ipv4_transmit_datagram and create_ipv4_hdr (ip.c:159-260).
LEMMA IpStep ==
  ASSUME UInv, IpLayer
  PROVE  UInv'
<1>1. len \in Nat /\ TypeOK /\ HeapShape /\ ShortShape /\ SentShape
  BY DEF UInv, TypeOK
<1> USE <1>1
<1>2. CASE CreateIpv4Hdr
  <2> USE <1>2 DEF CreateIpv4Hdr, Goto, arguments, Alloc
  <2>1. TypeOK'
    <3>1. ipv4_hdr_size \in Nat
      BY Results
    <3>2. heap' \in [Blocks -> Nat \cup {Freed}]
      BY <3>1 DEF TypeOK, Blocks
    <3> QED
      BY <3>2 DEF TypeOK
  <2>2. HeapShape'
    BY LengthsStay DEF TypeOK, HeapShape, Blocks, WithIpHdr, WithIpPacket,
                       WithPacket
  <2>3. ShortShape'
    BY DEF ShortShape, WithIpHdr
  <2>4. SentShape'
    BY LengthsStay DEF SentShape, WithPacket, WithIpHdr
  <2> QED
    BY <2>1, <2>2, <2>3, <2>4 DEF UInv
<1>3. CASE Ipv4HdrAllocFails
  <2> USE <1>3 DEF Ipv4HdrAllocFails, Goto, arguments
  <2>1. TypeOK'
    BY DEF TypeOK, Blocks
  <2>2. HeapShape'
    BY LengthsStay DEF TypeOK, HeapShape, Blocks, WithIpHdr, WithIpPacket,
                       WithPacket
  <2>3. ShortShape'
    BY DEF ShortShape, WithIpHdr
  <2>4. SentShape'
    BY LengthsStay DEF SentShape, WithPacket, WithIpHdr
  <2> QED
    BY <2>1, <2>2, <2>3, <2>4 DEF UInv
<1>4. CASE IpPacketAlloc
  <2> USE <1>4 DEF IpPacketAlloc, Goto, arguments, Alloc
  <2>1. TypeOK'
    <3>1. IpLen \in Nat
      BY LengthTypes, Results
    <3>2. heap' \in [Blocks -> Nat \cup {Freed}]
      BY <3>1 DEF TypeOK, Blocks
    <3> QED
      BY <3>2 DEF TypeOK
  <2>2. HeapShape'
    BY LengthsStay DEF TypeOK, HeapShape, Blocks, WithIpHdr, WithIpPacket,
                       WithPacket
  <2>3. ShortShape'
    BY DEF ShortShape, WithIpHdr
  <2>4. SentShape'
    BY LengthsStay DEF SentShape, WithPacket, WithIpHdr
  <2> QED
    BY <2>1, <2>2, <2>3, <2>4 DEF UInv
<1>5. CASE IpPacketAllocFails
  <2> USE <1>5 DEF IpPacketAllocFails, Goto, arguments, FreeAll
  <2>1. TypeOK'
    BY DEF TypeOK, Blocks
  <2>2. HeapShape'
    BY LengthsStay DEF TypeOK, HeapShape, Blocks, WithIpHdr, WithIpPacket,
                       WithPacket
  <2>3. ShortShape'
    BY DEF ShortShape, WithIpHdr
  <2>4. SentShape'
    BY LengthsStay DEF SentShape, WithPacket, WithIpHdr
  <2> QED
    BY <2>1, <2>2, <2>3, <2>4 DEF UInv
<1>6. CASE FillIpPacket
  <2> USE <1>6 DEF FillIpPacket, Goto, arguments, GotoUnless, InBlock
  <2>1. TypeOK'
    BY DEF TypeOK, Blocks
  <2>2. HeapShape'
    BY LengthsStay DEF TypeOK, HeapShape, Blocks, WithIpHdr, WithIpPacket,
                       WithPacket
  <2>3. ShortShape'
    <3>1. len <= ShortMessage =>
            DataLen <= ReallocSize /\ ipv4_hdr_size + DataLen <= IpLen
      <4>1. len <= ShortMessage => len <= LongestPayload
        BY DEF ShortMessage, LongestPayload, ipv4_hdr_size, udp_hdr_size
      <4> QED
        BY <4>1, ShortFits, LengthsFit DEF ipv4_hdr_size
    <3>2. heap[packet] = ReallocSize /\ heap["ip_packet"] = IpLen
      BY DEF HeapShape, WithPacket, WithIpPacket, WithIpHdr
    <3>3. len <= ShortMessage => bad' = bad /\ intact' = intact
      BY <3>1, <3>2 DEF TypeOK
    <3>4. /\ pc = "fill_packet" /\ len' = len /\ packet' = packet
          /\ wire' = wire
      OBVIOUS
    <3> QED
      BY <3>3, <3>4 DEF ShortShape, WithIpHdr
  <2>4. SentShape'
    <3>1. /\ pc = "fill_packet" /\ pc' \in {"link_tx", "dead"}
          /\ wire' = wire /\ ret' = ret /\ id_marked' = id_marked
      OBVIOUS
    <3> QED
      BY <3>1 DEF SentShape, WithPacket, WithIpHdr
  <2> QED
    BY <2>1, <2>2, <2>3, <2>4 DEF UInv
<1>7. CASE IpFree
  <2> USE <1>7 DEF IpFree, Goto, arguments, FreeAll
  <2>1. TypeOK'
    BY DEF TypeOK, Blocks
  <2>2. HeapShape'
    BY LengthsStay DEF TypeOK, HeapShape, Blocks, WithIpHdr, WithIpPacket,
                       WithPacket
  <2>3. ShortShape'
    BY DEF ShortShape, WithIpHdr
  <2>4. SentShape'
    BY LengthsStay DEF SentShape, WithPacket, WithIpHdr
  <2> QED
    BY <2>1, <2>2, <2>3, <2>4 DEF UInv
<1> QED
  BY <1>2, <1>3, <1>4, <1>5, <1>6, <1>7 DEF IpLayer

\* The steps of link_tx and what it calls (link.c:55-71, eth.c:73-89).
LEMMA LinkStep ==
  ASSUME UInv, LinkLayer
  PROVE  UInv'
<1>1. len \in Nat /\ TypeOK /\ HeapShape /\ ShortShape /\ SentShape
  BY DEF UInv, TypeOK
<1> USE <1>1
<1>2. CASE SlipTransmit
  <2> USE <1>2 DEF SlipTransmit, Goto, arguments
  <2>1. TypeOK'
    BY LengthTypes, FrameTypes DEF TypeOK
  <2>2. HeapShape'
    BY LengthsStay DEF TypeOK, HeapShape, Blocks, WithIpHdr, WithIpPacket,
                       WithPacket
  <2>3. ShortShape'
    <3>1. wire' = Frame /\ Frame.whole = intact
      BY FrameTypes DEF TypeOK
    <3> QED
      BY <3>1 DEF ShortShape, WithIpHdr
  <2>4. SentShape'
    <3>1. wire' = Frame /\ Frame # NoFrame /\ Frame.bytes = IpLen /\ sent' = Accepted
      BY FrameTypes DEF TypeOK, Accepted
    <3> QED
      BY <3>1, LengthsStay DEF SentShape, WithPacket, WithIpHdr
  <2> QED
    BY <2>1, <2>2, <2>3, <2>4 DEF UInv
<1>3. CASE NoLink
  <2> USE <1>3 DEF NoLink, Goto, arguments
  <2>1. TypeOK'
    BY Results DEF TypeOK
  <2>2. HeapShape'
    BY LengthsStay DEF TypeOK, HeapShape, Blocks, WithIpHdr, WithIpPacket,
                       WithPacket
  <2>3. ShortShape'
    BY DEF ShortShape, WithIpHdr
  <2>4. SentShape'
    BY LengthsStay DEF SentShape, WithPacket, WithIpHdr
  <2> QED
    BY <2>1, <2>2, <2>3, <2>4 DEF UInv
<1>4. CASE EthAlloc
  <2> USE <1>4 DEF EthAlloc, Goto, arguments, Alloc
  <2>1. TypeOK'
    <3>1. eth_hdr_size + IpLen \in Nat
      BY LengthTypes, Results
    <3>2. heap' \in [Blocks -> Nat \cup {Freed}]
      BY <3>1 DEF TypeOK, Blocks
    <3> QED
      BY <3>2 DEF TypeOK
  <2>2. HeapShape'
    BY LengthsStay DEF TypeOK, HeapShape, Blocks, WithIpHdr, WithIpPacket,
                       WithPacket
  <2>3. ShortShape'
    BY DEF ShortShape, WithIpHdr
  <2>4. SentShape'
    BY LengthsStay DEF SentShape, WithPacket, WithIpHdr
  <2> QED
    BY <2>1, <2>2, <2>3, <2>4 DEF UInv
<1>5. CASE EthAllocFails
  <2> USE <1>5 DEF EthAllocFails, Goto, arguments
  <2>1. TypeOK'
    BY Results DEF TypeOK
  <2>2. HeapShape'
    BY LengthsStay DEF TypeOK, HeapShape, Blocks, WithIpHdr, WithIpPacket,
                       WithPacket
  <2>3. ShortShape'
    BY DEF ShortShape, WithIpHdr
  <2>4. SentShape'
    BY LengthsStay, Results DEF SentShape, WithPacket, WithIpHdr
  <2> QED
    BY <2>1, <2>2, <2>3, <2>4 DEF UInv
<1>6. CASE Sendto
  <2> USE <1>6 DEF Sendto, Goto, arguments, FreeAll
  <2>1. TypeOK'
    <3>1. wire' \in [bytes : U16, whole : BOOLEAN] \cup {NoFrame} /\ sent' \in U16
      BY FrameTypes, Results DEF TypeOK
    <3> QED
      BY <3>1 DEF TypeOK, Blocks
  <2>2. HeapShape'
    BY LengthsStay DEF TypeOK, HeapShape, Blocks, WithIpHdr, WithIpPacket,
                       WithPacket
  <2>3. ShortShape'
    <3>1. \/ wire' = Frame /\ Frame.whole = intact
          \/ wire' = wire
      BY FrameTypes DEF TypeOK
    <3> QED
      BY <3>1 DEF ShortShape, WithIpHdr
  <2>4. SentShape'
    <3>1. \/ wire' = Frame /\ Frame # NoFrame /\ Frame.bytes = IpLen
             /\ sent' = u16(eth_hdr_size + IpLen)
          \/ wire' = wire /\ sent' = MaxU16
      BY FrameTypes, Results DEF TypeOK
    <3>2. link = "ETH"
      BY DEF SentShape
    <3> QED
      BY <3>1, <3>2, LengthsStay DEF SentShape, Accepted, WithPacket, WithIpHdr
  <2> QED
    BY <2>1, <2>2, <2>3, <2>4 DEF UInv
<1>7. CASE SlipFaults
  <2> USE <1>7 DEF SlipFaults, Goto, arguments
  <2>1. TypeOK'
    BY DEF TypeOK, Blocks
  <2>2. HeapShape'
    BY LengthsStay DEF TypeOK, HeapShape, Blocks, WithIpHdr, WithIpPacket,
                       WithPacket
  <2>3. ShortShape'
    BY DEF ShortShape, WithIpHdr
  <2>4. SentShape'
    BY LengthsStay DEF SentShape, WithPacket, WithIpHdr
  <2> QED
    BY <2>1, <2>2, <2>3, <2>4 DEF UInv
<1>8. CASE TransmitNothing
  <2> USE <1>8 DEF TransmitNothing, Goto, arguments, FreeAll
  <2>1. TypeOK'
    BY Results DEF TypeOK, Blocks
  <2>2. HeapShape'
    BY LengthsStay DEF TypeOK, HeapShape, Blocks, WithIpHdr, WithIpPacket,
                       WithPacket
  <2>3. ShortShape'
    BY DEF ShortShape, WithIpHdr
  <2>4. SentShape'
    BY LengthsStay DEF SentShape, WithPacket, WithIpHdr
  <2> QED
    BY <2>1, <2>2, <2>3, <2>4 DEF UInv
<1>9. CASE EthHeaderMissing
  <2> USE <1>9 DEF EthHeaderMissing, Goto, arguments, Alloc
  <2>1. TypeOK'
    <3>1. eth_hdr_size + IpLen \in Nat
      BY LengthTypes, Results
    <3>2. heap' \in [Blocks -> Nat \cup {Freed}]
      BY <3>1 DEF TypeOK, Blocks
    <3> QED
      BY <3>2 DEF TypeOK
  <2>2. HeapShape'
    BY LengthsStay DEF TypeOK, HeapShape, Blocks, WithIpHdr, WithIpPacket,
                       WithPacket
  <2>3. ShortShape'
    BY DEF ShortShape, WithIpHdr
  <2>4. SentShape'
    BY LengthsStay DEF SentShape, WithPacket, WithIpHdr
  <2> QED
    BY <2>1, <2>2, <2>3, <2>4 DEF UInv
<1> QED
  BY <1>2, <1>3, <1>4, <1>5, <1>6, <1>7, <1>8, <1>9 DEF LinkLayer

\* A step of the client that has nothing to do with the library.
LEMMA StutterStep ==
  ASSUME UInv, UNCHANGED vars
  PROVE  UInv'
<1>1. UNCHANGED arguments
  BY DEF vars, arguments
<1>2. /\ IpLen' = IpLen /\ ReallocSize' = ReallocSize
      /\ DataLen' = DataLen /\ Accepted' = Accepted
  BY <1>1, LengthsStay
<1> USE DEF vars
<1>3. TypeOK'
  BY DEF UInv, TypeOK
<1>4. HeapShape'
  BY <1>2 DEF UInv, HeapShape
<1>5. ShortShape' /\ SentShape'
  BY <1>2 DEF UInv, ShortShape, SentShape
<1> QED
  BY <1>3, <1>4, <1>5 DEF UInv

\* At every step of udp_send and the functions below it, the live blocks are
\* those the step has and have the sizes it expects, a short message is intact,
\* and the results kept on the way tell what was sent.
THEOREM Invariance == Spec => []UInv
<1>1. UInv /\ [Next]_vars => UInv'
  BY CallStep, UdpStep, IpStep, LinkStep, StutterStep DEF Next
<1> QED
  BY InitUInv, <1>1, PTL DEF Spec

-----------------------------------------------------------------------------
(* What follows from it.                                                   *)

\* Results stay in uint16_t or are -1, sizes are those malloc was given
\* (udp.c:94, ip.c:241, eth.c:77), for payloads of any length.
THEOREM TypeCorrect == Spec => []TypeOK
<1>1. UInv => TypeOK
  BY DEF UInv
<1> QED
  BY Invariance, <1>1, PTL

\* On each return of udp_send (udp.c:91-103), whatever allocation failed, no
\* block is left, and at most an ID that a failed transmit took.
THEOREM MemoryComesBack == Spec => []ResourcesReturned
<1>1. UInv => ResourcesReturned
  BY DEF UInv, HeapShape, SentShape, ResourcesReturned, Blocks, WithIpHdr,
         WithIpPacket
<1> QED
  BY Invariance, <1>1, PTL

\* A message that udp.c:94 allocates enough for is sent whole, with no access
\* outside a live block, whenever realloc leaves the block in place.
THEOREM ShortMessagesAreSentWhole == Spec => []ShortMessagesArrive
<1>1. UInv => ShortMessagesArrive
  BY DEF UInv, ShortShape, ShortMessagesArrive
<1> QED
  BY Invariance, <1>1, PTL

\* The bytes handed to the device are as many as both headers say (udp.c:68,
\* ip.c:185, ip.c:241), for every payload an IPv4 datagram can carry.
THEOREM LengthsAlwaysAgree == Spec => []LengthsAgree
<1>1. ASSUME UInv PROVE LengthsAgree
  <2>1. SUFFICES ASSUME wire # NoFrame, len <= LongestPayload
                 PROVE  /\ wire.bytes = ipv4_hdr_size + UdpLen
                        /\ UdpLen = udp_hdr_size + len
    BY DEF LengthsAgree
  <2>2. len \in Nat /\ wire.bytes = IpLen
    BY <1>1, <2>1 DEF UInv, TypeOK, SentShape
  <2> QED
    BY <2>1, <2>2, LengthsFit DEF DataLen
<1> QED
  BY Invariance, <1>1, PTL

\* What a frame that was taken returns is neither 0 nor an error code, unless
\* it has 65535 bytes or more (link.c:57, eth.c:74, ip.c:254).
LEMMA AcceptedIsNoError ==
  ASSUME len \in Nat, len <= Distinguishable
  PROVE  Accepted \notin {0, Failure, MaxU16}
<1> USE DEF ipv4_hdr_size, udp_hdr_size, eth_hdr_size
<1>1. IpLen = 28 + len /\ 42 + len < MaxU16
  BY LengthsFit DEF Distinguishable, LongestPayload, DataLen, MaxU16
<1>2. 42 + len \in U16 /\ MaxU16 \in Nat
  BY <1>1, U16Range DEF MaxU16
<1>3. Accepted \in {28 + len, 42 + len}
  BY <1>1, <1>2, Conversion DEF Accepted
<1> QED
  BY <1>1, <1>2, <1>3 DEF Failure

\* A caller can tell from the result of udp_send whether the device took the
\* datagram: 0, -1 and 65535 are exactly the results of one it did not take.
THEOREM ResultTellsSent == Spec => []ReturnTellsSent
<1>1. ASSUME UInv PROVE ReturnTellsSent
  <2>1. SUFFICES ASSUME pc = "idle", len <= Distinguishable
                 PROVE  wire # NoFrame <=> ret \notin {0, Failure, MaxU16}
    BY DEF ReturnTellsSent
  <2>2. IF wire = NoFrame THEN ret \in {0, Failure, MaxU16} ELSE ret = Accepted
    BY <1>1, <2>1 DEF UInv, SentShape
  <2>3. Accepted \notin {0, Failure, MaxU16}
    BY <1>1, <2>1, AcceptedIsNoError DEF UInv, TypeOK
  <2> QED
    BY <2>2, <2>3
<1> QED
  BY Invariance, <1>1, PTL
=============================================================================
