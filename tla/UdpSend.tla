------------------------------ MODULE UdpSend ------------------------------
(***************************************************************************)
(* The send path: udp_send of src/src/udp.c, ipv4_transmit_datagram and    *)
(* create_ipv4_hdr of ip.c, link_tx of link.c, eth_transmit of eth.c and   *)
(* transmit of platform/linux/socket.c, for one datagram after another.    *)
(*                                                                         *)
(* The model keeps the blocks each function takes from the heap and their  *)
(* sizes, every allocation that may fail, the lengths with the width C     *)
(* gives them, and whether the payload is where the next layer reads it;   *)
(* addresses, ports and the bytes themselves are left out. A step may be   *)
(* that of either platform, Linux or LF-OS.                                *)
(*                                                                         *)
(* An access outside a live block is recorded in "bad". It is undefined    *)
(* behaviour: the program dies, or goes on, with the bytes it wrote there  *)
(* still in place or not.                                                  *)
(***************************************************************************)
EXTENDS Integers

CONSTANTS
  PayloadLens,  \* the len arguments clients pass to udp_send
  Usable        \* what malloc can give a block of 8 bytes without moving it, 24

ASSUME PayloadLensAssumption == PayloadLens \subseteq Nat
ASSUME UsableAssumption == Usable \in Nat /\ Usable >= 8

VARIABLES
  pc,        \* the next step of the call; "idle": the client runs; "dead"
  len,       \* argument of udp_send
  link,      \* sock->link_options->type: "ETH", "SLIP" or "other"
  heap,      \* heap[b]: size of the block if it is live, else Freed
  packet,    \* udp_send's pointer: the block "uhdr", or "moved" by realloc
  intact,    \* the payload is where the layer below reads it
  id_marked, \* the bit of this datagram's IPv4 ID is set
  sent,      \* what link_tx returned, converted to uint16_t
  wire,      \* the packet handed to the device, or NoFrame
  ret,       \* what the last udp_send returned
  bad        \* history: the accesses of this call outside a live block

vars == <<pc, len, link, heap, packet, intact, id_marked, sent, wire, ret, bad>>
arguments == <<len, link>>

Links == {"ETH", "SLIP", "other"}
Blocks == {"uhdr", "moved", "ip_hdr", "ip_packet", "frame"}
Freed == -1
NoFrame == [bytes |-> -1, whole |-> FALSE]
Failure == -1      \* (size_t)-1


\* Mutant: a size_t where the code has a uint16_t.
u64(x) == x

MaxU16 == 65535
U16 == 0 .. MaxU16
u16(x) == x % 65536
bswap_16(x) == (x % 256) * 256 + (x \div 256)

udp_hdr_size == 8
ipv4_hdr_size == 20
eth_hdr_size == 14

UdpLen == u16(u16(len) + udp_hdr_size)              \* udp.c:68, host order
DataLen == udp_hdr_size + len                       \* udp.c:101, a size_t

\* Mutant: the length of the payload alone is passed to create_ipv4_hdr.
IpLenOfPayload == u16(ipv4_hdr_size + u16(len))

IpLen == u16(ipv4_hdr_size + u16(DataLen))          \* ip.c:185, host order

\* Mutant: the header is forgotten.
ReallocSizeOfPayload == u16(len)

ReallocSize == bswap_16(UdpLen)                     \* udp.c:94, as it is stored

-----------------------------------------------------------------------------
Goto(at) == pc' = at
Alloc(b, n) == heap' = [heap EXCEPT ![b] = n]
FreeAll(bs) == heap' = [b \in Blocks |-> IF b \in bs THEN Freed ELSE heap[b]]

\* The first n bytes of b are in a live block.
InBlock(b, n) == n <= heap[b]

\* Goes to "at" after accesses of which those in "wrong" are undefined.
GotoUnless(wrong, at) ==
  /\ bad' = bad \cup wrong
  /\ IF wrong = {} THEN pc' = at ELSE pc' \in {at, "dead"}

Init ==
  /\ pc = "idle" /\ len = 0 /\ link \in Links
  /\ heap = [b \in Blocks |-> Freed] /\ packet = "uhdr" /\ intact = FALSE
  /\ id_marked = FALSE /\ sent = 0 /\ wire = NoFrame /\ ret = 0 /\ bad = {}

\* udp_send is called, for a socket of any link type.
Call(n, l) ==
  /\ pc = "idle"
  /\ len' = n /\ link' = l
  /\ packet' = "uhdr" /\ intact' = FALSE /\ id_marked' = FALSE
  /\ sent' = 0 /\ wire' = NoFrame /\ ret' = 0 /\ bad' = {}
  /\ Goto("create_udp_hdr")
  /\ UNCHANGED heap

\* create_udp_hdr; without memory the assertion stops the program.
CreateUdpHdr ==
  /\ pc = "create_udp_hdr"
  /\ \/ Alloc("uhdr", udp_hdr_size) /\ Goto("realloc")
     \/ Goto("dead") /\ UNCHANGED heap
  /\ UNCHANGED <<arguments, packet, intact, id_marked, sent, wire, ret, bad>>

\* realloc(uhdr, uhdr->len) enlarges, or truncates, the block where it is.
ReallocInPlace ==
  /\ pc = "realloc" /\ ReallocSize > 0
  /\ Alloc("uhdr", ReallocSize)
  /\ Goto("copy")
  /\ UNCHANGED <<arguments, packet, intact, id_marked, sent, wire, ret, bad>>

\* realloc moves the 8 bytes of the header to another block.
ReallocMoves ==
  /\ pc = "realloc" /\ ReallocSize > Usable
  /\ heap' = [heap EXCEPT !["uhdr"] = Freed, !["moved"] = ReallocSize]
  /\ packet' = "moved"
  /\ Goto("copy")
  /\ UNCHANGED <<arguments, intact, id_marked, sent, wire, ret, bad>>

\* realloc fails: free(uhdr), return 0.
ReallocFails ==
  /\ pc = "realloc" /\ ReallocSize > Usable
  /\ FreeAll({"uhdr"})
  /\ Goto("idle")
  /\ UNCHANGED <<arguments, packet, intact, id_marked, sent, wire, ret, bad>>

\* realloc(uhdr, 0) frees the block and returns NULL; free(uhdr) follows.
ReallocZero ==
  /\ pc = "realloc" /\ ReallocSize = 0
  /\ FreeAll({"uhdr"})
  /\ GotoUnless({"free_uhdr"}, "idle")
  /\ UNCHANGED <<arguments, packet, intact, id_marked, sent, wire, ret>>

\* memcpy of the payload behind uhdr, which realloc may have moved.
CopyPayload ==
  /\ pc = "copy"
  /\ LET wrong == IF len = 0 \/ InBlock("uhdr", DataLen) THEN {} ELSE {"write_uhdr"} IN
       /\ GotoUnless(wrong, "create_ipv4_hdr")
       /\ IF wrong = {} THEN intact' = TRUE
          ELSE IF packet = "moved" THEN intact' = FALSE
          ELSE intact' \in BOOLEAN
  /\ UNCHANGED <<arguments, heap, packet, id_marked, sent, wire, ret>>

\* create_ipv4_hdr, with its allocate_ipv4_id.
CreateIpv4Hdr ==
  /\ pc = "create_ipv4_hdr"
  /\ Alloc("ip_hdr", ipv4_hdr_size)
  /\ id_marked' = TRUE
  /\ Goto("ip_packet")
  /\ UNCHANGED <<arguments, packet, intact, sent, wire, ret, bad>>

\* create_ipv4_hdr returns NULL, ipv4_transmit_datagram -1.
Ipv4HdrAllocFails ==
  /\ pc = "create_ipv4_hdr"
  /\ ret' = Failure
  /\ Goto("free_packet")
  /\ UNCHANGED <<arguments, heap, packet, intact, id_marked, sent, wire, bad>>

\* calloc of the packet, whose size is the header's 16-bit total length.
IpPacketAlloc ==
  /\ pc = "ip_packet"
  /\ Alloc("ip_packet", IpLen)
  /\ Goto("fill_packet")
  /\ UNCHANGED <<arguments, packet, intact, id_marked, sent, wire, ret, bad>>

\* Mutant: the error path returns at once.
IpPacketAllocFailsLeaks ==
  /\ pc = "ip_packet"
  /\ ret' = Failure
  /\ Goto("free_packet")
  /\ UNCHANGED <<arguments, heap, packet, intact, id_marked, sent, wire, bad>>

\* It fails: free(ip_hdr), return -1.
IpPacketAllocFails ==
  /\ pc = "ip_packet"
  /\ FreeAll({"ip_hdr"})
  /\ ret' = Failure
  /\ Goto("free_packet")
  /\ UNCHANGED <<arguments, packet, intact, id_marked, sent, wire, bad>>

\* memcpy of the header, then of data_len bytes from udp_send's packet.
FillIpPacket ==
  /\ pc = "fill_packet"
  /\ LET fits == InBlock("ip_packet", ipv4_hdr_size + DataLen)
         wrong == (IF fits THEN {} ELSE {"write_ip_packet"})
                    \cup (IF InBlock(packet, DataLen) THEN {} ELSE {"read_packet"})
     IN /\ GotoUnless(wrong, "link_tx")
        /\ intact' = (intact /\ fits)
  /\ UNCHANGED <<arguments, heap, packet, id_marked, sent, wire, ret>>

Frame == [bytes |-> IpLen, whole |-> intact]

\* link_tx to slip_transmit, which always returns the length.
SlipTransmit ==
  /\ pc = "link_tx" /\ link = "SLIP"
  /\ wire' = Frame
  /\ sent' = u16(IpLen)
  /\ Goto("ip_free")
  /\ UNCHANGED <<arguments, heap, packet, intact, id_marked, ret, bad>>

\* On Linux the first inb of slip_transmit is a fault, unless the client has
\* asked for the ports: only the raw_socket of LF-OS does.
SlipFaults ==
  /\ pc = "link_tx" /\ link = "SLIP"
  /\ Goto("dead")
  /\ UNCHANGED <<arguments, heap, packet, intact, id_marked, sent, wire, ret, bad>>

\* link_tx for a type that is neither: nothing is sent and 0 returned.
NoLink ==
  /\ pc = "link_tx" /\ link = "other"
  /\ sent' = 0
  /\ Goto("ip_free")
  /\ UNCHANGED <<arguments, heap, packet, intact, id_marked, wire, ret, bad>>

\* link_tx to eth_transmit, up to its calloc.
EthAlloc ==
  /\ pc = "link_tx" /\ link = "ETH"
  /\ Alloc("frame", eth_hdr_size + IpLen)
  /\ Goto("sendto")
  /\ UNCHANGED <<arguments, packet, intact, id_marked, sent, wire, ret, bad>>

\* The socket has no Ethernet header, because new_socket had no memory for one:
\* the memcpy behind the calloc reads address 0.
EthHeaderMissing ==
  /\ pc = "link_tx" /\ link = "ETH"
  /\ Alloc("frame", eth_hdr_size + IpLen)
  /\ Goto("dead")
  /\ UNCHANGED <<arguments, packet, intact, id_marked, sent, wire, ret, bad>>

\* Mutant: "sent" is initialised with the length.
EthAllocFailsAsSent ==
  /\ pc = "link_tx" /\ link = "ETH"
  /\ sent' = u16(IpLen)
  /\ Goto("ip_free")
  /\ UNCHANGED <<arguments, heap, packet, intact, id_marked, wire, ret, bad>>

\* The calloc fails; "sent" is -1 in a uint16_t.
EthAllocFails ==
  /\ pc = "link_tx" /\ link = "ETH"
  /\ sent' = u16(-1)
  /\ Goto("ip_free")
  /\ UNCHANGED <<arguments, heap, packet, intact, id_marked, wire, ret, bad>>

\* transmit on Linux: sendto takes the frame or returns -1; then free(packet).
Sendto ==
  /\ pc = "sendto"
  /\ \/ wire' = Frame /\ sent' = u16(eth_hdr_size + IpLen)
     \/ wire' = wire /\ sent' = u16(-1)
  /\ FreeAll({"frame"})
  /\ Goto("ip_free")
  /\ UNCHANGED <<arguments, packet, intact, id_marked, ret, bad>>

\* transmit on LF-OS: nothing is done and 0 returned; then free(packet).
TransmitNothing ==
  /\ pc = "sendto"
  /\ sent' = 0
  /\ FreeAll({"frame"})
  /\ Goto("ip_free")
  /\ UNCHANGED <<arguments, packet, intact, id_marked, wire, ret, bad>>

\* free_ipv4_id, free(ip_hdr), free(packet), return sent.
IpFree ==
  /\ pc = "ip_free"
  /\ id_marked' = FALSE
  /\ FreeAll({"ip_hdr", "ip_packet"})
  /\ ret' = sent
  /\ Goto("free_packet")
  /\ UNCHANGED <<arguments, packet, intact, sent, wire, bad>>

\* free(packet) in udp_send, which returns what ipv4_transmit_datagram did.
FreePacket ==
  /\ pc = "free_packet"
  /\ FreeAll({packet})
  /\ Goto("idle")
  /\ UNCHANGED <<arguments, packet, intact, id_marked, sent, wire, ret, bad>>

UdpLayer ==
  \/ CreateUdpHdr \/ ReallocInPlace \/ ReallocMoves \/ ReallocFails
  \/ ReallocZero \/ CopyPayload \/ FreePacket
IpLayer ==
  \/ CreateIpv4Hdr \/ Ipv4HdrAllocFails \/ IpPacketAlloc
  \/ IpPacketAllocFails \/ FillIpPacket \/ IpFree
LinkLayer ==
  \/ SlipTransmit \/ SlipFaults \/ NoLink
  \/ EthAlloc \/ EthHeaderMissing \/ EthAllocFails \/ Sendto \/ TransmitNothing

Next ==
  \/ \E n \in PayloadLens, l \in Links : Call(n, l)
  \/ UdpLayer
  \/ IpLayer
  \/ LinkLayer

Spec == Init /\ [][Next]_vars

-----------------------------------------------------------------------------
(* Properties.                                                             *)

\* Lengths of 16 bits, sizes of blocks, and the values each variable takes.
TypeOK ==
  /\ pc \in {"idle", "create_udp_hdr", "realloc", "copy", "create_ipv4_hdr",
             "ip_packet", "fill_packet", "link_tx", "sendto", "ip_free",
             "free_packet", "dead"}
  /\ len \in Nat
  /\ link \in Links
  /\ heap \in [Blocks -> Nat \cup {Freed}]
  /\ packet \in {"uhdr", "moved"}
  /\ intact \in BOOLEAN
  /\ id_marked \in BOOLEAN
  /\ sent \in U16
  /\ wire \in [bytes : U16, whole : BOOLEAN] \cup {NoFrame}
  /\ ret = Failure \/ ret \in U16
  /\ bad \subseteq {"free_uhdr", "write_uhdr", "read_packet", "write_ip_packet"}

\* Every return of udp_send (udp.c:91-103), on each of the error paths of four
\* functions, has freed each block the call took. What it may leave behind is
\* the bit of its ID, and only if it returns -1 with nothing sent.
ResourcesReturned ==
  pc = "idle" =>
    /\ \A b \in Blocks : heap[b] = Freed
    /\ id_marked => ret = Failure /\ wire = NoFrame

\* The longest payload with which the byte-swapped size that udp.c:94 asks for
\* is sure to hold the datagram.
ShortMessage == 247

\* As long as realloc leaves the block where it is, a short message is sent
\* whole, and no step of the five functions leaves a live block.
ShortMessagesArrive ==
  len <= ShortMessage /\ packet = "uhdr" =>
    /\ bad = {}
    /\ wire # NoFrame => wire.whole

\* The longest payload that fits an IPv4 datagram.
LongestPayload == 65535 - ipv4_hdr_size - udp_hdr_size

\* The number of bytes the device gets, the total length of the IP header and
\* the length of the UDP header, each computed on its own from a different
\* type (udp.c:68, ip.c:185, ip.c:241), agree for what IPv4 can carry.
LengthsAgree ==
  wire # NoFrame /\ len <= LongestPayload =>
    /\ wire.bytes = ipv4_hdr_size + UdpLen
    /\ UdpLen = udp_hdr_size + len

\* The longest payload whose Ethernet frame is not 65535 bytes or more.
Distinguishable == 65535 - eth_hdr_size - ipv4_hdr_size - udp_hdr_size - 1

\* A caller that knows the three conventions of the layers can tell whether its
\* datagram reached the device: neither 0 (udp.c:92, 97; link.c:57) nor -1
\* (ip.c:238, 246) nor 65535 (eth.c:74) is returned for one that did, and no
\* other value for one that did not.
ReturnTellsSent ==
  pc = "idle" /\ len <= Distinguishable =>
    (wire # NoFrame <=> ret \notin {0, Failure, MaxU16})

\* "data -- Pointer to data to transmit" (udp.c:83): a packet that goes out
\* carries the data.
PayloadOnWire == wire # NoFrame => wire.whole

\* "@return amount of bytes sent excluding ip header on success or -1 on
\* error." (ip.c:223)
ReturnContract ==
  [][pc = "ip_free" /\ pc' = "free_packet" =>
       ret' = IF wire = NoFrame THEN Failure ELSE DataLen]_vars

-----------------------------------------------------------------------------
(* The inductive invariant behind the properties: which blocks are live,   *)
(* what they hold of a short message, and what was sent, at each step.     *)

\* The steps of ipv4_transmit_datagram at which it has an IP header.
WithIpHdr == {"ip_packet", "fill_packet", "link_tx", "sendto", "ip_free"}
WithIpPacket == WithIpHdr \ {"ip_packet"}
WithPacket == WithIpHdr \cup {"copy", "create_ipv4_hdr", "free_packet"}

HeapShape ==
  /\ pc \in {"idle", "create_udp_hdr"} =>
       heap["uhdr"] = Freed /\ heap["moved"] = Freed
  /\ pc \in {"create_udp_hdr", "realloc"} => packet = "uhdr" /\ heap["moved"] = Freed
  /\ pc \in WithPacket =>
       /\ heap[packet] = ReallocSize
       /\ \A b \in {"uhdr", "moved"} \ {packet} : heap[b] = Freed
  /\ pc \in WithIpHdr \cup {"dead"} \/ heap["ip_hdr"] = Freed
  /\ pc \in WithIpPacket \cup {"dead"} \/ heap["ip_packet"] = Freed
  /\ pc \in WithIpPacket => heap["ip_packet"] = IpLen
  /\ pc \in {"sendto", "dead"} \/ heap["frame"] = Freed

ShortShape ==
  len <= ShortMessage /\ packet = "uhdr" =>
    /\ bad = {}
    /\ pc \in WithIpHdr \cup {"create_ipv4_hdr"} => intact
    /\ wire # NoFrame => wire.whole

\* What the device returned for the frame.
Accepted == IF link = "ETH" THEN u16(eth_hdr_size + IpLen) ELSE IpLen

SentShape ==
  /\ pc \in {"ip_free", "free_packet", "idle", "dead"} \/ wire = NoFrame
  /\ wire # NoFrame => wire.bytes = IpLen
  /\ pc = "sendto" => link = "ETH"
  /\ pc = "ip_free" => IF wire = NoFrame THEN sent \in {0, MaxU16} ELSE sent = Accepted
  /\ pc \in {"free_packet", "idle"} =>
       /\ IF wire = NoFrame THEN ret \in {0, Failure, MaxU16} ELSE ret = Accepted
       /\ id_marked => ret = Failure /\ wire = NoFrame
  /\ pc \in WithPacket \cup {"idle", "dead"} \/ ~id_marked
  /\ pc \in {"copy", "create_ipv4_hdr"} => ~id_marked
  /\ pc \in {"free_packet", "idle"} \/ ret = 0 \/ pc = "dead"

UInv == TypeOK /\ HeapShape /\ ShortShape /\ SentShape
=============================================================================
