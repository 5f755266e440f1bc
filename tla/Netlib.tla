------------------------------- MODULE Netlib -------------------------------
(***************************************************************************)
(* The program the repository builds: sockets (Socket), the IPv4 ID        *)
(* allocator (IpId) and the send path (UdpSend) put together, with main of *)
(* src/src/main.c or another single-threaded client on top.                *)
(*                                                                         *)
(* A call one part makes to another is one step of both: create_ipv4_hdr   *)
(* is the search of IpId joined with CreateIpv4Hdr of UdpSend, and link_tx *)
(* is a send of Socket joined with the link layer of UdpSend. The bytes    *)
(* are left to Ipv4Hdr and Slip.                                           *)
(*                                                                         *)
(* A client calls the functions in the order main.c does: it has a socket, *)
(* and has called ip_initialise, before it sends. IpId has the clients     *)
(* that make headers of their own or call ip_finalise.                     *)
(***************************************************************************)
EXTENDS Socket, FiniteSets

CONSTANTS
  PayloadLens, Usable,                                 \* of UdpSend
  NoId, IdSpace, BlockSize, MaxBlocks, FirstBlocks,    \* of IpId
  IntMax, RandFns,
  MaxFailures  \* the failures of udp_send that are counted

MainLen == 9     \* sizeof "Hellorld\n" without its 0

\* The smallest residue class modulo 3 has one ID less than the others, since 0
\* is not given.
ClassSize == (IdSpace - 1) \div 3

ASSUME NetlibAssumption ==
  /\ MainLen \in PayloadLens
  /\ MaxFailures \in Nat /\ MaxFailures >= ClassSize - 1

VARIABLES
  u_pc, len, link, heap, packet, intact, id_marked, sent, wire, ret, bad,
  id_pc, rand, bitmap, used, last_block, hdr, caller, mode, entry, orphans,
  line,      \* where main is, or "any" for another client
  using,     \* the socket of the running, or last, call of udp_send
  reported,  \* main has printed that udp_send failed
  failures   \* history: the calls of udp_send that returned -1

U == INSTANCE UdpSend WITH pc <- u_pc
I == INSTANCE IpId WITH pc <- id_pc, Streams <- {"datagram"}

\* The parts assume this of the constants they share with the program.
ASSUME PartsAssumption ==
  /\ U!PayloadLensAssumption /\ U!UsableAssumption
  /\ I!IdSpaceAssumption /\ I!BlockAssumption /\ I!RandAssumption /\ I!NoIdAssumption

udpVars == <<u_pc, len, link, heap, packet, intact, id_marked, sent, wire, ret, bad>>
idVars ==
  <<id_pc, rand, bitmap, used, last_block, hdr, caller, mode, entry, orphans>>
mainVars == <<line, reported>>
netlibVars == <<vars, udpVars, idVars, mainVars, using, failures>>

MainSocket == CHOOSE c \in Clients : TRUE

NetlibInit ==
  /\ Init /\ for = MainSocket
  /\ U!Init /\ link = "other"
  /\ I!Init
  /\ line \in {"any", "new_socket"}
  /\ using = MainSocket /\ reported = FALSE /\ failures = 0

-----------------------------------------------------------------------------
(* The client.                                                             *)

ClientRuns == pc = "idle" /\ u_pc = "idle"

\* A step that main makes between two lines, and any other client at any time.
At(here, next) ==
  \/ line = here /\ line' = next
  \/ line = "any" /\ UNCHANGED line

\* What main passes where another client may pass anything.
AsMain(arguments) == line = "any" \/ arguments

OpenSocket(c, t) ==
  /\ ClientRuns
  /\ NewSocket(c, t)
  /\ AsMain(c = MainSocket /\ t = "SLIP")
  /\ At("new_socket", "opened")
  /\ UNCHANGED <<udpVars, idVars, reported, using, failures>>

\* if (!sock): new_socket had no memory, for the socket or for its options.
MainExits ==
  /\ ClientRuns
  /\ line \in {"new_socket", "opened"} /\ sock[MainSocket] = Null
  /\ line' = "exit"
  /\ UNCHANGED <<vars, udpVars, idVars, reported, using, failures>>

MayInitialise ==
  ClientRuns /\ bitmap = "null" /\ AsMain(sock[MainSocket] # Null)

Initialise ==
  /\ MayInitialise
  /\ I!IpInitialise
  /\ At("opened", "ip_initialise")
  /\ UNCHANGED <<vars, udpVars, reported, using, failures>>

\* The calloc of ip_initialise fails: the memset before the assertion faults.
InitialiseDies ==
  /\ MayInitialise
  /\ At("opened", "opened")
  /\ Faults
  /\ UNCHANGED <<udpVars, idVars, reported, using, failures>>

\* Both inet_addr calls of main; strdup may have no memory for one.
MainAddresses ==
  /\ ClientRuns
  /\ line = "ip_initialise" /\ line' = "addresses"
  /\ Faults \/ UNCHANGED vars
  /\ UNCHANGED <<udpVars, idVars, reported, using, failures>>

UdpSendCall(c, n) ==
  /\ ClientRuns /\ sock[c] # Null /\ bitmap = "live"
  /\ U!Call(n, sock[c].type)
  /\ using' = c
  /\ AsMain(c = MainSocket /\ n = MainLen)
  /\ At("addresses", "udp_send")
  /\ UNCHANGED <<vars, idVars, reported, failures>>

\* Mutant: main takes 0 for the error.
MainCheckZero ==
  /\ ClientRuns
  /\ line = "udp_send" /\ line' = "spin"
  /\ reported' = (ret = 0)
  /\ UNCHANGED <<vars, udpVars, idVars, using, failures>>

\* if (sent == -1): printf; then the loop that never ends.
MainCheck ==
  /\ ClientRuns
  /\ line = "udp_send" /\ line' = "spin"
  /\ reported' = (ret = U!Failure)
  /\ UNCHANGED <<vars, udpVars, idVars, using, failures>>

NetlibClient ==
  \/ \E c \in Clients, t \in Types : OpenSocket(c, t)
  \/ MainExits \/ Initialise \/ InitialiseDies \/ MainAddresses
  \/ \E c \in Clients, n \in PayloadLens : UdpSendCall(c, n)
  \/ MainCheck

-----------------------------------------------------------------------------
(* The library.                                                            *)

\* A step of the send path, of the allocator or of both, and of link_tx.
Within(part) == part /\ UNCHANGED <<mainVars, using>>

Opening == Within(Open) /\ UNCHANGED <<udpVars, idVars, failures>>

\* udp_send itself, but for its return.
Udp ==
  /\ Within(U!UdpLayer) /\ u_pc # "free_packet"
  /\ UNCHANGED <<vars, idVars, failures>>

\* udp_send returns.
UdpReturns ==
  /\ Within(U!FreePacket)
  /\ failures' = IF ret = U!Failure /\ failures < MaxFailures THEN failures + 1
                 ELSE failures
  /\ UNCHANGED <<vars, idVars>>

\* create_ipv4_hdr as far as the loop of allocate_ipv4_id.
SearchId ==
  /\ u_pc = "create_ipv4_hdr"
  /\ Within(I!CreateHdr("datagram", "transmit"))
  /\ UNCHANGED <<vars, udpVars, failures>>

SearchOn ==
  /\ Within(I!MarkZero \/ I!SkipId)
  /\ UNCHANGED <<vars, udpVars, failures>>

IdFound ==
  /\ Within(I!TakeId /\ U!CreateIpv4Hdr)
  /\ UNCHANGED <<vars, failures>>

\* Mutant: the ID is selected before there is a header for it.
NoHdrMemoryAfterSearch ==
  /\ Within(U!Ipv4HdrAllocFails)
  /\ UNCHANGED <<vars, idVars, failures>>

NoHdrMemory ==
  /\ id_pc = "idle"
  /\ Within(U!Ipv4HdrAllocFails)
  /\ UNCHANGED <<vars, idVars, failures>>

PacketMemory ==
  /\ Within(U!IpPacketAlloc \/ U!FillIpPacket)
  /\ UNCHANGED <<vars, idVars, failures>>

NoPacketMemory ==
  /\ Within(U!IpPacketAllocFails /\ I!PacketAllocFails)
  /\ UNCHANGED <<vars, failures>>

IdReturned ==
  /\ Within(U!IpFree /\ I!LinkTxAndFree)
  /\ UNCHANGED <<vars, failures>>

FrameMemory ==
  /\ Within(U!EthAlloc) /\ sock[using].eth_header
  /\ UNCHANGED <<vars, idVars, failures>>

LinkTx ==
  \/ U!SlipTransmit /\ SendSlip(using)
  \/ U!SlipFaults /\ SlipFaults(using)
  \/ U!NoLink /\ SendOther(using)
  \/ U!EthHeaderMissing /\ NoEthHeader(using)
  \/ U!EthAllocFails /\ NoFrameMemory(using)
  \/ U!Sendto /\ wire' # wire /\ SendFrame(using)
  \/ U!Sendto /\ wire' = wire /\ SendtoFails(using)
  \/ U!TransmitNothing /\ SendNothing(using)

Linked == Within(LinkTx) /\ UNCHANGED <<idVars, failures>>

NetlibLibrary ==
  \/ Opening \/ Udp \/ UdpReturns
  \/ SearchId \/ SearchOn \/ IdFound \/ NoHdrMemory
  \/ PacketMemory \/ NoPacketMemory \/ FrameMemory \/ Linked \/ IdReturned

NetlibNext == NetlibClient \/ NetlibLibrary

NetlibSpec == NetlibInit /\ [][NetlibNext]_netlibVars

\* The thread keeps running once it is inside the library; a client may stop.
NetlibFairSpec == NetlibSpec /\ WF_netlibVars(NetlibLibrary)

-----------------------------------------------------------------------------
(* Properties.                                                             *)

\* Each part has its types, and a search for an ID belongs to a call.
NetlibTypeOK ==
  /\ TypeOK /\ U!TypeOK /\ I!TypeOK
  /\ line \in {"any", "new_socket", "opened", "ip_initialise", "addresses",
               "udp_send", "spin", "exit"}
  /\ using \in Clients
  /\ reported \in BOOLEAN
  /\ failures \in 0 .. MaxFailures
  /\ id_pc = "probe" => u_pc = "create_ipv4_hdr"
  /\ id_pc = "created" <=>
       \/ u_pc \in {"ip_packet", "fill_packet", "link_tx", "sendto", "ip_free"}
       \/ u_pc = "dead" /\ hdr["datagram"] # NoId

\* new_socket looks at none of the results it gets (socket.c:62, 89), but what
\* it stored decides what udp_send can do on the socket: a count is returned
\* only for a socket with an open descriptor of its own and an Ethernet header,
\* or with the ports of the UART; and raw_sockfd 0, on LF-OS, means the ports
\* are there, for that and for every other socket.
SocketTellsOutcome ==
  /\ u_pc = "idle" /\ ret \notin {0, U!Failure, U!MaxU16} =>
       \/ /\ sock[using].type = "ETH" /\ sock[using].eth_header
          /\ sock[using].fd \in open
          /\ \A c \in Clients \ {using} : sock[c].fd # sock[using].fd
       \/ sock[using].type = "SLIP" /\ ports
  /\ u_pc = "dead" /\ pc = "dead" /\ sock[using].type = "SLIP" =>
       \A c \in Clients : sock[c].fd # GotPorts

\* What main knows when it is at its last line: its datagram left, on LF-OS
\* alone, if it printed no error and realloc had memory. On Linux main never
\* gets there with a datagram sent: its SLIP link faults.
MainOutcome ==
  line = "spin" =>
    /\ wire # U!NoFrame => platform = "LF-OS" /\ ports /\ ~reported
    /\ wire = U!NoFrame /\ ~reported => ret = 0

\* udp_send can hang in allocate_ipv4_id, but only for a client that has got -1
\* as often as the class has IDs: a datagram that reached the link layer, sent
\* there or not, gave its ID back.
HangTakesFailures == I!Exhausted => failures >= ClassSize - 1

\* A call of udp_send returns or dies, on every path of every layer below it,
\* unless its search finds all the IDs it can reach taken.
SendReturns == u_pc = "create_udp_hdr" ~> u_pc \in {"idle", "dead"} \/ I!Exhausted

\* "@return bool true on success or false on error" (ip.c:93): a search for an ID
\* ends, also when it finds none. The program has one header at a time and frees
\* its ID with it (ip.c:85-86, 256), so the search could only fail to find one
\* after sends that kept theirs, as ip.c:242-247 does.
AllocateReturns == id_pc = "probe" ~> id_pc # "probe"

-----------------------------------------------------------------------------
(* The inductive invariant behind the properties, with that of Socket: what *)
(* the parts know of each other between two of their steps.                 *)

\* A call is on a socket of the client, which opens no other meanwhile, and a
\* packet goes out for a socket that can send.
CallShape ==
  /\ u_pc \notin {"idle", "dead"} => pc = "idle"
  /\ u_pc = "dead" => pc \in {"idle", "dead"}
  /\ u_pc # "idle" \/ wire # U!NoFrame \/ ret # 0 =>
       sock[using] # Null /\ link = sock[using].type
  /\ wire # U!NoFrame =>
       \/ link = "ETH" /\ sock[using].eth_header /\ sock[using].fd \in open
       \/ link = "SLIP" /\ ports
  /\ link # "ETH" /\ wire = U!NoFrame => sent = 0 /\ ret \in {0, U!Failure}

\* Only LF-OS gives ports, and a socket that says it got them did.
PortsShape ==
  /\ ports => platform = "LF-OS"
  /\ new.fd = GotPorts \/ (\E c \in Clients : sock[c].fd = GotPorts) => ports
  /\ u_pc = "dead" /\ pc = "dead" /\ link = "SLIP" => ~ports

\* main has the one socket, for SLIP, and sends once.
MainShape ==
  line # "any" =>
    /\ new # Null => new.type = "SLIP" /\ for = MainSocket
    /\ sock[MainSocket] # Null => sock[MainSocket].type = "SLIP"
    /\ line \in {"udp_send", "spin"} => using = MainSocket /\ link = "SLIP"
    /\ line = "spin" => u_pc = "idle" /\ reported = (ret = U!Failure)

\* The allocator's calls are those of the send path, which frees its headers.
IdShape ==
  /\ id_pc = "probe" => mode = "transmit"
  /\ id_pc = "created" <=> hdr["datagram"] # NoId

\* A call that will count as a failure when it returns.
Pending == IF u_pc = "free_packet" /\ ret = U!Failure THEN 1 ELSE 0

\* An ID is only lost by a call that fails.
LossShape ==
  failures < MaxFailures => Cardinality(orphans) <= failures + Pending

NetlibInv ==
  NetlibTypeOK /\ CallShape /\ PortsShape /\ MainShape /\ IdShape /\ LossShape
=============================================================================
