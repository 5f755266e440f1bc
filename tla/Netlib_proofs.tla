---------------------------- MODULE Netlib_proofs ----------------------------
(***************************************************************************)
(* Proofs about Netlib: the parts of the program, put together, are still  *)
(* what their modules say, so what is proved of each holds in the program. *)
(***************************************************************************)
EXTENDS Netlib, Socket_proofs, FiniteSetTheorems

-----------------------------------------------------------------------------
(* Socket.                                                                 *)

\* A step of the program is one of sockets, or leaves them alone, or the client
\* dies in a function of another part.
LEMMA SocketSteps ==
  using \in Clients /\ [NetlibNext]_netlibVars =>
    [Next]_vars \/ (pc = "idle" /\ Faults)
<1> SUFFICES ASSUME using \in Clients, [NetlibNext]_netlibVars
             PROVE  [Next]_vars \/ (pc = "idle" /\ Faults)
  OBVIOUS
<1> USE DEF Within
<1>1. CASE UNCHANGED netlibVars
  BY <1>1 DEF netlibVars
<1>2. CASE NetlibClient
  BY <1>2 DEF NetlibClient, OpenSocket, MainExits, Initialise, InitialiseDies,
       MayInitialise, MainAddresses, UdpSendCall, MainCheck, ClientRuns, Next
<1>3. CASE NetlibLibrary
  <2>1. CASE Opening
    BY <2>1 DEF Opening, Next
  <2>2. CASE Linked
    BY <2>2 DEF Linked, LinkTx, Next, Send
  <2>3. CASE Udp \/ UdpReturns \/ SearchId \/ SearchOn \/ IdFound \/ NoHdrMemory
             \/ PacketMemory \/ NoPacketMemory \/ FrameMemory \/ IdReturned
    BY <2>3 DEF Udp, UdpReturns, SearchId, SearchOn, IdFound,
         NoHdrMemory, PacketMemory, NoPacketMemory, FrameMemory, IdReturned
  <2> QED
    BY <1>3, <2>1, <2>2, <2>3 DEF NetlibLibrary
<1> QED
  BY <1>1, <1>2, <1>3 DEF NetlibNext

\* The socket of a call is one of the client's.
LEMMA UsingStep == using \in Clients /\ [NetlibNext]_netlibVars => using' \in Clients
<1> SUFFICES ASSUME using \in Clients, [NetlibNext]_netlibVars PROVE using' \in Clients
  OBVIOUS
<1>1. CASE NetlibClient \/ UNCHANGED netlibVars
  BY <1>1 DEF NetlibClient, OpenSocket, MainExits, Initialise, InitialiseDies,
       MainAddresses, UdpSendCall, MainCheck, netlibVars
<1>2. CASE NetlibLibrary
  BY <1>2 DEF NetlibLibrary, Opening, Udp, UdpReturns, SearchId, SearchOn, IdFound,
       NoHdrMemory, PacketMemory, NoPacketMemory, FrameMemory, Linked, IdReturned, Within
<1> QED
  BY <1>1, <1>2 DEF NetlibNext

\* A client that dies leaves its sockets as they are.
LEMMA FaultsStep == SInv /\ pc = "idle" /\ Faults => SInv'
<1> SUFFICES ASSUME SInv, pc = "idle", Faults PROVE SInv'
  OBVIOUS
<1>1. pc' = "dead" /\ UNCHANGED <<system, for, new, sock, blocks, open, lost, outcome>>
  BY DEF Faults, Goto
<1>2. TypeOK'
  BY <1>1 DEF SInv, TypeOK, system
<1>3. NewShape'
  BY <1>1 DEF SInv, NewShape, OpeningSteps
<1>4. BlocksShape'
  <2>1. pc \notin OpeningSteps /\ pc' \notin OpeningSteps
    BY <1>1 DEF OpeningSteps
  <2> QED
    BY <1>1, <2>1 DEF SInv, BlocksShape, Needs
<1>5. DescriptorsAccounted'
  BY <1>1, SameDescriptors DEF SInv
<1> QED
  BY <1>2, <1>3, <1>4, <1>5 DEF SInv

-----------------------------------------------------------------------------
(* UdpSend.                                                                *)

\* Every step of the program is one of the send path, or leaves it alone.
LEMMA UdpSteps == SInv /\ [NetlibNext]_netlibVars => [U!Next]_udpVars
<1> SUFFICES ASSUME SInv, [NetlibNext]_netlibVars PROVE [U!Next]_udpVars
  OBVIOUS
<1> USE DEF U!Next, Within
<1>1. CASE UNCHANGED netlibVars
  BY <1>1 DEF netlibVars
<1>2. CASE NetlibClient
  <2>1. ASSUME NEW c \in Clients, NEW n \in PayloadLens, UdpSendCall(c, n)
        PROVE  U!Next
    <3>1. sock[c] \in SockRecords \cup {Null}
      BY DEF SInv, TypeOK
    <3>2. sock[c].type \in U!Links
      BY <3>1 DEF SockRecords, Null, Types, U!Links
    <3> QED
      BY <2>1, <3>2 DEF UdpSendCall
  <2> QED
    BY <1>2, <2>1 DEF NetlibClient, OpenSocket, MainExits, Initialise, InitialiseDies,
         MainAddresses, MainCheck
<1>3. CASE NetlibLibrary
  <2> USE DEF U!UdpLayer, U!IpLayer, U!LinkLayer
  <2>1. CASE Linked
    BY <2>1 DEF Linked, LinkTx
  <2>2. CASE Opening \/ Udp \/ UdpReturns \/ SearchId \/ SearchOn
    BY <2>2 DEF Opening, Udp, UdpReturns, SearchId, SearchOn
  <2>3. CASE IdFound \/ NoHdrMemory \/ PacketMemory \/ NoPacketMemory \/ FrameMemory
             \/ IdReturned
    BY <2>3 DEF IdFound, NoHdrMemory, PacketMemory, NoPacketMemory, FrameMemory,
         IdReturned
  <2> QED
    BY <1>3, <2>1, <2>2, <2>3 DEF NetlibLibrary
<1> QED
  BY <1>1, <1>2, <1>3 DEF NetlibNext

-----------------------------------------------------------------------------
(* IpId.                                                                   *)

\* Every step of the program is one of the allocator, or leaves it alone.
LEMMA IdSteps == [NetlibNext]_netlibVars => [I!Next]_idVars
<1> SUFFICES ASSUME [NetlibNext]_netlibVars PROVE [I!Next]_idVars
  OBVIOUS
<1> USE DEF I!Next, I!Client, I!Library, I!Probe, Within
<1>1. CASE UNCHANGED netlibVars
  BY <1>1 DEF netlibVars
<1>2. CASE NetlibClient
  BY <1>2 DEF NetlibClient, OpenSocket, MainExits, Initialise, InitialiseDies,
       MainAddresses, UdpSendCall, MainCheck
<1>3. CASE NetlibLibrary
  <2>1. CASE SearchId
    BY <2>1 DEF SearchId
  <2>2. CASE SearchOn \/ IdFound \/ NoPacketMemory \/ IdReturned
    BY <2>2 DEF SearchOn, IdFound, NoPacketMemory, IdReturned
  <2>3. CASE Opening \/ Udp \/ UdpReturns \/ NoHdrMemory \/ PacketMemory
             \/ FrameMemory \/ Linked
    BY <2>3 DEF Opening, Udp, UdpReturns, NoHdrMemory, PacketMemory, FrameMemory, Linked
  <2> QED
    BY <1>3, <2>1, <2>2, <2>3 DEF NetlibLibrary
<1> QED
  BY <1>1, <1>2, <1>3 DEF NetlibNext

-----------------------------------------------------------------------------
(* The theorems.                                                           *)

\* Sockets keep their invariant in the program.
LEMMA NetlibInvariance == NetlibSpec => [](SInv /\ using \in Clients)
<1>1. NetlibInit => SInv /\ using \in Clients
  BY InitSInv DEF NetlibInit, Init
<1>2. SInv /\ using \in Clients /\ [NetlibNext]_netlibVars => (SInv /\ using \in Clients)'
  BY SocketSteps, UsingStep, SInvStep, FaultsStep
<1> QED
  BY <1>1, <1>2, PTL DEF NetlibSpec

\* What new_socket leaves behind, between the calls of the other parts.
THEOREM NetlibSockets ==
  NetlibSpec => []DescriptorsAccounted /\ []NullLeavesNoMemory
<1>1. SInv => DescriptorsAccounted /\ NullLeavesNoMemory
  BY DEF SInv, BlocksShape, NullLeavesNoMemory, OpeningSteps
<1> QED
  BY <1>1, NetlibInvariance, PTL

\* The send path in the program is the one of UdpSend, and the allocator that of
\* IpId: what is proved of them holds here.
THEOREM NetlibRefines == NetlibSpec => U!Spec /\ I!Spec
<1>1. NetlibInit => U!Init /\ I!Init
  BY DEF NetlibInit
<1>2. SInv /\ [NetlibNext]_netlibVars => [U!Next]_(U!vars)
  BY UdpSteps DEF udpVars, U!vars
<1>3. [NetlibNext]_netlibVars => [I!Next]_(I!vars)
  BY IdSteps DEF idVars, I!vars
<1> QED
  BY <1>1, <1>2, <1>3, NetlibInvariance, PTL DEF NetlibSpec, U!Spec, I!Spec

-----------------------------------------------------------------------------
(* What is proved of the parts, in the program.                            *)

UP == INSTANCE UdpSend_proofs WITH pc <- u_pc
IP == INSTANCE IpId_proofs WITH pc <- id_pc, Streams <- {"datagram"}

\* The send path and the allocator that the proofs are about are those of the
\* program, definition by definition.
LEMMA SameUdp ==
  /\ U!Init => UP!Init
  /\ U!Next <=> UP!Next
  /\ U!vars = UP!vars
<1> USE DEF U!arguments, U!Links, U!Blocks, U!Freed, U!NoFrame, U!Failure,
            U!MaxU16, U!U16, U!u16, U!bswap_16, U!udp_hdr_size,
            U!ipv4_hdr_size, U!eth_hdr_size, U!UdpLen, U!DataLen, U!IpLen,
            U!ReallocSize, U!Goto, U!Alloc, U!FreeAll, U!InBlock, U!GotoUnless,
            UP!arguments, UP!Links, UP!Blocks, UP!Freed, UP!NoFrame,
            UP!Failure, UP!MaxU16, UP!U16, UP!u16, UP!bswap_16,
            UP!udp_hdr_size, UP!ipv4_hdr_size, UP!eth_hdr_size, UP!UdpLen,
            UP!DataLen, UP!IpLen, UP!ReallocSize, UP!Goto, UP!Alloc,
            UP!FreeAll, UP!InBlock, UP!GotoUnless
<1>1. U!Init => UP!Init
  BY DEF U!Init, UP!Init
<1>2. U!UdpLayer <=> UP!UdpLayer
  BY DEF U!UdpLayer, U!CreateUdpHdr, U!ReallocInPlace, U!ReallocMoves,
         U!ReallocFails, U!ReallocZero, U!CopyPayload, U!FreePacket,
         UP!UdpLayer, UP!CreateUdpHdr, UP!ReallocInPlace, UP!ReallocMoves,
         UP!ReallocFails, UP!ReallocZero, UP!CopyPayload, UP!FreePacket
<1>3. U!IpLayer <=> UP!IpLayer
  BY DEF U!IpLayer, U!CreateIpv4Hdr, U!Ipv4HdrAllocFails, U!IpPacketAlloc,
         U!IpPacketAllocFails, U!FillIpPacket, U!IpFree, UP!IpLayer,
         UP!CreateIpv4Hdr, UP!Ipv4HdrAllocFails, UP!IpPacketAlloc,
         UP!IpPacketAllocFails, UP!FillIpPacket, UP!IpFree
<1>4. U!LinkLayer <=> UP!LinkLayer
  BY DEF U!LinkLayer, U!SlipTransmit, U!SlipFaults, U!NoLink, U!EthAlloc,
         U!EthHeaderMissing, U!EthAllocFails, U!Sendto, U!TransmitNothing,
         U!Frame, UP!LinkLayer, UP!SlipTransmit, UP!SlipFaults, UP!NoLink,
         UP!EthAlloc, UP!EthHeaderMissing, UP!EthAllocFails, UP!Sendto,
         UP!TransmitNothing, UP!Frame
<1>5. \A n \in PayloadLens, l \in U!Links : U!Call(n, l) <=> UP!Call(n, l)
  BY DEF U!Call, UP!Call
<1>6. U!Next <=> UP!Next
  BY <1>2, <1>3, <1>4, <1>5 DEF U!Next, UP!Next
<1>7. U!vars = UP!vars
  BY DEF U!vars, UP!vars
<1> QED
  BY <1>1, <1>6, <1>7

\* The allocator under the program is the one IpId_proofs is about.
LEMMA SameId ==
  /\ I!Init => IP!Init
  /\ I!Next <=> IP!Next
  /\ I!vars = IP!vars
<1> USE DEF I!Ids, I!vars, I!libraryVars, I!CRem, I!WrapInt, I!NextBlock,
            I!StartEntry, I!NextEntry, I!BitmapGet, I!BitmapSet, I!BitmapClear,
            IP!Ids, IP!vars, IP!libraryVars, IP!CRem, IP!WrapInt, IP!NextBlock,
            IP!StartEntry, IP!NextEntry, IP!BitmapGet, IP!BitmapSet,
            IP!BitmapClear
<1>1. I!Init => IP!Init
  BY DEF I!Init, IP!Init
<1>2. I!Next <=> IP!Next
  BY DEF I!IpInitialise, I!IpFinalise, I!CreateHdr, I!TakeId, I!MarkZero,
         I!SkipId, I!PacketAllocFails, I!LinkTxAndFree, I!FreeHdr, I!Probe,
         I!Library, I!Client, I!Next, IP!IpInitialise, IP!IpFinalise,
         IP!CreateHdr, IP!TakeId, IP!MarkZero, IP!SkipId, IP!PacketAllocFails,
         IP!LinkTxAndFree, IP!FreeHdr, IP!Probe, IP!Library, IP!Client, IP!Next
<1> QED
  BY <1>1, <1>2

\* What is proved of the parts, as far as the proofs below use it.
PartsInv ==
  /\ SInv /\ using \in Clients
  /\ U!TypeOK /\ U!SentShape /\ U!Accepted \in U!U16
  /\ I!IInv

\* The program's constants satisfy what UdpSend and IpId assume of theirs.
LEMMA UdpAssumptions == UP!PayloadLensAssumption /\ UP!UsableAssumption
BY PartsAssumption DEF U!PayloadLensAssumption, U!UsableAssumption,
     UP!PayloadLensAssumption, UP!UsableAssumption

\* NoId and the numbers of the allocator are as IpId assumes them.
LEMMA IdAssumptions ==
  /\ IP!IdSpaceAssumption /\ IP!BlockAssumption
  /\ IP!RandAssumption /\ IP!NoIdAssumption
BY PartsAssumption DEF I!IdSpaceAssumption, I!BlockAssumption,
     I!RandAssumption, I!NoIdAssumption, I!Ids, IP!IdSpaceAssumption,
     IP!BlockAssumption, IP!RandAssumption, IP!NoIdAssumption, IP!Ids

\* The invariant of the send path, in this module's names.
LEMMA UdpInvariant == UP!UInv => U!TypeOK /\ U!SentShape /\ U!Accepted \in U!U16
<1> SUFFICES ASSUME UP!UInv PROVE U!TypeOK /\ U!SentShape /\ U!Accepted \in U!U16
  OBVIOUS
<1>1. UP!TypeOK /\ UP!SentShape
  BY DEF UP!UInv
<1>2. UP!Accepted \in UP!U16
  <2>1. len \in Nat
    BY <1>1 DEF UP!TypeOK
  <2> QED
    BY <2>1, UdpAssumptions, UP!LengthTypes
<1>3. /\ U!Links = UP!Links /\ U!Blocks = UP!Blocks /\ U!Freed = UP!Freed
      /\ U!NoFrame = UP!NoFrame /\ U!Failure = UP!Failure /\ U!MaxU16 = UP!MaxU16
  BY DEF U!Links, UP!Links, U!Blocks, UP!Blocks, U!Freed, UP!Freed, U!NoFrame,
         UP!NoFrame, U!Failure, UP!Failure, U!MaxU16, UP!MaxU16
<1>4. U!U16 = UP!U16
  BY <1>3 DEF U!U16, UP!U16
<1>5. U!IpLen = UP!IpLen /\ U!Accepted = UP!Accepted
  BY DEF U!udp_hdr_size, UP!udp_hdr_size, U!ipv4_hdr_size, UP!ipv4_hdr_size,
         U!eth_hdr_size, UP!eth_hdr_size, U!u16, UP!u16, U!DataLen, UP!DataLen,
         U!IpLen, UP!IpLen, U!Accepted, UP!Accepted
<1>6. U!TypeOK
  BY <1>1, <1>3, <1>4 DEF UP!TypeOK, U!TypeOK
<1>7. U!SentShape
  BY <1>1, <1>3, <1>5 DEF UP!SentShape, U!SentShape, U!WithIpHdr, UP!WithIpHdr,
       U!WithPacket, UP!WithPacket
<1> QED
  BY <1>2, <1>4, <1>5, <1>6, <1>7

\* The invariant of the allocator, in this module's names.
LEMMA IdInvariant == IP!IInv => I!IInv
BY DEF I!Ids, I!TypeOK, I!HeldMarked, I!CallerHasHeader, I!UniqueIds,
       I!BitsAccounted, I!HeldIds, I!IInv, IP!Ids, IP!TypeOK, IP!HeldMarked,
       IP!CallerHasHeader, IP!UniqueIds, IP!BitsAccounted, IP!HeldIds, IP!IInv,
       I!SearchSoFar, I!ProbeAt, I!StartEntry, IP!SearchSoFar, IP!ProbeAt,
       IP!StartEntry

\* The invariants of the parts are invariants of the program.
LEMMA PartsInvariance == NetlibSpec => []PartsInv
<1>1. NetlibSpec => []UP!UInv
  <2>2. UP!Spec => []UP!UInv
    BY UdpAssumptions, UP!Invariance
  <2>3. NetlibInit => UP!Init
    BY SameUdp DEF NetlibInit
  <2>4. SInv /\ [NetlibNext]_netlibVars => [UP!Next]_(UP!vars)
    BY SameUdp, UdpSteps DEF udpVars, UP!vars
  <2> QED
    BY <2>2, <2>3, <2>4, NetlibInvariance, PTL DEF NetlibSpec, UP!Spec
<1>2. NetlibSpec => []IP!IInv
  <2>2. IP!Spec => []IP!IInv
    BY IdAssumptions, IP!Invariance
  <2>3. NetlibInit => IP!Init
    BY SameId DEF NetlibInit
  <2>4. [NetlibNext]_netlibVars => [IP!Next]_(IP!vars)
    BY SameId, IdSteps DEF idVars, IP!vars
  <2> QED
    BY <2>2, <2>3, <2>4, PTL DEF NetlibSpec, IP!Spec
<1>3. SInv /\ using \in Clients /\ UP!UInv /\ IP!IInv => PartsInv
  BY UdpInvariant, IdInvariant DEF PartsInv
<1> QED
  BY <1>1, <1>2, <1>3, NetlibInvariance, PTL

-----------------------------------------------------------------------------
(* Sockets, the ports and the client.                                      *)

\* A socket stays as it was returned; descriptors stay open, and ports granted.
LEMMA SocketsStay ==
  ASSUME SInv, [Next]_vars \/ (pc = "idle" /\ Faults)
  PROVE  /\ \A c \in Clients : sock[c] # Null => sock'[c] = sock[c]
         /\ open \subseteq open' /\ (ports => ports') /\ platform' = platform
<1> USE DEF system
<1>1. CASE UNCHANGED vars \/ (pc = "idle" /\ Faults)
  BY <1>1 DEF vars, Faults
<1>2. ASSUME NEW c \in Clients, NEW t \in Types, NewSocket(c, t)
      PROVE  UNCHANGED <<sock, open, ports, platform>>
  BY <1>2 DEF NewSocket
<1>3. ASSUME NEW c \in Clients, Send(c)
      PROVE  UNCHANGED <<sock, open, ports, platform>>
  BY <1>3 DEF Send, SendSlip, SlipFaults, SendOther, NoEthHeader, NoFrameMemory,
       SendFrame, SendtoFails, SendNothing, Tells, Faults
<1>4. CASE LinkHeader
  <2>1. sock[for] = Null /\ sock \in [Clients -> SockRecords \cup {Null}]
    BY <1>4 DEF LinkHeader, SInv, NewShape, OpeningSteps, TypeOK
  <2>2. \E s : sock' = [sock EXCEPT ![for] = s]
    BY <1>4 DEF LinkHeader, CreateEthHdr, ReturnSocket
  <2>3. UNCHANGED <<open, ports, platform>>
    BY <1>4 DEF LinkHeader
  <2> QED
    BY <2>1, <2>2, <2>3
<1>5. CASE RawSocket \/ RawSocketFails \/ RawSocketLfOs
  BY <1>5 DEF RawSocket, RawSocketFails, RawSocketLfOs
<1>6. CASE IpOptions \/ LinkOptions
  BY <1>6 DEF IpOptions, LinkOptions, GiveUp
<1> QED
  BY <1>1, <1>2, <1>3, <1>4, <1>5, <1>6 DEF Next, Open

\* Most steps of the send path have no result yet.
LEMMA UdpKeeps ==
  ASSUME (U!UdpLayer /\ u_pc # "free_packet") \/ U!CreateIpv4Hdr \/ U!IpPacketAlloc
           \/ U!FillIpPacket \/ U!EthAlloc
  PROVE  /\ u_pc \notin {"idle", "dead"}
         /\ UNCHANGED <<link, sent, wire, ret>>
BY DEF U!UdpLayer, U!CreateUdpHdr, U!ReallocInPlace, U!ReallocMoves,
     U!ReallocFails, U!ReallocZero, U!CopyPayload, U!FreePacket, U!CreateIpv4Hdr,
     U!IpPacketAlloc, U!FillIpPacket, U!EthAlloc, U!arguments

\* link_tx and what is below it.
LEMMA LinkTxResults ==
  ASSUME LinkTx
  PROVE  /\ u_pc \in {"link_tx", "sendto"} /\ u_pc' \in {"ip_free", "dead"}
         /\ UNCHANGED <<link, ret>>
         /\ \/ /\ u_pc = "link_tx" /\ link = "SLIP" /\ SendSlip(using)
               /\ u_pc' = "ip_free"
            \/ /\ u_pc = "link_tx" /\ link = "SLIP" /\ SlipFaults(using)
               /\ u_pc' = "dead" /\ UNCHANGED <<sent, wire>>
            \/ /\ u_pc = "link_tx" /\ link = "other" /\ SendOther(using)
               /\ u_pc' = "ip_free" /\ sent' = 0 /\ wire' = wire
            \/ /\ u_pc = "link_tx" /\ link = "ETH" /\ NoEthHeader(using)
               /\ u_pc' = "dead" /\ UNCHANGED <<sent, wire>>
            \/ /\ u_pc = "link_tx" /\ link = "ETH" /\ NoFrameMemory(using)
               /\ u_pc' = "ip_free" /\ wire' = wire
            \/ /\ u_pc = "sendto" /\ u_pc' = "ip_free" /\ SendFrame(using)
            \/ /\ u_pc = "sendto" /\ u_pc' = "ip_free" /\ wire' = wire
               /\ SendtoFails(using) \/ SendNothing(using)
BY DEF LinkTx, U!SlipTransmit, U!SlipFaults, U!NoLink, U!EthHeaderMissing,
     U!EthAllocFails, U!Sendto, U!TransmitNothing, U!Goto, U!arguments

\* What link_tx does to the sockets, and to the client.
LEMMA SendKeeps ==
  ASSUME NEW c, Send(c)
  PROVE  /\ pc = "idle" /\ pc' \in {"idle", "dead"} /\ sock[c] # Null
         /\ UNCHANGED <<new, for, sock, open, ports, platform>>
         /\ pc' = "dead" => SlipFaults(c) \/ NoEthHeader(c)
BY DEF Send, SendSlip, SlipFaults, SendOther, NoEthHeader, NoFrameMemory,
     SendFrame, SendtoFails, SendNothing, Tells, Faults, Sends, system, Goto

\* A call keeps its socket, and a packet leaves on one that can send.
LEMMA CallShapeStep ==
  ASSUME PartsInv, CallShape, [NetlibNext]_netlibVars
  PROVE  CallShape'
<1>1. /\ \A c \in Clients : sock[c] # Null => sock'[c] = sock[c]
      /\ open \subseteq open' /\ (ports => ports')
  BY SocketSteps, SocketsStay DEF PartsInv
<1>2. using \in Clients /\ SInv
  BY DEF PartsInv
<1>3. ASSUME UNCHANGED <<udpVars, using>>, u_pc \notin {"idle", "dead"} => pc' = "idle",
             u_pc = "dead" => pc' \in {"idle", "dead"}
      PROVE  CallShape'
  BY <1>1, <1>2, <1>3 DEF CallShape, udpVars
<1>4. CASE UNCHANGED netlibVars
  BY <1>3, <1>4 DEF netlibVars, vars, CallShape
<1>5. CASE NetlibClient
  <2>1. ASSUME NEW c \in Clients, NEW n \in PayloadLens, UdpSendCall(c, n)
        PROVE  CallShape'
    <3>1. /\ u_pc' = "create_udp_hdr" /\ link' = sock[c].type /\ using' = c
          /\ wire' = U!NoFrame /\ sent' = 0 /\ ret' = 0
          /\ pc' = "idle" /\ sock[c] # Null /\ sock' = sock
      BY <2>1 DEF UdpSendCall, ClientRuns, U!Call, U!Goto, vars
    <3> QED
      BY <3>1 DEF CallShape
  <2>2. ASSUME NEW c \in Clients, NEW t \in Types, OpenSocket(c, t)
        PROVE  UNCHANGED <<udpVars, using>> /\ u_pc = "idle"
    BY <2>2 DEF OpenSocket, ClientRuns
  <2>3. CASE MainExits \/ Initialise \/ InitialiseDies \/ MainAddresses \/ MainCheck
    BY <1>3, <2>3 DEF MainExits, Initialise, InitialiseDies, MainAddresses,
         MainCheck, MayInitialise, ClientRuns
  <2> QED
    BY <1>3, <1>5, <2>1, <2>2, <2>3 DEF NetlibClient
<1>6. CASE NetlibLibrary
  <2> USE DEF Within
  <2>1. CASE Opening
    <3>1. pc \in OpeningSteps
      BY <2>1 DEF Opening, Open, RawSocket, RawSocketFails, RawSocketLfOs,
           IpOptions, LinkOptions, LinkHeader, OpeningSteps
    <3>2. u_pc = "idle" /\ UNCHANGED <<udpVars, using>>
      BY <2>1, <3>1 DEF Opening, CallShape, OpeningSteps
    <3> QED
      BY <1>3, <3>2
  <2>2. CASE SearchId \/ SearchOn
    BY <1>3, <2>2 DEF SearchId, SearchOn, CallShape, vars
  <2>3. CASE Udp \/ IdFound \/ PacketMemory \/ FrameMemory
    <3>1. UNCHANGED <<vars, using>>
      BY <2>3 DEF Udp, IdFound, PacketMemory, FrameMemory
    <3>2. /\ u_pc \notin {"idle", "dead"}
          /\ UNCHANGED <<link, sent, wire, ret>>
      BY <2>3, UdpKeeps DEF Udp, IdFound, PacketMemory, FrameMemory
    <3> QED
      BY <3>1, <3>2 DEF CallShape, vars
  <2>4. CASE UdpReturns \/ NoHdrMemory \/ NoPacketMemory \/ IdReturned
    <3>1. UNCHANGED <<vars, using, link, wire, sent>> /\ u_pc \notin {"idle", "dead"}
      BY <2>4 DEF UdpReturns, NoHdrMemory, NoPacketMemory, IdReturned, U!FreePacket,
           U!Ipv4HdrAllocFails, U!IpPacketAllocFails, U!IpFree, U!arguments
    <3>2. ret' \in {ret, sent, U!Failure}
      BY <2>4 DEF UdpReturns, NoHdrMemory, NoPacketMemory, IdReturned, U!FreePacket,
           U!Ipv4HdrAllocFails, U!IpPacketAllocFails, U!IpFree
    <3> QED
      BY <3>1, <3>2 DEF CallShape, vars
  <2>5. CASE Linked
    <3>1. LinkTx /\ using' = using
      BY <2>5 DEF Linked
    <3>2. Send(using)
      BY <3>1 DEF LinkTx, Send
    <3>3. /\ u_pc \in {"link_tx", "sendto"} /\ u_pc' \in {"ip_free", "dead"}
          /\ UNCHANGED <<link, ret>>
          /\ pc' \in {"idle", "dead"} /\ sock' = sock /\ open' = open /\ ports' = ports
      BY <3>1, <3>2, LinkTxResults, SendKeeps
    <3>4. pc' = "dead" => u_pc' = "dead"
      BY <3>1, <3>2, LinkTxResults, SendKeeps DEF SendSlip, SlipFaults, SendOther,
           NoEthHeader, NoFrameMemory, SendFrame, SendtoFails, SendNothing, Tells
    <3>5. u_pc = "sendto" => link = "ETH"
      BY DEF PartsInv, U!SentShape
    <3>6. sock[using] # Null /\ link = sock[using].type
      BY <3>3 DEF CallShape
    <3>7. wire' = wire \/ (link = "SLIP" /\ ports)
            \/ (link = "ETH" /\ sock[using].eth_header /\ sock[using].fd \in open)
      BY <3>1, <3>5, LinkTxResults DEF SendSlip, SendFrame
    <3>8. wire = U!NoFrame
      BY <3>3 DEF PartsInv, U!SentShape
    <3>9. link # "ETH" /\ wire' = U!NoFrame => sent' \in {sent, 0}
      <4>1. CASE link = "other"
        BY <3>1, <3>5, <4>1, LinkTxResults
      <4>2. CASE link = "SLIP"
        <5>1. U!SlipTransmit => wire' # U!NoFrame
          <6>1. U!IpLen # -1
            <7>1. \A x \in U!U16 : x # -1
              BY DEF U!U16
            <7> QED
              BY <4>2, <7>1 DEF PartsInv, U!Accepted
          <6>2. U!Frame.bytes # U!NoFrame.bytes
            BY <6>1 DEF U!Frame, U!NoFrame
          <6> QED
            BY <6>2 DEF U!SlipTransmit
        <5> QED
          BY <3>5, <4>2, <3>1, <5>1 DEF LinkTx, U!SlipFaults, U!NoLink, U!EthHeaderMissing,
               U!EthAllocFails, U!Sendto, U!TransmitNothing
      <4>3. link \in {"ETH", "SLIP", "other"}
        BY DEF PartsInv, U!TypeOK, U!Links
      <4> QED
        BY <4>1, <4>2, <4>3
    <3> QED
      BY <3>1, <3>3, <3>4, <3>6, <3>7, <3>8, <3>9 DEF CallShape
  <2> QED
    BY <1>6, <2>1, <2>2, <2>3, <2>4, <2>5 DEF NetlibLibrary
<1> QED
  BY <1>4, <1>5, <1>6 DEF NetlibNext

\* What an opening step makes of the new socket: it keeps its type until it is
\* returned or given up.
LEMMA NewKeeps ==
  ASSUME SInv, Open
  PROVE  /\ pc \in OpeningSteps /\ for' = for /\ new \in SockRecords
         /\ \/ new' \in SockRecords /\ new'.type = new.type /\ sock' = sock
            \/ new' = Null /\ sock' = sock
            \/ /\ new' = Null /\ ports' = ports
               /\ \E s \in SockRecords : /\ sock' = [sock EXCEPT ![for] = s]
                                         /\ s.type = new.type /\ s.fd = new.fd
<1>1. pc \in OpeningSteps
  BY DEF Open, RawSocket, RawSocketFails, RawSocketLfOs, IpOptions, LinkOptions,
       LinkHeader, OpeningSteps
<1>2. new \in SockRecords
  BY <1>1 DEF SInv, TypeOK, NewShape
<1>3. CASE RawSocket \/ RawSocketFails \/ RawSocketLfOs
  <2>1. \E fd \in Fds \cup {-1, GotPorts, PortsRefused} : new' = [new EXCEPT !.fd = fd]
    BY <1>3 DEF RawSocket, RawSocketFails, RawSocketLfOs, Available
  <2>2. for' = for /\ sock' = sock
    BY <1>3 DEF RawSocket, RawSocketFails, RawSocketLfOs
  <2> QED
    BY <1>1, <1>2, <2>1, <2>2 DEF SockRecords
<1>4. CASE IpOptions \/ LinkOptions
  BY <1>1, <1>2, <1>4 DEF IpOptions, LinkOptions, GiveUp
<1>5. CASE LinkHeader
  <2>1. \E s \in {new, [new EXCEPT !.eth_header = TRUE]} : sock' = [sock EXCEPT ![for] = s]
    BY <1>5 DEF LinkHeader, CreateEthHdr, ReturnSocket
  <2>2. \A s \in {new, [new EXCEPT !.eth_header = TRUE]} :
          s \in SockRecords /\ s.type = new.type /\ s.fd = new.fd
    BY <1>2 DEF SockRecords
  <2>3. new' = Null /\ for' = for /\ ports' = ports
    BY <1>5 DEF LinkHeader, system
  <2> QED
    BY <1>1, <1>2, <2>1, <2>2, <2>3
<1> QED
  BY <1>3, <1>4, <1>5 DEF Open

\* A descriptor GotPorts comes with the ports, and they with LF-OS.
LEMMA PortsKept ==
  ASSUME SInv, [Next]_vars \/ (pc = "idle" /\ Faults),
         ports => platform = "LF-OS",
         new.fd = GotPorts \/ (\E c \in Clients : sock[c].fd = GotPorts) => ports
  PROVE  /\ ports' => platform' = "LF-OS"
         /\ new'.fd = GotPorts \/ (\E c \in Clients : sock'[c].fd = GotPorts) => ports'
<1>1. (ports => ports') /\ platform' = platform
  BY SocketsStay
<1>2. GotPorts # -1 /\ GotPorts # PortsRefused /\ Null.fd # GotPorts
  BY DEF GotPorts, PortsRefused, Null
<1>3. CASE UNCHANGED vars \/ (pc = "idle" /\ Faults)
  BY <1>3 DEF vars, Faults, system
<1>4. ASSUME NEW c \in Clients, Send(c)
      PROVE  UNCHANGED <<new, sock, ports, platform>>
  BY <1>4, SendKeeps
<1>5. ASSUME NEW c \in Clients, NEW t \in Types, NewSocket(c, t)
      PROVE  UNCHANGED <<sock, ports, platform>> /\ new'.fd = -1
  BY <1>5 DEF NewSocket, system
<1>6. CASE RawSocket
  <2>1. sock' = sock /\ ports' = ports
    BY <1>6 DEF RawSocket, system
  <2>2. new'.fd # GotPorts
    <3>1. PICK fd \in Fds : new' = [new EXCEPT !.fd = fd]
      BY <1>6 DEF RawSocket, Available
    <3>2. new \in SockRecords /\ fd # GotPorts
      BY <1>6, <3>1, NewKeeps, NullIsNoSocket DEF Open
    <3> QED
      BY <3>1, <3>2 DEF SockRecords
  <2> QED
    BY <1>1, <2>1, <2>2
<1>7. CASE RawSocketFails
  <2>1. new' = [new EXCEPT !.fd = -1] /\ sock' = sock /\ ports' = ports
    BY <1>7 DEF RawSocketFails, system
  <2>2. new \in SockRecords
    BY <1>7, NewKeeps DEF Open
  <2> QED
    BY <1>1, <1>2, <2>1, <2>2 DEF SockRecords
<1>8. CASE RawSocketLfOs
  <2>1. /\ sock' = sock /\ platform = "LF-OS"
        /\ ports' = TRUE \/ (ports' = ports /\ new' = [new EXCEPT !.fd = PortsRefused])
    BY <1>8 DEF RawSocketLfOs
  <2>2. new \in SockRecords
    BY <1>8, NewKeeps DEF Open
  <2> QED
    BY <1>1, <1>2, <2>1, <2>2 DEF SockRecords
<1>9. CASE IpOptions \/ LinkOptions
  <2>1. sock' = sock /\ ports' = ports /\ (new' = new \/ new' = Null)
    BY <1>9 DEF IpOptions, LinkOptions, GiveUp, system
  <2> QED
    BY <1>1, <1>2, <2>1
<1>10. CASE LinkHeader
  <2>1. PICK s \in {new, [new EXCEPT !.eth_header = TRUE]} :
          sock' = [sock EXCEPT ![for] = s]
    BY <1>10 DEF LinkHeader, CreateEthHdr, ReturnSocket
  <2>2. s.fd = new.fd
    BY <1>10, <2>1, NewKeeps DEF Open, SockRecords
  <2>3. new' = Null /\ ports' = ports
    BY <1>10 DEF LinkHeader, system
  <2>4. \A c \in Clients : sock'[c].fd = GotPorts => ports
    BY <2>1, <2>2 DEF SInv, TypeOK
  <2> QED
    BY <1>1, <1>2, <2>3, <2>4
<1> QED
  BY <1>1, <1>2, <1>3, <1>4, <1>5, <1>6, <1>7, <1>8, <1>9, <1>10 DEF Next, Open

\* A send on SLIP that kills the program found no ports.
LEMMA PortsShapeStep ==
  ASSUME PartsInv, CallShape, PortsShape, [NetlibNext]_netlibVars
  PROVE  PortsShape'
<1>1. /\ ports' => platform' = "LF-OS"
      /\ new'.fd = GotPorts \/ (\E c \in Clients : sock'[c].fd = GotPorts) => ports'
  BY SocketSteps, PortsKept DEF PartsInv, PortsShape
<1> SUFFICES ASSUME u_pc' = "dead", pc' = "dead", link' = "SLIP" PROVE ~ports'
  BY <1>1 DEF PortsShape
<1>2. CASE UNCHANGED <<u_pc, pc, link, ports>>
  BY <1>2 DEF PortsShape
<1>3. CASE NetlibClient
  <2>1. u_pc = "idle" /\ u_pc' \in {u_pc, "create_udp_hdr"}
    BY <1>3 DEF NetlibClient, OpenSocket, MainExits, Initialise, InitialiseDies,
         MayInitialise, MainAddresses, UdpSendCall, MainCheck, ClientRuns, udpVars,
         U!Call, U!Goto
  <2> QED
    BY <2>1
<1>4. CASE NetlibLibrary
  <2> USE DEF Within
  <2>1. CASE Opening
    <3>1. u_pc = "idle"
      BY <2>1, NewKeeps DEF Opening, CallShape, OpeningSteps, PartsInv
    <3> QED
      BY <2>1, <3>1 DEF Opening, udpVars
  <2>2. CASE SearchId \/ SearchOn
    BY <1>2, <2>2 DEF SearchId, SearchOn, udpVars, vars, system
  <2>3. CASE Udp \/ IdFound \/ PacketMemory \/ FrameMemory
    <3>1. UNCHANGED vars /\ u_pc \notin {"idle", "dead"}
      BY <2>3, UdpKeeps DEF Udp, IdFound, PacketMemory, FrameMemory
    <3> QED
      BY <3>1 DEF CallShape, vars
  <2>4. CASE UdpReturns \/ NoHdrMemory \/ NoPacketMemory \/ IdReturned
    BY <2>4 DEF UdpReturns, NoHdrMemory, NoPacketMemory, IdReturned, U!FreePacket,
         U!Ipv4HdrAllocFails, U!IpPacketAllocFails, U!IpFree, U!Goto
  <2>5. CASE Linked
    <3>1. LinkTx
      BY <2>5 DEF Linked
    <3>2. link = "SLIP" /\ ~SlipFaults(using) => u_pc' # "dead"
      BY <3>1, LinkTxResults
    <3>3. link' = link /\ (SlipFaults(using) => ~ports /\ ports' = ports)
      BY <3>1, LinkTxResults DEF SlipFaults, Faults, system
    <3> QED
      BY <3>2, <3>3
  <2> QED
    BY <1>4, <2>1, <2>2, <2>3, <2>4, <2>5 DEF NetlibLibrary
<1> QED
  BY <1>2, <1>3, <1>4 DEF NetlibNext, netlibVars, vars, udpVars, system

\* The steps of a send are steps of a running call, and keep its link.
LEMMA LibraryRuns ==
  ASSUME NetlibLibrary, ~Opening
  PROVE  /\ UNCHANGED udpVars \/ u_pc \notin {"idle", "dead"}
         /\ link' = link /\ UNCHANGED <<new, for, sock, mainVars, using>>
<1> USE DEF Within
<1>1. CASE SearchId \/ SearchOn
  BY <1>1 DEF SearchId, SearchOn, udpVars, vars
<1>2. CASE Udp \/ IdFound \/ PacketMemory \/ FrameMemory
  BY <1>2, UdpKeeps DEF Udp, IdFound, PacketMemory, FrameMemory, vars
<1>3. CASE UdpReturns \/ NoHdrMemory \/ NoPacketMemory \/ IdReturned
  BY <1>3 DEF UdpReturns, NoHdrMemory, NoPacketMemory, IdReturned, U!FreePacket,
       U!Ipv4HdrAllocFails, U!IpPacketAllocFails, U!IpFree, U!arguments, vars
<1>4. CASE Linked
  <2>1. LinkTx /\ UNCHANGED <<mainVars, using>>
    BY <1>4 DEF Linked
  <2>2. Send(using)
    BY <2>1 DEF LinkTx, Send
  <2> QED
    BY <2>1, <2>2, LinkTxResults, SendKeeps
<1> QED
  BY <1>1, <1>2, <1>3, <1>4 DEF NetlibLibrary

\* main has the one socket, for SLIP, and is where its calls have brought it.
LEMMA MainShapeStep ==
  ASSUME PartsInv, CallShape, MainShape, [NetlibNext]_netlibVars
  PROVE  MainShape'
<1>1. MainSocket \in Clients
  BY DEF MainSocket, PartsInv
<1>2. CASE UNCHANGED netlibVars
  BY <1>2 DEF netlibVars, vars, udpVars, mainVars, MainShape
<1>3. CASE NetlibClient
  <2>1. ASSUME NEW c \in Clients, NEW t \in Types, OpenSocket(c, t)
        PROVE  MainShape'
    <3>1. /\ sock' = sock /\ for' = c /\ new'.type = t
          /\ line' # "any" => line # "any" /\ line' = "opened"
                                /\ c = MainSocket /\ t = "SLIP"
      BY <2>1 DEF OpenSocket, NewSocket, AsMain, At
    <3> QED
      BY <3>1 DEF MainShape
  <2>2. ASSUME NEW c \in Clients, NEW n \in PayloadLens, UdpSendCall(c, n)
        PROVE  MainShape'
    <3>1. /\ UNCHANGED <<new, for, sock>> /\ link' = sock[c].type /\ using' = c
          /\ sock[c] # Null
          /\ line' # "any" => line # "any" /\ line' = "udp_send" /\ c = MainSocket
      BY <2>2 DEF UdpSendCall, U!Call, AsMain, At, vars
    <3> QED
      BY <3>1 DEF MainShape
  <2>3. CASE MainCheck
    <3>1. /\ UNCHANGED <<vars, udpVars, using>> /\ u_pc = "idle"
          /\ line = "udp_send" /\ reported' = (ret = U!Failure)
      BY <2>3 DEF MainCheck, ClientRuns
    <3> QED
      BY <3>1 DEF MainShape, vars, udpVars
  <2>4. CASE MainExits \/ Initialise \/ InitialiseDies \/ MainAddresses
    <3>1. /\ UNCHANGED <<new, for, sock>>
          /\ line' # "any" => line # "any"
          /\ line' \notin {"udp_send", "spin"}
      BY <2>4 DEF MainExits, Initialise, InitialiseDies, MainAddresses, At, Faults,
           vars, MayInitialise, MainShape
    <3> QED
      BY <3>1 DEF MainShape
  <2> QED
    BY <1>3, <2>1, <2>2, <2>3, <2>4 DEF NetlibClient
<1>4. CASE NetlibLibrary
  <2>1. CASE Opening
    <3>1. SInv /\ Open /\ UNCHANGED <<udpVars, mainVars, using>>
      BY <2>1 DEF Opening, Within, PartsInv
    <3>2. new # Null
      BY <3>1, NewKeeps, NullIsNoSocket
    <3>3. line # "any" => /\ new' # Null => new'.type = "SLIP" /\ for' = MainSocket
                          /\ sock'[MainSocket] # Null => sock'[MainSocket].type = "SLIP"
      BY <1>1, <3>1, <3>2, NewKeeps DEF MainShape, SInv, TypeOK
    <3> QED
      BY <3>1, <3>3 DEF MainShape, udpVars, mainVars
  <2>2. CASE ~Opening
    <3>1. /\ UNCHANGED udpVars \/ u_pc \notin {"idle", "dead"}
          /\ link' = link /\ UNCHANGED <<new, for, sock, mainVars, using>>
      BY <1>4, <2>2, LibraryRuns
    <3> QED
      BY <3>1 DEF MainShape, udpVars, mainVars
  <2> QED
    BY <2>1, <2>2
<1> QED
  BY <1>2, <1>3, <1>4 DEF NetlibNext

-----------------------------------------------------------------------------
(* The allocator in a send.                                                *)

\* The other variables keep the values a client and a call may give them.
LEMMA ClientTypesStep ==
  ASSUME PartsInv, NetlibTypeOK, [NetlibNext]_netlibVars
  PROVE  /\ (line \in {"any", "new_socket", "opened", "ip_initialise", "addresses",
                       "udp_send", "spin", "exit"})'
         /\ reported' \in BOOLEAN /\ failures' \in 0 .. MaxFailures
<1>1. MaxFailures \in Nat
  BY NetlibAssumption
<1>2. CASE UNCHANGED netlibVars
  BY <1>2 DEF netlibVars, mainVars, NetlibTypeOK
<1>3. CASE NetlibClient
  BY <1>3 DEF NetlibClient, OpenSocket, MainExits, Initialise, InitialiseDies,
       MainAddresses, UdpSendCall, MainCheck, At, NetlibTypeOK
<1>4. CASE NetlibLibrary
  <2>1. UNCHANGED mainVars
    BY <1>4 DEF NetlibLibrary, Opening, Udp, UdpReturns, SearchId, SearchOn, IdFound,
         NoHdrMemory, PacketMemory, NoPacketMemory, FrameMemory, Linked, IdReturned,
         Within
  <2>2. failures' = failures \/ (failures < MaxFailures /\ failures' = failures + 1)
    BY <1>4 DEF NetlibLibrary, Opening, Udp, UdpReturns, SearchId, SearchOn, IdFound,
         NoHdrMemory, PacketMemory, NoPacketMemory, FrameMemory, Linked, IdReturned
  <2> QED
    BY <1>1, <2>1, <2>2 DEF mainVars, NetlibTypeOK
<1> QED
  BY <1>2, <1>3, <1>4 DEF NetlibNext

\* Where the allocator is tells where the send path is.
Together ==
  /\ id_pc = "probe" => u_pc = "create_ipv4_hdr"
  /\ id_pc = "created" <=>
       \/ u_pc \in {"ip_packet", "fill_packet", "link_tx", "sendto", "ip_free"}
       \/ u_pc = "dead" /\ hdr["datagram"] # NoId

\* The two parts stay together: the allocator's steps are those of a call of the
\* send path that creates its header or frees it.
LEMMA IdShapeStep ==
  ASSUME PartsInv, Together, IdShape, [NetlibNext]_netlibVars
  PROVE  Together' /\ IdShape'
<1>1. /\ hdr \in [{"datagram"} -> I!Ids \cup {NoId}] /\ caller = "datagram"
      /\ NoId \notin I!Ids /\ entry \in I!Ids
      /\ id_pc \in {"idle", "probe", "created"}
  BY PartsAssumption DEF PartsInv, I!IInv, I!TypeOK, I!NoIdAssumption
<1> USE DEF Together, IdShape
<1>2. CASE UNCHANGED netlibVars
  BY <1>2 DEF netlibVars, udpVars, idVars
<1>3. CASE NetlibClient
  <2>1. CASE UNCHANGED <<udpVars, idVars>>
    BY <2>1 DEF udpVars, idVars
  <2>2. CASE Initialise
    BY <2>2 DEF Initialise, I!IpInitialise, udpVars
  <2>3. ASSUME NEW c \in Clients, NEW n \in PayloadLens, UdpSendCall(c, n)
        PROVE  Together' /\ IdShape'
    BY <2>3 DEF UdpSendCall, ClientRuns, U!Call, U!Goto, idVars
  <2> QED
    BY <1>3, <2>1, <2>2, <2>3 DEF NetlibClient, OpenSocket, MainExits, InitialiseDies,
         MainAddresses, MainCheck
<1>4. CASE NetlibLibrary
  <2> USE DEF Within
  <2>1. CASE Opening
    BY <2>1 DEF Opening, udpVars, idVars
  <2>2. CASE Udp
    BY <2>2 DEF Udp, U!UdpLayer, U!CreateUdpHdr, U!ReallocInPlace, U!ReallocMoves,
         U!ReallocFails, U!ReallocZero, U!CopyPayload, U!FreePacket, U!Goto,
         U!GotoUnless, idVars
  <2>3. CASE UdpReturns \/ PacketMemory \/ FrameMemory \/ NoHdrMemory
    BY <2>3 DEF UdpReturns, PacketMemory, FrameMemory, NoHdrMemory, U!FreePacket,
         U!IpPacketAlloc, U!FillIpPacket, U!EthAlloc, U!Ipv4HdrAllocFails, U!Goto,
         U!GotoUnless, idVars
  <2>4. CASE SearchId
    BY <2>4 DEF SearchId, I!CreateHdr, udpVars
  <2>5. CASE SearchOn
    BY <2>5 DEF SearchOn, I!MarkZero, I!SkipId, I!libraryVars, udpVars
  <2>6. CASE IdFound
    <3>1. /\ id_pc = "probe" /\ id_pc' = "created" /\ u_pc' = "ip_packet"
          /\ hdr' = [hdr EXCEPT ![caller] = entry]
      BY <2>6 DEF IdFound, I!TakeId, U!CreateIpv4Hdr, U!Goto
    <3> QED
      BY <1>1, <3>1
  <2>7. CASE NoPacketMemory \/ IdReturned
    <3>1. /\ id_pc' = "idle" /\ u_pc' = "free_packet"
          /\ hdr' = [hdr EXCEPT ![caller] = NoId]
      BY <2>7 DEF NoPacketMemory, IdReturned, I!PacketAllocFails, I!LinkTxAndFree,
           U!IpPacketAllocFails, U!IpFree, U!Goto
    <3> QED
      BY <1>1, <3>1
  <2>8. CASE Linked
    BY <2>8, LinkTxResults DEF Linked, idVars
  <2> QED
    BY <1>4, <2>1, <2>2, <2>3, <2>4, <2>5, <2>6, <2>7, <2>8 DEF NetlibLibrary
<1> QED
  BY <1>2, <1>3, <1>4 DEF NetlibNext

\* IDs and failures are counted, so they are finitely many.
LEMMA OrphansFinite ==
  ASSUME PartsInv
  PROVE  IsFiniteSet(orphans) /\ Cardinality(orphans) \in Nat
<1>1. IsFiniteSet(I!Ids)
  BY FS_Interval, PartsAssumption DEF I!Ids, I!IdSpaceAssumption
<1>2. orphans \subseteq I!Ids
  BY DEF PartsInv, I!IInv, I!TypeOK
<1>3. IsFiniteSet(orphans)
  BY <1>1, <1>2, FS_Subset
<1> QED
  BY <1>3, FS_CardinalityType

\* No loss is covered by any number of failures.
LEMMA NoneLost ==
  ASSUME NEW c, NEW n \in Nat, NEW p \in {0, 1}, c = 0
  PROVE  c <= n + p
OBVIOUS

\* An ID is lost by a call that will return -1, and counted when it returns.
LEMMA LossShapeStep ==
  ASSUME PartsInv, NetlibTypeOK, LossShape, [NetlibNext]_netlibVars
  PROVE  LossShape'
<1>1. /\ failures \in Nat /\ Cardinality(orphans) \in Nat /\ IsFiniteSet(orphans)
      /\ MaxFailures \in Nat
  BY OrphansFinite, NetlibAssumption DEF NetlibTypeOK
<1>2. ASSUME UNCHANGED <<orphans, failures>>,
             Pending = 1 => UNCHANGED <<u_pc, ret>>
      PROVE  LossShape'
  <2>1. Pending \in {0, 1} /\ Pending' \in {0, 1} /\ (Pending = 1 => Pending' = 1)
    BY <1>2 DEF Pending
  <2> QED
    BY <1>1, <1>2, <2>1 DEF LossShape
<1>3. Pending = 1 => u_pc = "free_packet"
  BY DEF Pending
<1>4. CASE UNCHANGED netlibVars
  BY <1>2, <1>4 DEF netlibVars, udpVars, idVars
<1>5. CASE NetlibClient
  <2>1. failures' = failures
    BY <1>5 DEF NetlibClient, OpenSocket, MainExits, Initialise, InitialiseDies,
         MainAddresses, UdpSendCall, MainCheck
  <2>2. CASE Initialise
    <3>1. orphans' = {} /\ UNCHANGED <<u_pc, ret>>
      BY <2>2 DEF Initialise, I!IpInitialise, udpVars
    <3>2. Cardinality(orphans') = 0 /\ Pending' \in {0, 1}
      BY <3>1, FS_EmptySet DEF Pending
    <3>3. failures' \in Nat
      BY <1>1, <2>1
    <3>4. Cardinality(orphans') <= failures' + Pending'
      BY <3>2, <3>3, NoneLost
    <3> QED
      BY <3>4 DEF LossShape
  <2>3. ASSUME NEW c \in Clients, NEW n \in PayloadLens, UdpSendCall(c, n)
        PROVE  LossShape'
    BY <1>2, <1>3, <2>1, <2>3 DEF UdpSendCall, U!Call, idVars
  <2>4. CASE UNCHANGED <<udpVars, idVars>>
    BY <1>2, <2>1, <2>4 DEF udpVars, idVars
  <2> QED
    BY <1>5, <2>2, <2>3, <2>4 DEF NetlibClient, OpenSocket, MainExits, InitialiseDies,
         MainAddresses, MainCheck
<1>6. CASE NetlibLibrary
  <2>1. CASE UdpReturns
    <3>1. /\ u_pc = "free_packet" /\ u_pc' = "idle" /\ orphans' = orphans
          /\ failures' = IF ret = U!Failure /\ failures < MaxFailures
                         THEN failures + 1 ELSE failures
      BY <2>1 DEF UdpReturns, Within, U!FreePacket, U!Goto, idVars
    <3>2. Pending' = 0 /\ Pending = IF ret = U!Failure THEN 1 ELSE 0
      BY <3>1 DEF Pending
    <3> QED
      BY <1>1, <3>1, <3>2 DEF LossShape
  <2>2. CASE NoPacketMemory
    <3>1. /\ u_pc = "ip_packet" /\ u_pc' = "free_packet" /\ ret' = U!Failure
          /\ orphans' = orphans \cup {hdr[caller]} /\ failures' = failures
      BY <2>2 DEF NoPacketMemory, Within, U!IpPacketAllocFails, U!Goto,
           I!PacketAllocFails
    <3>2. Pending = 0 /\ Pending' = 1
      BY <3>1 DEF Pending, U!Failure
    <3>3. Cardinality(orphans') <= Cardinality(orphans) + 1 /\ Cardinality(orphans') \in Nat
      BY <1>1, <3>1, FS_AddElement
    <3> QED
      BY <1>1, <3>1, <3>2, <3>3 DEF LossShape
  <2>3. CASE ~UdpReturns /\ ~NoPacketMemory
    <3>1. UNCHANGED <<orphans, failures>>
      BY <1>6, <2>3 DEF NetlibLibrary, Opening, Udp, SearchId, SearchOn, IdFound,
           NoHdrMemory, PacketMemory, FrameMemory, Linked, IdReturned,
           I!CreateHdr, I!MarkZero, I!SkipId, I!TakeId, I!LinkTxAndFree, Within, idVars
    <3>2. u_pc # "free_packet" \/ UNCHANGED <<u_pc, ret>>
      <4>1. CASE Opening \/ SearchId \/ SearchOn
        BY <4>1 DEF Opening, SearchId, SearchOn, Within, udpVars
      <4>2. CASE Udp \/ IdFound \/ PacketMemory \/ FrameMemory
        BY <4>2 DEF Udp, IdFound, PacketMemory, FrameMemory, Within, U!CreateIpv4Hdr,
             U!IpPacketAlloc, U!FillIpPacket, U!EthAlloc
      <4>3. CASE NoHdrMemory \/ IdReturned
        BY <4>3 DEF NoHdrMemory, IdReturned, Within, U!Ipv4HdrAllocFails, U!IpFree
      <4>4. CASE Linked
        BY <4>4, LinkTxResults DEF Linked, Within
      <4> QED
        BY <1>6, <2>3, <4>1, <4>2, <4>3, <4>4 DEF NetlibLibrary
    <3> QED
      BY <1>2, <1>3, <3>1, <3>2
  <2> QED
    BY <2>1, <2>2, <2>3
<1> QED
  BY <1>4, <1>5, <1>6 DEF NetlibNext

-----------------------------------------------------------------------------
(* The invariant of the program.                                           *)

\* Before main has run, no part has done anything.
LEMMA InitNetlibInv ==
  ASSUME NetlibInit, PartsInv
  PROVE  NetlibInv
<1>1. /\ pc = "idle" /\ new = Null /\ ports = FALSE
      /\ \A c \in Clients : sock[c] = Null
  BY DEF NetlibInit, Init
<1>2. /\ u_pc = "idle" /\ link = "other" /\ sent = 0 /\ wire = U!NoFrame /\ ret = 0
  BY DEF NetlibInit, U!Init
<1>3. id_pc = "idle" /\ hdr = [s \in {"datagram"} |-> NoId] /\ orphans = {}
  BY DEF NetlibInit, I!Init
<1>4. /\ line \in {"any", "new_socket"} /\ reported = FALSE /\ failures = 0
      /\ MainSocket \in Clients
  BY DEF NetlibInit, Init, MainSocket
<1>5. NetlibTypeOK
  <2>1. TypeOK /\ U!TypeOK /\ I!TypeOK /\ using \in Clients
    BY DEF PartsInv, SInv, I!IInv
  <2>2. 0 \in 0 .. MaxFailures
    BY NetlibAssumption
  <2>3. Together
    BY <1>2, <1>3 DEF Together
  <2> QED
    BY <1>4, <2>1, <2>2, <2>3 DEF NetlibTypeOK, Together
<1>6. CallShape
  BY <1>1, <1>2 DEF CallShape
<1>7. PortsShape
  BY <1>1, <1>2 DEF PortsShape, Null, GotPorts
<1>8. MainShape
  BY <1>1, <1>4 DEF MainShape
<1>9. IdShape
  BY <1>3 DEF IdShape
<1>10. LossShape
  BY <1>2, <1>3, <1>4, FS_EmptySet DEF LossShape, Pending
<1> QED
  BY <1>5, <1>6, <1>7, <1>8, <1>9, <1>10 DEF NetlibInv

\* Each step of the program preserves the invariant, given those of the parts.
LEMMA NetlibInvStep ==
  ASSUME PartsInv, PartsInv', NetlibInv, [NetlibNext]_netlibVars
  PROVE  NetlibInv'
<1>1. /\ NetlibTypeOK /\ CallShape /\ PortsShape /\ MainShape /\ IdShape /\ LossShape
      /\ Together
  BY DEF NetlibInv, NetlibTypeOK, Together
<1>2. CallShape' /\ PortsShape' /\ MainShape'
  BY <1>1, CallShapeStep, PortsShapeStep, MainShapeStep
<1>3. IdShape' /\ Together' /\ LossShape'
  BY <1>1, IdShapeStep, LossShapeStep
<1>4. NetlibTypeOK'
  <2>1. TypeOK' /\ U!TypeOK' /\ I!TypeOK' /\ using' \in Clients
    BY DEF PartsInv, SInv, I!IInv
  <2> QED
    BY <1>1, <1>3, <2>1, ClientTypesStep DEF NetlibTypeOK, Together
<1> QED
  BY <1>2, <1>3, <1>4 DEF NetlibInv

\* The parts are what their modules say and know of each other what NetlibInv
\* says, whatever their calls, for any number of clients, IDs and payloads.
THEOREM ProgramInvariance == NetlibSpec => [](PartsInv /\ NetlibInv)
<1>1. NetlibInit /\ PartsInv => NetlibInv
  BY InitNetlibInv
<1>2. PartsInv /\ PartsInv' /\ NetlibInv /\ [NetlibNext]_netlibVars => NetlibInv'
  BY NetlibInvStep
<1> QED
  BY <1>1, <1>2, PartsInvariance, PTL DEF NetlibSpec

\* What new_socket stored decides what udp_send can do on the socket.
THEOREM SocketsTellOutcome == NetlibSpec => []SocketTellsOutcome
<1>1. PartsInv /\ NetlibInv => SocketTellsOutcome
  <2> SUFFICES ASSUME PartsInv, NetlibInv PROVE SocketTellsOutcome
    OBVIOUS
  <2>1. ASSUME u_pc = "idle", ret \notin {0, U!Failure, U!MaxU16}
        PROVE  \/ /\ sock[using].type = "ETH" /\ sock[using].eth_header
                  /\ sock[using].fd \in open
                  /\ \A c \in Clients \ {using} : sock[c].fd # sock[using].fd
               \/ sock[using].type = "SLIP" /\ ports
    <3>1. wire # U!NoFrame
      BY <2>1 DEF PartsInv, U!SentShape
    <3>2. /\ link = sock[using].type
          /\ \/ link = "ETH" /\ sock[using].eth_header /\ sock[using].fd \in open
             \/ link = "SLIP" /\ ports
      BY <3>1 DEF NetlibInv, CallShape
    <3>3. sock[using].fd \in open =>
            \A c \in Clients \ {using} : sock[c].fd # sock[using].fd
      BY DEF PartsInv, SInv, TypeOK, DescriptorsAccounted
    <3> QED
      BY <3>2, <3>3
  <2>2. ASSUME u_pc = "dead", pc = "dead", sock[using].type = "SLIP"
        PROVE  \A c \in Clients : sock[c].fd # GotPorts
    <3>1. link = "SLIP"
      BY <2>2 DEF NetlibInv, CallShape
    <3> QED
      BY <2>2, <3>1 DEF NetlibInv, PortsShape
  <2> QED
    BY <2>1, <2>2 DEF SocketTellsOutcome
<1> QED
  BY <1>1, ProgramInvariance, PTL

\* main gets to its last line with a datagram sent on LF-OS alone, and prints no
\* error then.
THEOREM MainKnowsOutcome == NetlibSpec => []MainOutcome
<1>1. PartsInv /\ NetlibInv => MainOutcome
  <2> SUFFICES ASSUME PartsInv, NetlibInv, line = "spin"
               PROVE  /\ wire # U!NoFrame => platform = "LF-OS" /\ ports /\ ~reported
                      /\ wire = U!NoFrame /\ ~reported => ret = 0
    BY DEF MainOutcome
  <2>1. link = "SLIP" /\ u_pc = "idle" /\ reported = (ret = U!Failure)
    BY DEF NetlibInv, MainShape
  <2>2. ASSUME wire # U!NoFrame PROVE platform = "LF-OS" /\ ports /\ ~reported
    <3>1. ports /\ platform = "LF-OS"
      BY <2>1, <2>2 DEF NetlibInv, CallShape, PortsShape
    <3>2. ret \in U!U16
      BY <2>1, <2>2 DEF PartsInv, U!SentShape
    <3>3. ret # U!Failure
      <4>1. \A x \in U!U16 : x # -1
        BY DEF U!U16
      <4> QED
        BY <3>2, <4>1 DEF U!Failure
    <3> QED
      BY <2>1, <3>1, <3>3
  <2>3. ASSUME wire = U!NoFrame, ~reported PROVE ret = 0
    BY <2>1, <2>3 DEF NetlibInv, CallShape
  <2> QED
    BY <2>2, <2>3
<1> QED
  BY <1>1, ProgramInvariance, PTL

\* The IDs a search can reach from its entry, without 0, are at least as many as
\* the smallest residue class modulo 3 has.
LEMMA ClassCounted ==
  ASSUME NEW e \in I!Ids
  PROVE  /\ IsFiniteSet(I!Reachable(e))
         /\ Cardinality(I!Reachable(e)) >= ClassSize - 1
<1>1. /\ IdSpace \in Nat /\ IdSpace > 3 /\ IdSpace = 3 * ClassSize + 1
      /\ ClassSize \in Nat /\ ClassSize >= 1
  BY PartsAssumption DEF I!IdSpaceAssumption, ClassSize
<1>2. I!Reachable(e) \subseteq I!Ids
  BY <1>1 DEF I!Reachable, I!Ids
<1>3. IsFiniteSet(I!Reachable(e))
  <2>1. IsFiniteSet(I!Ids)
    BY <1>1, FS_Interval DEF I!Ids
  <2> QED
    BY <1>2, <2>1, FS_Subset
<1> DEFINE S == 1 .. (ClassSize - 1)
           r == e % 3
           f == [k \in S |-> 3 * k + r]
<1>4. r \in 0 .. 2
  BY <1>1 DEF I!Ids
<1>5. ASSUME NEW k \in S
      PROVE  3 * k + r \in I!Reachable(e)
  <2>1. 3 * k + r \in 0 .. (IdSpace - 2) /\ 3 * k + r # 0
    BY <1>1, <1>4
  <2>2. (3 * k + r) % 3 = r
    BY <1>4
  <2> QED
    BY <2>1, <2>2 DEF I!Reachable
<1>6. f \in Injection(S, I!Reachable(e))
  <2>1. f \in [S -> I!Reachable(e)]
    BY <1>5
  <2>2. \A a, b \in S : f[a] = f[b] => a = b
    BY <1>1, <1>4
  <2> QED
    BY <2>1, <2>2 DEF Injection, IsInjective
<1>7. Cardinality(S) = ClassSize - 1
  BY <1>1, FS_Interval
<1>8. Cardinality(S) <= Cardinality(I!Reachable(e))
  BY <1>3, <1>6, FS_Injection
<1>9. Cardinality(I!Reachable(e)) \in Nat
  BY <1>3, FS_CardinalityType
<1> QED
  BY <1>1, <1>3, <1>7, <1>8, <1>9

\* A search that never ends has been paid for by as many failed calls as the
\* class has IDs, in a bitmap of any size.
THEOREM HangsTakeFailures == NetlibSpec => []HangTakesFailures
<1>1. PartsInv /\ NetlibInv => HangTakesFailures
  <2> SUFFICES ASSUME PartsInv, NetlibInv, I!Exhausted
               PROVE  failures >= ClassSize - 1
    BY DEF HangTakesFailures
  <2>1. /\ id_pc = "probe" /\ u_pc = "create_ipv4_hdr"
        /\ I!Reachable(entry) \subseteq used /\ entry \in I!Ids
    BY DEF I!Exhausted, NetlibInv, NetlibTypeOK, PartsInv, I!IInv, I!TypeOK
  <2>2. I!Reachable(entry) \subseteq orphans
    <3>1. bitmap = "live" /\ hdr["datagram"] = NoId
      BY <2>1 DEF PartsInv, I!IInv, I!CallerHasHeader, I!TypeOK
    <3>2. I!HeldIds = {}
      BY <3>1 DEF I!HeldIds
    <3>3. used \ {0} = orphans
      BY <3>1, <3>2 DEF PartsInv, I!IInv, I!BitsAccounted
    <3> QED
      BY <2>1, <3>3 DEF I!Reachable
  <2>3. Cardinality(I!Reachable(entry)) <= Cardinality(orphans)
    BY <2>2, OrphansFinite, FS_Subset
  <2>4. /\ Cardinality(orphans) \in Nat /\ Cardinality(I!Reachable(entry)) \in Nat
        /\ Cardinality(I!Reachable(entry)) >= ClassSize - 1
    BY <2>1, OrphansFinite, ClassCounted, FS_CardinalityType
  <2>5. /\ failures \in 0 .. MaxFailures /\ MaxFailures \in Nat
        /\ MaxFailures >= ClassSize - 1 /\ Pending = 0
    BY <2>1, NetlibAssumption DEF NetlibInv, NetlibTypeOK, Pending
  <2>6. ClassSize \in Int
    BY PartsAssumption DEF I!IdSpaceAssumption, ClassSize
  <2> QED
    BY <2>3, <2>4, <2>5, <2>6 DEF NetlibInv, LossShape
<1> QED
  BY <1>1, ProgramInvariance, PTL
=============================================================================
