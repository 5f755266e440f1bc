---------------------------- MODULE Socket_proofs ----------------------------
(***************************************************************************)
(* Proofs about Socket, for any number of clients and of descriptors: what *)
(* new_socket leaves behind on each of its paths, and where a client ends  *)
(* up whose failures have cost it every descriptor.                        *)
(***************************************************************************)
EXTENDS Socket, TLAPS

\* No socket is one that is not there, and no descriptor one of the results
\* raw_socket has instead.
LEMMA NullIsNoSocket ==
  /\ Null \notin SockRecords
  /\ Null.fd = -2 /\ ~Null.eth_header
  /\ -2 \notin Fds /\ -1 \notin Fds /\ GotPorts \notin Fds /\ PortsRefused \notin Fds
BY FdsAssumption DEF Null, SockRecords, GotPorts, PortsRefused

\* A descriptor is kept by the socket that has it.
LEMMA Kept ==
  \A fd : fd \in KeptFds <=> fd \in Fds /\ \E c \in Clients : sock[c].fd = fd
BY DEF KeptFds

\* No socket, no block and no descriptor before the first call.
LEMMA InitSInv == Init => SInv
<1> SUFFICES ASSUME Init PROVE SInv
  OBVIOUS
<1>1. /\ pc = "idle" /\ new = Null
      /\ \A c \in Clients : sock[c] = Null /\ blocks[c] = {}
  BY DEF Init
<1>2. TypeOK
  <2>1. sock \in [Clients -> SockRecords \cup {Null}]
    BY DEF Init
  <2>2. new \in SockRecords \cup {Null}
    BY <1>1
  <2> QED
    BY <2>1, <2>2 DEF Init, TypeOK
<1>3. NewShape
  BY <1>1, NullIsNoSocket DEF NewShape, OpeningSteps
<1>4. BlocksShape
  BY <1>1 DEF BlocksShape, OpeningSteps, Needs
<1>5. DescriptorsAccounted
  <2>1. \A c \in Clients : sock[c].fd \notin Fds
    BY <1>1, NullIsNoSocket
  <2>2. KeptFds = {}
    BY <2>1 DEF KeptFds
  <2>3. new.fd \notin Fds
    BY <1>1, NullIsNoSocket
  <2> QED
    BY <2>1, <2>2, <2>3 DEF DescriptorsAccounted, Init
<1> QED
  BY <1>2, <1>3, <1>4, <1>5 DEF SInv

\* The descriptors stay accounted for when only blocks and the step change.
LEMMA SameDescriptors ==
  ASSUME DescriptorsAccounted, UNCHANGED <<sock, open, lost>>, new'.fd = new.fd
  PROVE  DescriptorsAccounted'
BY DEF DescriptorsAccounted, KeptFds

\* A call of new_socket, up to raw_socket, has its first block.
LEMMA NewSocketStep ==
  ASSUME SInv, NEW c \in Clients, NEW t \in Types, NewSocket(c, t)
  PROVE  SInv'
<1> USE DEF NewSocket, Goto, system
<1>1. TypeOK'
  BY DEF SInv, TypeOK, SockRecords
<1>2. NewShape'
  BY NullIsNoSocket DEF SInv, NewShape, OpeningSteps, Null
<1>3. BlocksShape'
  BY DEF SInv, TypeOK, BlocksShape, Taken, OpeningSteps, Needs
<1>4. DescriptorsAccounted'
  <2>1. new.fd \notin Fds /\ new'.fd \notin Fds
    BY NullIsNoSocket DEF SInv, NewShape, OpeningSteps
  <2> QED
    BY <2>1 DEF SInv, DescriptorsAccounted, KeptFds
<1> QED
  BY <1>1, <1>2, <1>3, <1>4 DEF SInv

\* The descriptor of socket() was not open, so it is nobody's.
LEMMA RawSocketStep == SInv /\ RawSocket => SInv'
<1> SUFFICES ASSUME SInv, RawSocket PROVE SInv'
  OBVIOUS
<1> USE DEF RawSocket, Goto, system
<1>1. PICK fd \in Fds \ open : /\ new' = [new EXCEPT !.fd = fd]
                               /\ open' = open \cup {fd}
  BY DEF Available
<1>2. new \in SockRecords /\ new.fd = -1 /\ ~new.eth_header /\ sock[for] = Null
  BY DEF SInv, TypeOK, NewShape, OpeningSteps
<1>3. new' \in SockRecords /\ new'.fd = fd /\ ~new'.eth_header
  BY <1>1, <1>2 DEF SockRecords
<1>4. TypeOK'
  BY <1>1, <1>3 DEF SInv, TypeOK
<1>5. NewShape'
  BY <1>2, <1>3, NullIsNoSocket DEF NewShape, OpeningSteps
<1>6. BlocksShape'
  BY DEF SInv, BlocksShape, Taken, OpeningSteps, Needs
<1>7. DescriptorsAccounted'
  BY <1>1, <1>2, <1>3, NullIsNoSocket DEF SInv, TypeOK, DescriptorsAccounted, KeptFds
<1> QED
  BY <1>4, <1>5, <1>6, <1>7 DEF SInv

\* raw_socket without a descriptor: its result is no descriptor of the process.
LEMMA NoDescriptorStep ==
  SInv /\ (RawSocketFails \/ RawSocketLfOs) => SInv'
<1> SUFFICES ASSUME SInv, RawSocketFails \/ RawSocketLfOs PROVE SInv'
  OBVIOUS
<1> USE DEF RawSocketFails, RawSocketLfOs, Goto
<1>1. PICK n \in {-1, GotPorts, PortsRefused} : new' = [new EXCEPT !.fd = n]
  OBVIOUS
<1>2. new \in SockRecords /\ new.fd = -1 /\ ~new.eth_header /\ sock[for] = Null
  BY DEF SInv, TypeOK, NewShape, OpeningSteps
<1>3. new' \in SockRecords /\ new'.fd = n /\ n \notin Fds /\ ~new'.eth_header
  BY <1>1, <1>2, NullIsNoSocket DEF SockRecords
<1>4. /\ pc = "raw_socket" /\ pc' = "ip_options"
      /\ UNCHANGED <<for, sock, blocks, open, lost, outcome, platform>>
  BY DEF system
<1>5. ports' \in BOOLEAN
  BY DEF SInv, TypeOK, system
<1> HIDE DEF RawSocketFails, RawSocketLfOs
<1>6. TypeOK'
  BY <1>3, <1>4, <1>5 DEF SInv, TypeOK
<1>7. NewShape'
  BY <1>2, <1>3, <1>4, NullIsNoSocket DEF NewShape, OpeningSteps
<1>8. BlocksShape'
  BY <1>4 DEF SInv, BlocksShape, Taken, OpeningSteps, Needs
<1>9. DescriptorsAccounted'
  BY <1>2, <1>3, <1>4, NullIsNoSocket DEF SInv, DescriptorsAccounted, KeptFds
<1> QED
  BY <1>6, <1>7, <1>8, <1>9 DEF SInv

\* An error path of new_socket: what the call took is freed or lost.
LEMMA GiveUpStep ==
  SInv /\ pc \in {"ip_options", "link_options"} /\ GiveUp => SInv'
<1> SUFFICES ASSUME SInv, pc \in {"ip_options", "link_options"}, GiveUp PROVE SInv'
  OBVIOUS
<1> USE DEF GiveUp, Goto, FreeBlocks, system
<1>1. TypeOK'
  BY DEF SInv, TypeOK, DescriptorsAccounted
<1>2. NewShape'
  BY NullIsNoSocket DEF NewShape, OpeningSteps
<1>3. BlocksShape'
  BY DEF SInv, TypeOK, NewShape, BlocksShape, OpeningSteps, Needs
<1>4. DescriptorsAccounted'
  BY NullIsNoSocket DEF SInv, DescriptorsAccounted, KeptFds
<1> QED
  BY <1>1, <1>2, <1>3, <1>4 DEF SInv

\* The two blocks of options, or an error path.
LEMMA OptionsStep == SInv /\ (IpOptions \/ LinkOptions) => SInv'
<1> SUFFICES ASSUME SInv, IpOptions \/ LinkOptions, ~GiveUp PROVE SInv'
  BY GiveUpStep DEF IpOptions, LinkOptions
<1> USE DEF IpOptions, LinkOptions, Goto, Alloc, system
<1>1. TypeOK'
  BY DEF SInv, TypeOK
<1>2. NewShape'
  BY DEF SInv, NewShape, OpeningSteps
<1>3. BlocksShape'
  BY DEF SInv, TypeOK, NewShape, BlocksShape, Taken, OpeningSteps, Needs
<1>4. DescriptorsAccounted'
  BY SameDescriptors DEF SInv
<1> QED
  BY <1>1, <1>2, <1>3, <1>4 DEF SInv

\* new_socket returns a socket, which keeps the blocks and the descriptor.
LEMMA LinkHeaderStep == SInv /\ LinkHeader => SInv'
<1> SUFFICES ASSUME SInv, LinkHeader PROVE SInv'
  OBVIOUS
<1>1. new \in SockRecords /\ ~new.eth_header /\ sock[for] = Null /\ for \in Clients
  BY DEF SInv, TypeOK, NewShape, LinkHeader, OpeningSteps
<1>2. PICK b \in BOOLEAN :
        /\ sock' = [sock EXCEPT ![for] = [new EXCEPT !.eth_header = b]]
        /\ blocks' = [blocks EXCEPT ![for] = IF b THEN @ \cup {"eth_header"} ELSE @]
  <2>1. CASE sock' = [sock EXCEPT ![for] = [new EXCEPT !.eth_header = TRUE]]
               /\ blocks' = [blocks EXCEPT ![for] = @ \cup {"eth_header"}]
    BY <2>1
  <2>2. CASE sock' = [sock EXCEPT ![for] = new] /\ blocks' = blocks
    <3>1. new = [new EXCEPT !.eth_header = FALSE]
      BY <1>1 DEF SockRecords
    <3>2. blocks = [blocks EXCEPT ![for] = @]
      BY DEF SInv, TypeOK
    <3> QED
      BY <2>2, <3>1, <3>2
  <2> QED
    BY <2>1, <2>2 DEF LinkHeader, CreateEthHdr, ReturnSocket, Alloc
<1>3. DEFINE s == [new EXCEPT !.eth_header = b]
<1>4. s \in SockRecords /\ s # Null /\ s.fd = new.fd /\ s.eth_header = b
  BY <1>1, NullIsNoSocket DEF SockRecords
<1>5. sock'[for] = s /\ \A c \in Clients \ {for} : sock'[c] = sock[c]
  BY <1>1, <1>2 DEF SInv, TypeOK
<1>6. /\ pc = "link_header" /\ pc' = "idle" /\ new' = Null
      /\ UNCHANGED <<system, for, open, lost, outcome>>
  BY DEF LinkHeader, Goto
<1>7. TypeOK'
  BY <1>2, <1>4, <1>6 DEF SInv, TypeOK, system
<1>8. NewShape'
  BY <1>6, NullIsNoSocket DEF NewShape, OpeningSteps
<1>9. BlocksShape'
  <2>1. blocks[for] = {"socket", "ip_options", "link_options"}
    BY <1>1, <1>6 DEF SInv, BlocksShape, Taken, OpeningSteps
  <2>2. blocks'[for] = Needs(s)
    BY <1>1, <1>2, <1>4, <2>1 DEF SInv, TypeOK, Needs
  <2>3. \A c \in Clients \ {for} : blocks'[c] = Needs(sock[c])
    BY <1>1, <1>2, <1>6 DEF SInv, TypeOK, BlocksShape
  <2> QED
    BY <1>5, <1>6, <2>2, <2>3 DEF BlocksShape, OpeningSteps
<1>10. DescriptorsAccounted'
  <2>1. /\ sock[for].fd \notin Fds /\ sock'[for].fd = new.fd
        /\ \A c \in Clients \ {for} : sock'[c].fd = sock[c].fd
    BY <1>1, <1>4, <1>5, NullIsNoSocket
  <2>2. \A fd : fd \in KeptFds' <=> fd \in KeptFds \/ fd \in {new.fd} \cap Fds
    <3>1. \A fd : fd \in KeptFds' <=> fd \in Fds /\ \E c \in Clients : sock'[c].fd = fd
      BY DEF KeptFds
    <3>2. ASSUME NEW fd, fd \in KeptFds' PROVE fd \in KeptFds \/ fd \in {new.fd} \cap Fds
      BY <2>1, <3>1, <3>2, Kept
    <3>3. ASSUME NEW fd, fd \in KeptFds PROVE fd \in KeptFds'
      <4>1. PICK c \in Clients : sock[c].fd = fd /\ fd \in Fds
        BY <3>3, Kept
      <4>2. c # for /\ sock'[c].fd = fd
        BY <2>1, <4>1
      <4> QED
        BY <3>1, <4>1, <4>2
    <3>4. ASSUME NEW fd, fd \in {new.fd} \cap Fds PROVE fd \in KeptFds'
      BY <1>1, <2>1, <3>1, <3>4
    <3> QED
      BY <3>2, <3>3, <3>4
  <2>4. \A c \in Clients : sock[c].fd \in Fds => sock[c].fd # new.fd
    BY Kept DEF SInv, DescriptorsAccounted
  <2>5. \A c, d \in Clients : c # d /\ sock[c].fd \in Fds => sock[c].fd # sock[d].fd
    BY DEF SInv, DescriptorsAccounted
  <2>6. \A c, d \in Clients : c # d /\ sock'[c].fd \in Fds => sock'[c].fd # sock'[d].fd
    <3> SUFFICES ASSUME NEW c \in Clients, NEW d \in Clients, c # d, sock'[c].fd \in Fds
                 PROVE  sock'[c].fd # sock'[d].fd
      OBVIOUS
    <3>1. CASE c = for
      BY <2>1, <2>4, <3>1
    <3>2. CASE d = for
      BY <2>1, <2>4, <3>2
    <3>3. CASE c # for /\ d # for
      BY <2>1, <2>5, <3>3
    <3> QED
      BY <3>1, <3>2, <3>3
  <2>3. new'.fd \notin Fds
    BY <1>6, NullIsNoSocket
  <2> QED
    BY <1>6, <2>2, <2>3, <2>6 DEF SInv, DescriptorsAccounted
<1> QED
  BY <1>7, <1>8, <1>9, <1>10 DEF SInv

\* Sending leaves sockets, blocks and descriptors alone.
LEMMA SendStep == ASSUME SInv, NEW c \in Clients, Send(c) PROVE SInv'
<1>1. /\ pc = "idle" /\ pc' \in {"idle", "dead"}
      /\ outcome' \in {"slip", "frame", "error", "unsent"}
      /\ UNCHANGED <<system, for, new, sock, blocks, open, lost>>
  BY DEF Send, SendSlip, SlipFaults, SendOther, NoEthHeader, NoFrameMemory,
         SendFrame, SendtoFails, SendNothing, Sends, Tells, Faults, Goto, SInv, TypeOK
<1>2. TypeOK'
  BY <1>1 DEF SInv, TypeOK, system
<1>3. NewShape'
  BY <1>1 DEF SInv, NewShape, OpeningSteps
<1>4. BlocksShape'
  <2>1. pc \notin OpeningSteps /\ pc' \notin OpeningSteps
    BY <1>1 DEF OpeningSteps
  <2> QED
    BY <1>1, <2>1 DEF SInv, BlocksShape, Needs
<1>5. DescriptorsAccounted'
  BY <1>1, SameDescriptors DEF SInv
<1> QED
  BY <1>2, <1>3, <1>4, <1>5 DEF SInv

\* A step that changes nothing.
LEMMA StutterStep == SInv /\ UNCHANGED vars => SInv'
BY DEF SInv, TypeOK, NewShape, BlocksShape, DescriptorsAccounted, KeptFds, Taken,
       Needs, OpeningSteps, vars, system

\* Every step of new_socket and of a client keeps SInv.
LEMMA SInvStep == SInv /\ [Next]_vars => SInv'
<1> SUFFICES ASSUME SInv, [Next]_vars PROVE SInv'
  OBVIOUS
<1> QED
  BY NewSocketStep, RawSocketStep, NoDescriptorStep, OptionsStep, LinkHeaderStep,
     SendStep, StutterStep DEF Next, Open

\* The invariant: what a running call has taken, and what each socket keeps.
THEOREM SocketInvariance == Spec => []SInv
BY SInvStep, InitSInv, PTL DEF Spec

\* new_socket accounts for each descriptor: it belongs to one socket, or was lost.
THEOREM DescriptorsAreAccounted == Spec => []DescriptorsAccounted
<1>1. SInv => DescriptorsAccounted
  BY DEF SInv
<1> QED
  BY <1>1, SocketInvariance, PTL

\* On each of its paths new_socket leaves the blocks of the sockets, and no more.
THEOREM NullLeavesNothing == Spec => []NullLeavesNoMemory
<1>1. SInv => NullLeavesNoMemory
  BY DEF SInv, BlocksShape, NullLeavesNoMemory, OpeningSteps
<1> QED
  BY <1>1, SocketInvariance, PTL

\* A client that has lost every descriptor stays without them, and without frames.
THEOREM StarvationIsForGood == Spec => StarvedForGood
<1>1. ASSUME SInv, SInv', [Next]_vars, Starved
      PROVE  /\ Starved'
             /\ \A c \in Clients : sock'[c].fd \notin Fds
             /\ outcome' = "frame" => outcome = "frame"
  <2>1. lost \subseteq lost' /\ lost' \subseteq Fds
    BY <1>1 DEF SInv, TypeOK, DescriptorsAccounted, Next, Open, NewSocket, RawSocket,
         RawSocketFails, RawSocketLfOs, IpOptions, LinkOptions, LinkHeader, GiveUp,
         Send, SendSlip, SlipFaults, SendOther, NoEthHeader, NoFrameMemory, SendFrame,
         SendtoFails, SendNothing, Tells, Faults, vars
  <2>2. Starved'
    BY <1>1, <2>1 DEF Starved
  <2>3. \A c \in Clients : sock'[c].fd \notin Fds
    BY <1>1, <2>2 DEF SInv, Starved, DescriptorsAccounted, KeptFds
  <2>4. \A c \in Clients : sock[c].fd \notin open
    BY <1>1 DEF SInv, TypeOK, Starved, DescriptorsAccounted, KeptFds
  <2>5. outcome' = "frame" => outcome = "frame"
    BY <1>1, <2>4 DEF Next, Open, NewSocket, RawSocket,
         RawSocketFails, RawSocketLfOs, IpOptions, LinkOptions, LinkHeader, GiveUp,
         Send, SendSlip, SlipFaults, SendOther, NoEthHeader, NoFrameMemory, SendFrame,
         SendtoFails, SendNothing, Tells, Faults, vars
  <2> QED
    BY <2>2, <2>3, <2>5
<1> QED
  BY <1>1, SocketInvariance, PTL DEF Spec, StarvedForGood
=============================================================================
