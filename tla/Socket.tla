------------------------------- MODULE Socket -------------------------------
(***************************************************************************)
(* new_socket of src/src/socket.c with raw_socket and transmit of the      *)
(* platform it is built for, platform/linux or platform/lf_os, for a       *)
(* client that opens sockets, tries again when it gets NULL, and sends on  *)
(* the sockets it has through link_tx of link.c.                           *)
(*                                                                         *)
(* On Linux raw_sockfd is a descriptor or -1. On LF-OS raw_socket asks for *)
(* the I/O ports of the UART and returns the error number of that call, 0  *)
(* if it succeeded; every error number is the value PortsRefused here.     *)
(*                                                                         *)
(* The repository has no function that closes a socket: a descriptor stays *)
(* open, and a socket stays with its client, until the program ends.       *)
(***************************************************************************)
EXTENDS Integers

CONSTANTS
  Clients,   \* the places a client keeps its sockets in
  Fds        \* the descriptors the process may have (RLIMIT_NOFILE)

GotPorts == 0
PortsRefused == 1

ASSUME FdsAssumption == Fds \subseteq Nat \ {GotPorts, PortsRefused}

VARIABLES
  platform, \* the platform of the build
  pc,       \* the next step of new_socket; "idle": the client runs; "dead"
  for,      \* where the socket of the running call will be kept
  new,      \* the socket the running call fills
  sock,     \* sock[c]: the socket c has, or Null
  blocks,   \* blocks[c]: the live blocks of the calls for c
  open,     \* the open descriptors
  ports,    \* the process may use the ports of the UART
  lost,     \* history: descriptors of calls that returned NULL
  outcome   \* of the last send: "slip" or "frame" if it left, "error", "unsent"

vars == <<platform, pc, for, new, sock, blocks, open, ports, lost, outcome>>
system == <<platform, ports>>

Types == {"ETH", "SLIP", "other"}
Null == [fd |-> -2, type |-> "other", eth_header |-> FALSE]
SockRecords ==
  [fd : Fds \cup {-1, GotPorts, PortsRefused}, type : Types, eth_header : BOOLEAN]

Goto(at) == pc' = at
Alloc(b) == blocks' = [blocks EXCEPT ![for] = @ \cup {b}]
FreeBlocks == blocks' = [blocks EXCEPT ![for] = {}]

Init ==
  /\ pc = "idle" /\ for \in Clients
  /\ new = Null /\ sock = [c \in Clients |-> Null]
  /\ blocks = [c \in Clients |-> {}]
  /\ open = {} /\ lost = {} /\ outcome = "unsent"
  /\ platform \in {"Linux", "LF-OS"} /\ ports = FALSE

\* new_socket for a link of the type t, up to raw_socket; without memory it
\* returns NULL and nothing has changed.
NewSocket(c, t) ==
  /\ pc = "idle" /\ sock[c] = Null
  /\ for' = c
  /\ new' = [fd |-> -1, type |-> t, eth_header |-> FALSE]
  /\ blocks' = [blocks EXCEPT ![c] = {"socket"}]
  /\ Goto("raw_socket")
  /\ UNCHANGED <<system, sock, open, lost, outcome>>

Available == Fds \ open

\* socket() gives the lowest descriptor that is not open; setsockopt succeeds.
RawSocket ==
  /\ pc = "raw_socket" /\ platform = "Linux"
  /\ \E fd \in Available :
       /\ \A other \in Available : fd <= other
       /\ new' = [new EXCEPT !.fd = fd]
       /\ open' = open \cup {fd}
  /\ Goto("ip_options")
  /\ UNCHANGED <<system, for, sock, blocks, lost, outcome>>

\* Mutant: raw_socket returns -1 without close().
RawSocketKeepsOpen ==
  /\ pc = "raw_socket" /\ platform = "Linux"
  /\ \E fd \in Available : open' = open \cup {fd}
  /\ new' = [new EXCEPT !.fd = -1]
  /\ Goto("ip_options")
  /\ UNCHANGED <<system, for, sock, blocks, lost, outcome>>

\* socket() fails, or setsockopt does and raw_socket closes the descriptor:
\* raw_sockfd is -1, which new_socket does not look at.
RawSocketFails ==
  /\ pc = "raw_socket" /\ platform = "Linux"
  /\ new' = [new EXCEPT !.fd = -1]
  /\ Goto("ip_options")
  /\ UNCHANGED <<system, for, sock, blocks, open, lost, outcome>>

\* Mutant: the error of sc_do_hardware_ioperm is not returned.
RawSocketLfOsHidesError ==
  /\ pc = "raw_socket" /\ platform = "LF-OS"
  /\ new' = [new EXCEPT !.fd = GotPorts]
  /\ ports' \in {ports, TRUE}
  /\ Goto("ip_options")
  /\ UNCHANGED <<platform, for, sock, blocks, open, lost, outcome>>

\* raw_socket of LF-OS returns what sc_do_hardware_ioperm says; the ports stay
\* with the process.
RawSocketLfOs ==
  /\ pc = "raw_socket" /\ platform = "LF-OS"
  /\ \/ new' = [new EXCEPT !.fd = GotPorts] /\ ports' = TRUE
     \/ new' = [new EXCEPT !.fd = PortsRefused] /\ UNCHANGED ports
  /\ Goto("ip_options")
  /\ UNCHANGED <<platform, for, sock, blocks, open, lost, outcome>>

\* Mutant: the error path frees the last block alone.
GiveUpFreesOne ==
  /\ blocks' = [blocks EXCEPT ![for] = @ \ {"ip_options"}]
  /\ lost' = lost \cup ({new.fd} \cap Fds)
  /\ new' = Null
  /\ Goto("idle")
  /\ UNCHANGED <<system, for, sock, open, outcome>>

\* new_socket frees its blocks and returns NULL; the descriptor stays open.
GiveUp ==
  /\ FreeBlocks
  /\ lost' = lost \cup ({new.fd} \cap Fds)
  /\ new' = Null
  /\ Goto("idle")
  /\ UNCHANGED <<system, for, sock, open, outcome>>

IpOptions ==
  /\ pc = "ip_options"
  /\ \/ GiveUp
     \/ /\ Alloc("ip_options")
        /\ Goto("link_options")
        /\ UNCHANGED <<system, for, new, sock, open, lost, outcome>>

LinkOptions ==
  /\ pc = "link_options"
  /\ \/ GiveUp
     \/ /\ Alloc("link_options")
        /\ Goto("link_header")
        /\ UNCHANGED <<system, for, new, sock, open, lost, outcome>>

ReturnSocket(s) == sock' = [sock EXCEPT ![for] = s]

\* create_eth_hdr gives the socket a header; without memory it returns NULL,
\* which new_socket does not look at.
CreateEthHdr ==
  \/ Alloc("eth_header") /\ ReturnSocket([new EXCEPT !.eth_header = TRUE])
  \/ ReturnSocket(new) /\ UNCHANGED blocks

\* switch (type): nothing is allocated for SLIP or for an unknown type.
LinkHeader ==
  /\ pc = "link_header"
  /\ \/ new.type = "ETH" /\ CreateEthHdr
     \/ new.type # "ETH" /\ ReturnSocket(new) /\ UNCHANGED blocks
  /\ new' = Null
  /\ Goto("idle")
  /\ UNCHANGED <<system, for, open, lost, outcome>>

-----------------------------------------------------------------------------
(* link_tx, as far as it depends on the socket.                            *)

Sends(c, t) == pc = "idle" /\ sock[c] # Null /\ sock[c].type = t

Tells(o) ==
  /\ outcome' = o
  /\ UNCHANGED <<system, pc, for, new, sock, blocks, open, lost>>

Faults ==
  /\ Goto("dead")
  /\ UNCHANGED <<system, for, new, sock, blocks, open, lost, outcome>>

\* slip_transmit uses the ports of the UART whatever the socket is.
SendSlip(c) == Sends(c, "SLIP") /\ ports /\ Tells("slip")
SlipFaults(c) == Sends(c, "SLIP") /\ ~ports /\ Faults

\* A type that link_tx does not know.
SendOther(c) == Sends(c, "other") /\ Tells("unsent")

\* eth_transmit copies the Ethernet header of the socket, without looking for it.
NoEthHeader(c) == Sends(c, "ETH") /\ ~sock[c].eth_header /\ Faults

\* eth_transmit has no memory for the frame.
NoFrameMemory(c) == Sends(c, "ETH") /\ Tells("error")

\* transmit of Linux: sendto fails for a descriptor of -1 and may for any.
SendFrame(c) ==
  /\ Sends(c, "ETH") /\ sock[c].eth_header /\ sock[c].fd \in open
  /\ platform = "Linux"
  /\ Tells("frame")

\* Mutant: transmit closes the descriptor, whose number the socket keeps.
SendtoFailsCloses(c) ==
  /\ Sends(c, "ETH") /\ sock[c].eth_header
  /\ platform = "Linux"
  /\ outcome' = "error" /\ open' = open \ {sock[c].fd}
  /\ UNCHANGED <<system, pc, for, new, sock, blocks, lost>>

SendtoFails(c) ==
  /\ Sends(c, "ETH") /\ sock[c].eth_header
  /\ platform = "Linux"
  /\ Tells("error")

\* transmit of LF-OS.
SendNothing(c) ==
  /\ Sends(c, "ETH") /\ sock[c].eth_header
  /\ platform = "LF-OS"
  /\ Tells("unsent")

Open ==
  RawSocket \/ RawSocketFails \/ RawSocketLfOs \/ IpOptions \/ LinkOptions \/ LinkHeader

Send(c) ==
  \/ SendSlip(c) \/ SlipFaults(c) \/ SendOther(c) \/ NoEthHeader(c)
  \/ NoFrameMemory(c) \/ SendFrame(c) \/ SendtoFails(c) \/ SendNothing(c)

Next ==
  \/ \E c \in Clients, t \in Types : NewSocket(c, t)
  \/ Open
  \/ \E c \in Clients : Send(c)

Spec == Init /\ [][Next]_vars

-----------------------------------------------------------------------------
(* Properties.                                                             *)

\* A socket of a client has one of the types of link.h or another number, and
\* a descriptor of the process or -1.
TypeOK ==
  /\ pc \in {"idle", "raw_socket", "ip_options", "link_options", "link_header", "dead"}
  /\ for \in Clients
  /\ new \in SockRecords \cup {Null}
  /\ sock \in [Clients -> SockRecords \cup {Null}]
  /\ blocks \in [Clients -> SUBSET {"socket", "ip_options", "link_options", "eth_header"}]
  /\ open \subseteq Fds
  /\ lost \subseteq open
  /\ outcome \in {"slip", "frame", "error", "unsent"}
  /\ platform \in {"Linux", "LF-OS"}
  /\ ports \in BOOLEAN

KeptFds == {sock[c].fd : c \in Clients} \cap Fds

\* Every open descriptor belongs to one socket, or is of a call that failed
\* after raw_socket (socket.c:69-73, 79-84); no socket has a lost one.
DescriptorsAccounted ==
  /\ open = KeptFds \cup lost \cup ({new.fd} \cap Fds)
  /\ KeptFds \cap lost = {}
  /\ new.fd \in Fds => new.fd \notin KeptFds \cup lost
  /\ \A c, d \in Clients : c # d /\ sock[c].fd \in Fds => sock[c].fd # sock[d].fd

\* The blocks of a socket that was returned.
Needs(s) ==
  IF s = Null THEN {}
  ELSE {"socket", "ip_options", "link_options"}
         \cup (IF s.eth_header THEN {"eth_header"} ELSE {})

\* Between two calls the heap holds what the sockets that were returned need:
\* a call that returned NULL has freed what it took, on each of its paths, and
\* one that succeeded has an Ethernet header exactly if the socket says so.
NullLeavesNoMemory ==
  pc = "idle" => \A c \in Clients : blocks[c] = Needs(sock[c])

\* Every descriptor was lost.
Starved == lost = Fds

\* A client that tries again after NULL ends up, when each failure has cost a
\* descriptor, with sockets that new_socket reports as good and no Ethernet
\* frame ever leaves.
StarvedForGood ==
  [][Starved => /\ Starved'
                /\ \A c \in Clients : sock'[c].fd \notin Fds
                /\ outcome' = "frame" => outcome = "frame"]_vars

-----------------------------------------------------------------------------
(* The inductive invariant behind the properties: the blocks of a socket   *)
(* that is being opened, at each step of new_socket.                       *)

OpeningSteps == {"raw_socket", "ip_options", "link_options", "link_header"}

NewShape ==
  /\ pc \in OpeningSteps => new # Null /\ sock[for] = Null
  /\ pc \notin OpeningSteps => new = Null
  /\ pc = "raw_socket" => new.fd = -1
  /\ ~new.eth_header

\* What a running call has taken.
Taken ==
  {"socket"}
    \cup (IF pc \in {"link_options", "link_header"} THEN {"ip_options"} ELSE {})
    \cup (IF pc = "link_header" THEN {"link_options"} ELSE {})

BlocksShape ==
  \A c \in Clients :
    blocks[c] = IF pc \in OpeningSteps /\ c = for THEN Taken ELSE Needs(sock[c])

SInv == TypeOK /\ NewShape /\ BlocksShape /\ DescriptorsAccounted
=============================================================================
