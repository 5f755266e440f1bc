# A verification development of usernetstack

usernetstack (`src/`, C, about 1000 lines with the headers' comments left out)
is a transmit-only UDP/IPv4 stack in user space: a client opens a socket for an
Ethernet or SLIP link and calls `udp_send`, which builds the headers, asks for
an IPv4 identification, and writes the packet to a raw socket or, byte by byte,
to a serial port. This directory holds TLA+ models of its parts, the TLC runs
that check them, and TLAPS proofs about them. `PROJECT.json` maps every
definition to the lines it stands for.

## Inventory

| Component | State | Operations | Interaction |
|---|---|---|---|
| IPv4 IDs (`ip.c`, `bitmap.h`) | bitmap of 65536 bits, `last_block`, the C library's seed | `ip_initialise`, `ip_finalise`, `allocate_ipv4_id`, `free_ipv4_id` | called by `create_ipv4_hdr` and `ipv4_transmit_datagram`; shared by all callers, its mutex commented out |
| IPv4 header and checksum (`ip.c`, `csum.c`) | the header's 20 bytes, `csum`'s loop variables | `create_ipv4_hdr`, `create_std_ipv4_hdr`, `csum`, `craft_ipv4_psd_hdr` | header handed to its caller; a client of `ip.h` frees it itself |
| Data utilities (`data_util.c`, `data_util.h`) | none | `inet_addr`, `htons`, `htonl`, `build_packet` | called by clients, whose results go into headers |
| Send path (`udp.c`, `ip.c`, `link.c`, `eth.c`) | five heap blocks, lengths of 16 and 64 bits | `udp_send`, `create_udp_hdr`, `ipv4_transmit_datagram`, `link_tx`, `eth_transmit` | a chain of calls, each with allocations that may fail |
| SLIP (`slip.c`) | loop counter; the UART's register | `slip_transmit`, `serial_wait` | polls port 0x2f8; a receiver decodes the line |
| Sockets (`socket.c`) | `net_socket`, its two option blocks, a descriptor | `new_socket` | `link_tx` reads the link options, `ipv4_transmit_datagram` the IP options |
| Platforms (`platform/linux`, `platform/lf_os`) | the open descriptors; the right to use the UART's ports | `raw_socket`, `transmit` | the file compiled in is chosen by the build |
| `main.c` | its line | open a SLIP socket, initialise, two addresses, one `udp_send`, then loop for ever | the only client the repository has |
| Receive path, TCP, ICMP | | declared only | |

What is hard about them:

* **Concurrency.** The program has one thread, but the allocator is written for
  several: its mutex is commented out and a comment argues that
  `free_ipv4_id` does not need it (`ip.c:135-137`).
* **Liveness.** The search for an ID and the wait for the UART are loops
  without a bound.
* **Partial failure.** Five allocations in four functions can fail on a send,
  three and a descriptor when a socket is opened; there is no function that
  closes a socket or destroys a header.
* **Numbers.** Lengths change between `size_t`, `uint16_t` and network byte
  order on their way down; errors are -1 in types that cannot hold it.
* **Two machines.** The SLIP code runs against a UART that empties on its own
  and a receiver that has to agree about escape sequences.

What makes each component correct: IDs of live headers are unique, no ID is
lost, a search ends when there is an ID to find; a send leaves no memory behind
whatever fails, puts the payload on the wire with lengths that agree, and tells
its caller what happened; a receiver verifies the checksum and decodes the
packets; a socket that is not returned leaves nothing behind; and, across the
parts, a send ends, and what it returns follows from the socket it was given. The hazards that
these properties are for are in `PROJECT.json`, each at its line.

## Modules

| Module | Models | Runs |
|---|---|---|
| `IdPool` | abstract specification of the allocator: a stream acquires an ID no other holds, and releases it | property of `ip_id` |
| `IpId` | the allocator and its callers, one thread, one iteration of the search a step | `ip_id`; `client`, `client_hang` through `Netlib` |
| `IpId_proofs` | TLAPS proofs about `IpId` | |
| `IpIdThreads` | the allocator on bytes, every load and store a step, several threads | `threads_one`, `threads_two` |
| `IpIdThreads_proofs` | TLAPS proofs about `IpIdThreads`, for one thread and for any number | |
| `UdpSend` | the send path over heap blocks and lengths | `udp_send`, `udp_payload`, `udp_return` |
| `UdpSend_proofs` | TLAPS proofs about `UdpSend` | |
| `Slip` | `slip_transmit`, the UART, an RFC 1055 receiver | `slip`, `slip_escape` |
| `Slip_proofs` | TLAPS proofs about `Slip` | |
| `Ipv4Hdr` | the header's bytes, addresses, options, and the checksum | `ipv4_hdr`, `ipv4_csum` |
| `Ipv4Hdr_proofs` | TLAPS proofs about `Ipv4Hdr` | |
| `Socket` | opening sockets and sending on them, on either platform | `client`, through `Netlib` |
| `Socket_proofs` | TLAPS proofs about `Socket` | |
| `Netlib` | composition of `Socket`, `IpId` and `UdpSend`, with `main.c` or another client | `client`, `client_hang` |
| `Netlib_proofs` | TLAPS proofs that `Netlib` implements its parts, and of what they do together | |

`MC*.tla` and `*.cfg` give the constants their values and nothing else.
Definitions whose comment begins with "Mutant:" are wrong variants of the
definition after them; no specification uses them, and each breaks the property
`PROJECT.json` pairs it with.

### IpId, IdPool, IpIdThreads

`used` is the set of IDs whose bit is set, `hdr[s]` the ID in the header of
stream `s`. A header is made by `create_ipv4_hdr` for a client ("direct"), or
inside `ipv4_transmit_datagram` ("transmit"). `CreateHdr` chooses the block,
`TakeId`, `MarkZero` and `SkipId` are the three outcomes of an iteration of
`ip.c:117-124`; `LinkTxAndFree` and `PacketAllocFails` end a transmit; `FreeHdr`
is the `free()` of a direct client, for whose header the code has nothing that
frees the ID. `rand()` is any function from seeds to values (`RandFns`): the
code seeds it with `last_block` before each use, so it decides the next block
deterministically. The addition with `rand()` wraps, and the C remainder of a
negative number is negative, as on the platform. `orphans` is history: the IDs
whose header is gone and whose bit is not.

A client is taken to initialise the library before it uses it, not to
initialise it twice, and to finalise it when its headers are gone. A failed
`calloc` in `create_ipv4_hdr` changes nothing (a stuttering step); one in
`ip_initialise` ends the program in `memset`.

`IpIdThreads` splits each step into the loads and stores of the code gcc makes
at -O2, the optimisation level of `CMakeLists.txt`: the byte of the bitmap is
loaded once per iteration and stored with the bit set; `last_block` is loaded
once before `srand()` and stored after `rand()`; clearing a bit is a load and a
store. `srand` and `rand` share one state, so a thread can get a value another
thread's seed determines; when the seed was used up, `rand()` is any value. With one
thread it implements the steps of `IpId` (`ImplementsIpId`): the mapping gives
`IpId` its `last_block` and `entry` as soon as the call starts, which is when
they are determined.

### UdpSend

One action per call or allocation on the way from `udp_send` to the device and
back, with a separate action for each failure. `heap` holds the sizes of the
five blocks; `packet` tells whether `realloc` moved the UDP header; `intact`
whether the payload is where the next layer will read it; `wire` is what the
device got. Lengths have their real widths: `u16` is the conversion to
`uint16_t` and `bswap_16` is arithmetic on bytes. An access outside a live block
is recorded in `bad`; it is undefined behaviour, after which the program is dead
or continues, with the bytes in place or not. Moving and failing are possible
for `realloc` only when the size exceeds what the block has (`Usable`, 24 bytes
for glibc), the behaviour of the C library the program is built with. A failed
assertion (`udp.c:59`) is "dead", and so is the copy of an Ethernet header the
socket does not have (`EthHeaderMissing`). A step may be that of either platform:
`Sendto` is `transmit` on Linux, `TransmitNothing` on LF-OS; `SlipTransmit` needs
the ports that LF-OS's `raw_socket` asks for, and `SlipFaults` is what happens to
a Linux program that has not asked for them itself. The ID of the datagram appears as its bit
only; `IpId` has the rest, the endless search included.

### Slip

`inb` of the line status and `outb` are separate steps (`SerialWait`, then
`FirstEnd`, `EscapeCode`, `Byte`, `LastEnd`), the UART shifts a byte out between
any two steps (`UartShift`), and a byte written to a full register would
replace the one there. The receiver is RFC 1055's, which takes a byte after ESC
for itself when it is no escape code. Bytes are the four values `slip.h` names
and one for all others. `sent` has the packets
of at least one byte: a receiver passes on no other. The program is the LF-OS build: on Linux nothing asks
for the ports, and `outb` has its arguments the other way round (`slip.c:49`).

### Ipv4Hdr

`Image` and `BehindHdr` are the bytes `csum` reads when `create_ipv4_hdr` calls
it, options and the memory behind the block included; `AddWord`, `AddLastByte`,
`Fold` and `Return` are `csum`. Words are little-endian, as on the platforms the
program is built for. The reference is the definition of RFC 1071: a sum
modulo 65535 (`OnesSum`). The sum itself is a number: `SumFits` says that it is one
of 32 bits, which every `unsigned long` has. `call = "csum"` is a client calling `csum` directly, `"packet"` one
that puts `craft_ipv4_psd_hdr`'s pseudo header in front of a UDP packet with
`build_packet`. `"datagram"` is `ipv4_transmit_datagram` with the options of its
socket (`DatagramArguments`). Addresses are the numbers of the text a client
gives to `inet_addr`, of which each keeps its low byte, or of a number it gives to
`htonl`, whose parameter has 16 bits; a text with one to three numbers, a failed
`strdup` and a failed assertion are `Dies`. A receiver reads options as RFC 791
has them (`NextOption`).

### Socket

`new_socket` with `raw_socket`, one action per call that can fail. Descriptors
come from a finite set, as `RLIMIT_NOFILE` makes it; nothing closes one, except
`raw_socket` itself when `setsockopt` fails. `lost` is history. `platform` is
chosen once: on LF-OS `raw_socket` asks for the UART's ports and stores the
error number of that call as `raw_sockfd`, and `transmit` does nothing. A send is
what `link_tx` can do with the socket: one action for each way out, with the
guard the socket's fields and the platform give it.

### Netlib

The parts in one program. A call from one part to another is one step of both:
`IdFound` is the last iteration of `IpId`'s search joined with `CreateIpv4Hdr` of
`UdpSend`, `NoPacketMemory` and `IdReturned` join the two ends of a datagram in
`ipv4_transmit_datagram`, and `LinkTx` joins each way out of `UdpSend`'s link layer
with the send of `Socket` that the socket at hand allows. So a leak in one part is
the failure of another: -1 from a send without memory leaves an ID behind, and
enough of them leave the next send in the search for ever. Each step is, seen
from `UdpSend` or `IpId`, a step of that module's `Next` or leaves it alone
(`NetlibRefines`), so what is proved of them holds of this program too.

The client is `main.c`, followed by `line` from `new_socket` to the loop at its
end, or any other client (`line = "any"`) that opens sockets of each type and
sends on those it has, for ever. `At` and `AsMain` are the two differences: main
makes a call at one line only, and with arguments of its own (`MainLen` is the
length of its message). Either client calls `ip_initialise` before it sends; the
clients that finalise, or make headers of their own, are in `IpId`. `failures`
counts the calls that returned -1 and stays at `MaxFailures`.

## Runs, bounds, and what they show

| Run | Shows | Bounds |
|---|---|---|
| `ip_id` | `UniqueIds`, `BitsAccounted`, `FirstFree`, `ExhaustedIsPermanent`, `SearchEnds`, refinement of `IdPool`, and the inductive invariant `IInv` of the proofs | 2 streams; 10 IDs (1 modulo 3, as 65536 is) in blocks of 2; `IntMax` 7; five C libraries, two of which make the addition overflow |
| `threads_one` | with one thread, loads and stores implement `IpId` and a header keeps its bit; the invariant `OneInv` of the proofs | 16 IDs in 2 bytes of 8 bits, blocks of one byte, 2 streams |
| `threads_two` | **finding**: `free_ipv4_id` clears a bit another thread set | the same, 2 threads |
| `udp_send` | all memory comes back on every path; payloads up to 247 bytes are sent whole if `realloc` does not move; lengths agree up to 65507 bytes; what the results tell; the invariant `UInv` of the proofs | payload lengths on both sides of each boundary, all link types, every failure |
| `udp_payload` | **finding**: a packet goes out without its payload | the same |
| `udp_return` | **finding**: a link error is 65535 and a success counts the headers | the same |
| `slip` | no byte is written over one the UART still has, be it END over END between two calls; packets without END and ESC arrive whole and in order, also right after others; the call returns; the invariant `SlipInv` of the proofs | 2 packets of up to 2 bytes of any of 5 values |
| `slip_escape` | **finding**: packets with END or ESC do not arrive | the same |
| `ipv4_hdr` | the checksum is the one's complement sum for even lengths; headers without options verify, with the addresses that went through `inet_addr` in their order; header length with options, and where a receiver looks for the one after; what `ttl` and `no_fragment` of a socket do to its datagrams; a packet's checksum verifies just when the bytes of its length are equal; the invariant `HdrInv` of the proofs | buffers of up to 5 bytes from {0, 1, 255}; headers around the limits of option and total length; 16 sets of socket options; addresses with too many, too few and too large numbers; packets of 8, 9, 257 and 514 bytes |
| `ipv4_csum` | **finding**: the checksum of a buffer of odd length does not verify | the same |
| `client` | which descriptors and blocks remain; a client that retries ends without descriptors and with sockets that cannot send; what a result of `udp_send` says of the socket; what main knows at its end; a search hangs only after failures; each send ends, or hangs there; the invariant `NetlibInv` of the proofs | 2 sockets, 2 descriptors; 10 IDs in 1 block; payloads of 9 bytes |
| `client_hang` | **findings**: sends without memory for their packet keep their IDs, and the next send never returns from its search | the same |

Why the bounds are enough. In `ip_id` each residue class has three IDs, so it
fills up while two streams run, the search wraps, meets ID 0, starts in each
class, and the bitmap is finalised and initialised again. Two bytes are what a
race on a byte and a search across bytes need. `UdpSend` has no loop: its
lengths are the boundaries themselves, with their real widths. A SLIP packet of
two bytes can hold both special bytes in either order, and a second packet
shows what the first leaves in the receiver. Two descriptors are enough to keep
one and to lose the other, or to lose both. In `client` every search starts in the
class of 0, 3 and 6, and 0 is not given: two failed datagrams use it up while six
IDs are free, so `MaxFailures` of 2 is all `HangTakesFailures` compares with.
Its one length is main's; `udp_send` has the others.

`CHECK_DEADLOCK FALSE` is set where the program really stops: after an assertion
or undefined behaviour ("dead") in `UdpSend`, `Netlib` and `Ipv4Hdr`, when main
has exited or is in its empty loop in `Netlib`, and in `Slip` when `MaxPackets`
packets were sent.

### Fairness

The library runs in its caller's thread and does not block, so a thread inside
it goes on: weak fairness of `Library` (`IpId`), `Transmit` (`Slip`), `Csum` (`Ipv4Hdr`) and
`NetlibLibrary` (`Netlib`). A client need not call again: its actions have no fairness. The
UART is clocked: weak fairness of `UartShift`, an assumption about the hardware
that the code makes too, since `serial_wait` has no timeout.

## Proofs

`IpId_proofs` is about every number of streams and blocks, every C library, and
every bitmap whose size is 1 modulo 3.

* `TypeCorrect`, `IdsAreUnique`, `BitsAreAccounted`: from `Invariance`,
  `Spec => []IInv`. `UniqueIds` is not inductive: that a clear bit is nobody's
  needs `HeldMarked` (the bits of the live headers are set, and only while the
  bitmap is live); that clearing a bit after a transmit does not hurt another
  header needs `UniqueIds` again; both need `CallerHasHeader`, which ties the
  running call to its header. `BitsAccounted` joins them: `used` is what is held
  and what was orphaned.
* `Refinement`: `Spec => IdPool!Spec`. `TakeId` is an `Acquire` of a free ID by
  `HeldMarked`; every end of a header is a `Release`; the rest stutters.
* `ExhaustionIsPermanent`: an action property. `NextEntryClass` shows that
  the stride stays in its class modulo 3, because 65535 is a multiple of 3, so a
  full class stays the class of the search.
* `TakesFirstFree`: `SearchSoFar`, a part of `IInv`, says that the search of a
  running call is at the `k`-th ID of its probing order, `k <= IdSpace \div 3`, and
  that the `k` before it were set. That a further step comes round to the start
  is `FullCircle`: `IdSpace \div 3` strides are `IdSpace - 1`, the modulus of the stride.

`IpIdThreads_proofs` is about any number of bytes and bits in them.

* `ThreadsInvariance`, for any number of threads: types, and that no header has
  the ID 0, hold whatever the interleaving of loads and stores; `FreeIsHarmless`
  does not, as `threads_two` shows for two.
* `OneThreadInvariance`, `Spec => []OneInv` for a set of one thread.
  `RegistersFresh` is what the sequential reading of the code takes for granted
  and two threads break: the byte, `last_block` and the seed that the thread has
  in its registers are those in memory. Where `IpId` is at each of its steps
  follows, and `Sequential!IInv`, from the step lemma of `IpId_proofs`, applied to the
  mapped variables by `INSTANCE`.
* `OneThreadIsSequential`: each load and store is a step of `IpId` or a stutter;
  `WithBit` and `WithoutBit` on a byte are `BitmapSet` and `BitmapClear` on IDs because
  an ID is determined by its byte and its bit (`BitsDiffer`).
* `OneThreadKeepsMarks` and `OneThreadFreesOneId` follow; the second is the comment
  of `ip.c:135-137`, right for one thread.

`UdpSend_proofs` is about payloads of every length and every C library
(`Usable` is any size of at least 8).

* `Invariance`, `Spec => []UInv`, has a step for each action. `HeapShape` says
  which blocks are live at each step and what size they have, `ShortShape` that
  a short message is intact, `SentShape` what the results on the way up say of
  `wire`. None of the properties is inductive: that nothing is live at a return
  depends on what was live at each step before it, that the packet is whole on
  how `ReallocSize` relates to `DataLen`, and what `udp_send` returns on what
  `link_tx` kept in `sent`.
* The arithmetic is in lemmas of its own: `ShortFits` (for up to 247 bytes the
  byte-swapped size is 256 times the right one), `LengthsFit` (nothing is cut
  off up to 65507 bytes), `AcceptedIsNoError` (up to 65492 bytes no frame's
  length is an error code).
* `TypeCorrect`, `MemoryComesBack`, `ShortMessagesAreSentWhole`,
  `LengthsAlwaysAgree` and `ResultTellsSent` follow: what the run checks for
  chosen lengths holds for all.

`Socket_proofs` is about any number of sockets and any set of
descriptors.

* `SocketInvariance`, `Spec => []SInv`. `DescriptorsAccounted` is not inductive
  alone: that `raw_socket` adds a descriptor and drops none needs `NewShape` (a
  call has no descriptor before it). `NullLeavesNoMemory` speaks of the time
  between calls; `BlocksShape` says which blocks a call has at each of its steps
  (`Taken`), so that the last step gives the socket what it `Needs`.
* `DescriptorsAreAccounted`, `NullLeavesNothing` and `StarvationIsForGood` follow.
  For the last, `lost` only grows; once it is everything, `DescriptorsAccounted`
  leaves no socket a descriptor, and a frame needs one.

`Netlib_proofs` puts the parts together.

* `NetlibSockets` keeps `SInv`, since a step of the program is one of `Socket` or
  the death of the client elsewhere. `NetlibRefines`, `NetlibSpec => U!Spec /\ I!Spec`,
  needs it for one step: the link type `udp_send` meets is one it knows because
  sockets have their types. The theorems of `UdpSend_proofs` and `IpId_proofs` are
  then cited through `INSTANCE`, so the invariants of all three parts
  (`PartsInv`) hold in the program.
* `ProgramInvariance`, `NetlibSpec => [](PartsInv /\ NetlibInv)`. The parts' invariants
  do not say how the parts fit together: `CallShape` ties a running send and
  its last result to the socket it was for, `PortsShape` the ports of the
  UART to the descriptors that stand for them, `MainShape` follows main,
  `IdShape` joins the positions of the allocator and of the send path, and
  `LossShape` counts: an ID is orphaned only by a send that is about to fail.
* `SocketsTellOutcome` and `MainKnowsOutcome` follow from the first three;
  `HangsTakeFailures` from the last: a full class without a live header has
  orphans only (and 0), and a residue class has at least `ClassSize - 1` IDs
  other than 0, for every number of IDs. `NetlibAssumption` only asks that the
  history variable `failures` can count that far.

`Slip_proofs` is about any packets of any length and number.

* `SlipInvariance`, `Spec => []SlipInv`. None of the properties is inductive: what
  the receiver has depends on the byte still in the UART, and on what an
  earlier packet with END or ESC left in it. `LineShape` says what can be in the
  register at each step (between two calls, an END alone), `PacketShape` how many
  bytes of a plain packet the receiver holds, `OrderShape` which packets are
  delivered as long as all were plain, and `ArrivedShape` what the first END
  of later calls does to the last of them.
* `PlainPacketsArrive`, `PlainPacketsResynchronise`, and the action property
  `NoOverrun` (`BytesLeaveOverTheLine`): each `Write` of a byte finds the register
  empty. It speaks of the step and not of the values, since the last END of a
  call and the first of the next are the same byte. What it needs of `SlipInv` is
  that the register is still empty once `serial_wait` has seen it so.

`Ipv4Hdr_proofs` is about every buffer, header, address, option and packet.

* `HeaderInvariance`, `Spec => []HdrInv`. `SumShape` is the invariant of csum's loops:
  the sum is that of the words before `data`, and, once the folds have begun,
  equal to the buffer's modulo 65535. `BytesShape` says which bytes are in the
  buffer of which call, so that what a receiver reads is about `Image`, `PsdHdr` and
  `BehindHdr`. `SumFits` is there for the code's type: the sum of a buffer of
  less than 131070 bytes fits 32 bits, and no packet is longer.
* `EvenBuffersSum`, `PseudoHeaderSum`, and `OddBuffersSum`, which says how far the
  finding of `ipv4_csum` goes (a buffer of odd length verifies just when its last
  byte is 0; no run has it as a property): `FoldKeepsSum` is the
  one's complement argument (65536 is 1 modulo 65535, and a fold makes the sum
  smaller); `HalvesDiffer` and `SwapDiffers` are the "only if" halves (a byte in the
  other half of its word, or a word with its bytes exchanged, has another sum
  modulo 65535 unless it is 0, or the bytes are equal); `SumsDiffer` carries a change
  of one word to the sum of the buffer.
* `PlainHeadersSum`, `DatagramsCarryOptions`, `IhlHoldsOptions` and
  `OptionsReadShort` follow from the bytes of `Image` and the arithmetic of
  `HdrLen`, and so does `NumbersLoseUpperHalf`, how far the error of `htonl`
  goes (only numbers with an upper half of 0 survive).

Two facts are by induction: the sum of a buffer's words is defined by recursion
(`SumsExist`, `SumsEquation`), and is bounded and changed word by word. The
proofs take the least number that is an exception (`Least`, from the library's
well-foundedness of the natural numbers) and refute it.

The assumptions on the constants are those of the modules; TLC evaluates them in
the runs. Those of `Ipv4Hdr` are the types of the code: arguments have the widths
of `ip.h`, a packet of UDP is at most 65535 bytes long because its length field has
16 bits, and an address that a client keeps as a number has four bytes. There is
at least one argument, option set and address, so that the variables nobody reads
have a value.

Only model-checked: liveness (`SearchEnds`, `CallReturns`, `CsumReturns`,
`SendReturns`), which needs fairness and with it ENABLED, which the prover does not
reason about. Every other property of a passing run is stated by a theorem.
The violations are TLC's traces.

## Findings

Six runs end in a violation of what the source says of itself:

1. `client_hang` (`ip.c:124`): the search never returns false; it loops.
   21845 IDs, or 21844 in the class of 0, are all a call can try. Each client of
   `create_ipv4_hdr`, and each failure of the next finding, uses one up for good.
2. `client_hang` (`ip.c:243`): the error path frees the header and not its ID. It
   takes both: in the run's trace two sends fail, and the third one, which has six
   free IDs to choose from, hangs. The program has one header at a time, so
   without the leak no search would.
3. `threads_two` (`ip.c:140`): the comment about the mutex is wrong.
4. `udp_payload` (`udp.c:99`): the payload is written through the old pointer.
   (`udp.c:94` also asks for the wrong size: the length is in network order.)
5. `udp_return` (`ip.c:254`): -1 is lost in a `uint16_t`, so `main.c:65` never
   reports an error of the link; a success counts the headers.
6. `slip_escape` (`slip.c:66`): the escape sequences are not SLIP's.
7. `ipv4_csum` (`csum.c:83`): "pad with 0 to match 16 bit boundaries" puts the last
   odd byte into the wrong half of its word, on a little-endian machine.

Three more need no search of states; none of them has a run, and no property
that holds states them:

* `htonl` is documented with a `uint32_t` (`data_util.h:93`) and takes a `uint16_t`
  (`data_util.h:96`): an address given to it as a number loses its upper half.
  `NumbersLoseUpperHalf` proves which addresses survive.
* The options of a socket include precedence, low delay, "Mark this as high
  throughput datagram" and reliability (`ip.h:159-162`), and `new_socket` asks for
  throughput (`socket.c:76`); the line that would put them into the header is
  commented out (`ip.c:231`), and every datagram has the type of service 0
  (`DatagramArguments`).
* `new_socket` returns a "pointer to populated net_socket structure on success or
  0 on error" (`socket.c:53`), and returns one also when `raw_socket` or
  `create_eth_hdr` failed (`socket.c:62`, `89`). What that does to later sends is
  `SocketTellsOutcome` and `StarvedForGood`.

Others are stated as properties that say exactly when things go wrong:
`PacketVerifiesIfBytesEqual` (`craft_ipv4_psd_hdr` stores the
length in host order), `DescriptorsAccounted` and `StarvedForGood` (`new_socket` loses its
descriptor on an error path),
`SocketTellsOutcome` and `MainOutcome` (the results nobody looks at decide what a
send can do; LF-OS's `raw_socket` gives a positive error number where
`socket.h:65` has -1; main's datagram leaves on LF-OS alone),
`HangTakesFailures` (how many failed sends a client survives),
`SocketOptionsOnWire` (`no_fragment` is a fragment offset), `OptionReadShort` (the
length octet of an option leaves out two octets),
`ShortMessagesArrive` (with 248 bytes `realloc` shrinks the block to 1).

## Not modelled

* The receive path, TCP and ICMP: declared, no code.
* The copy of an empty string that `inet_addr` does not free.
* The effects of heap corruption, beyond "dead" or a lost payload.
* Packets of a client of `link_tx` or `slip_transmit` that does not go through
  `udp_send`, except in `Slip`.

## Plan

Done: every component with code is modelled, and every safety property, action
property and refinement that the runs check is proved. Next:

1. Two threads sending on one serial port, whose frames may mix.
2. Of the liveness properties, the safety halves that can be proved: a measure
   that each step of `csum`, of the search and of `slip_transmit` decreases.
