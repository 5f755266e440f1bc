------------------------------ MODULE Ipv4Hdr ------------------------------
(***************************************************************************)
(* The bytes create_ipv4_hdr of src/src/ip.c puts into an IPv4 header, and *)
(* the checksum csum of src/src/csum.c computes, for a header or for a     *)
(* buffer of a client of csum.h: one of its own, or a packet behind the    *)
(* pseudo header of craft_ipv4_psd_hdr, put together by build_packet of    *)
(* data_util.c. An iteration of a loop of csum is a step.                  *)
(*                                                                         *)
(* The program runs on a little-endian machine: the 16-bit word csum reads *)
(* at an address has its low byte there. A uint32_t is the sequence of its *)
(* bytes, lowest first. An address is the sequence of its numbers, as the  *)
(* client has it: in the text it gives to inet_addr, or from the high byte *)
(* of a number it gives to htonl. The header of a call of create_ipv4_hdr  *)
(* is a record of its other arguments and of the ID it gets.               *)
(***************************************************************************)
EXTENDS Integers, Sequences

CONSTANTS
  Messages,   \* the buffers, sequences of bytes, clients give to csum
  Packets,    \* packets of UDP clients compute a checksum for
  Arguments,  \* the arguments of create_ipv4_hdr
  SockOpts,   \* the options of the sockets of ipv4_transmit_datagram
  Addrs,      \* the source and destination addresses of clients
  Beyond      \* bytes of options, and behind the header's block of 20

Byte == 0 .. 255
MaxU16 == 65535
U16 == 0 .. MaxU16

ipv4_hdr_arguments ==
  [tos : Byte, f_off_vcf : U16, ttl : Byte, option_type : Byte,
   option_len : Byte, tlen : U16, id : U16 \ {0}]

IPV4_TOS_PRE == 0 .. 7

ipv4_socket_options ==
  [pre : IPV4_TOS_PRE, low_delay : 0 .. 1, high_throughput : 0 .. 1,
   high_reliability : 0 .. 1, no_fragment : 0 .. 1, ttl : Byte]

IPV4_OPTION_NUMBER ==
  [END_OF_OPTION_LIST |-> 0, NO_OPERATION |-> 1, SECURITY |-> 2,
   LOOSE_SOURCE_ROUTING |-> 3, INTERNET_TIMESTAMP |-> 4, RECORD_ROUTE |-> 7,
   STREAM_ID |-> 8, STRICT_SOURCE_ROUTING |-> 9]

\* The number in an option type, below the copied flag and the class.
OptionNumber(type) == type % 32

\* A packet has the 16 bits of UDP's length; a number has four bytes.
ASSUME Ipv4HdrAssumption ==
  /\ Messages \subseteq Seq(Byte)
  /\ Arguments # {} /\ Arguments \subseteq ipv4_hdr_arguments
  /\ \A a \in Arguments : \E name \in DOMAIN IPV4_OPTION_NUMBER :
       OptionNumber(a.option_type) = IPV4_OPTION_NUMBER[name]
  /\ SockOpts # {} /\ SockOpts \subseteq ipv4_socket_options
  /\ Packets \subseteq Seq(Byte) /\ \A p \in Packets : Len(p) <= MaxU16
  /\ Addrs # {}
  /\ Addrs \subseteq [form : {"text", "number"}, src : Seq(Nat), dst : Seq(Nat)]
  /\ \A a \in Addrs : a.form = "number" =>
       \A s \in {a.src, a.dst} : Len(s) = 4 /\ s \in Seq(Byte)
  /\ Beyond \subseteq Byte

VARIABLES
  pc,      \* the loop of csum that runs: "words", "fold"; else "idle", "dead"
  call,    \* what runs or ran: "none", "csum", "packet", "header", or
           \* "datagram", of which the packet is made from the header
  args,    \* the arguments, if it is "header" or "datagram"
  sopts,   \* the socket's options, if it is "datagram"
  addrs,   \* the source and destination address
  buf,     \* the bytes at data, size of them from the first to be read
  size,    \* csum's size: how many bytes are left
  sum,
  result   \* what csum returned

vars == <<pc, call, args, sopts, addrs, buf, size, sum, result>>
inputs == <<call, args, sopts, addrs>>

hi(x) == x \div 256
lo(x) == x % 256

\* The bytes of htons(x), lowest first.
Htons(x) == <<hi(x), lo(x)>>

-----------------------------------------------------------------------------
(* inet_addr, htonl, craft_ipv4_psd_hdr and build_packet *)

\* inet_addr reads the text to its end without a fault: its loop takes four
\* numbers, and without any it is not entered.
Readable(a) ==
  a.form = "text" => \A s \in {a.src, a.dst} : Len(s) = 0 \/ Len(s) >= 4

\* ret |= val << (i * 8), of each number what a uint8_t keeps.
InetAddr(s) == [k \in 1 .. 4 |-> IF s = <<>> THEN 0 ELSE s[k] % 256]

\* bswap_16 of either half, and the halves exchanged.
Bswap32(b) == <<b[4], b[3], b[2], b[1]>>

\* The parameter is a uint16_t.
Htonl(b) == Bswap32(<<b[1], b[2], 0, 0>>)

\* The uint32_t a client makes of its address.
AddrOf(form, s) ==
  IF form = "text" THEN InetAddr(s) ELSE Htonl(<<s[4], s[3], s[2], s[1]>>)

AddrsOf(a) == AddrOf(a.form, a.src) \o AddrOf(a.form, a.dst)

\* Mutant: zero and ptcl are exchanged.
PsdHdrSwapped(a, n) == AddrsOf(a) \o <<17, 0, lo(n), hi(n)>>

\* The pseudo header of UDP; its length is stored as it is.
PsdHdr(a, n) == AddrsOf(a) \o <<0, 17, lo(n), hi(n)>>

BuildPacket(iphdr, packet) == iphdr \o packet

-----------------------------------------------------------------------------
(* create_ipv4_hdr *)

ipv4_hdr_size == 20

\* Mutant: a length that is no multiple of 4 is rounded down.
RoundDown(n) == n

\* ip.c:172-174 adds 4 to a length that is no multiple of 4.
Round(n) == IF n % 4 = 0 THEN n ELSE n + (n % 4) + (4 - (n % 4))

\* ip.c:164-174
HdrLen(a) ==
  Round(ipv4_hdr_size
          + (IF a.option_type # 0 THEN 1 ELSE 0)
          + (IF a.option_len # 0 THEN 1 + a.option_len ELSE 0))

\* A field of 4 bits.
Ihl(a) == (HdrLen(a) \div 4) % 16

\* Mutant: the sum is kept as an int.
TotalLenAsInt(a) == HdrLen(a) + a.tlen

\* Mutant: the header is not counted.
TotalLenOfPayload(a) == a.tlen

\* htons(len + tlen): the high byte first.
TotalLen(a) == (HdrLen(a) + a.tlen) % 65536

DONT_FRAGMENT == 64

\* The bit DONT_FRAGMENT << 8 is set in a 16-bit word.
WithDontFragment(x) ==
  IF (hi(x) \div DONT_FRAGMENT) % 2 = 1 THEN x ELSE x + 256 * DONT_FRAGMENT

\* The fields in their order; the ID is stored as it is. The checksum is 0, and
\* the protocol 17, as in main.c.
Image(a, ad) ==
  <<4 * 16 + Ihl(a), a.tos>> \o Htons(TotalLen(a)) \o <<lo(a.id), hi(a.id)>>
    \o Htons(WithDontFragment(a.f_off_vcf)) \o <<a.ttl, 17, 0, 0>> \o AddrsOf(ad)

\* Mutant: the length octet goes before the type.
BehindHdrSwapped(a, data, fill) ==
  [k \in 1 .. (HdrLen(a) - ipv4_hdr_size) |->
     IF k = 2 /\ a.option_type # 0 THEN a.option_type
     ELSE IF k = 1 /\ a.option_len # 0 THEN a.option_len
     ELSE IF k \in 3 .. (2 + a.option_len) THEN data
     ELSE fill]

\* What csum finds behind the 20 bytes: the options ip.c:194-200 copies there,
\* and, up to the length, what the memory happens to hold.
BehindHdr(a, data, fill) ==
  [k \in 1 .. (HdrLen(a) - ipv4_hdr_size) |->
     IF k = 1 /\ a.option_type # 0 THEN a.option_type
     ELSE IF k = 2 /\ a.option_len # 0 THEN a.option_len
     ELSE IF a.option_len # 0 /\ k \in 3 .. (2 + a.option_len) THEN data
     ELSE fill]

\* The values of args, sopts and addrs that no one reads.
NoMatter == CHOOSE a \in Arguments : TRUE
NoOpts == CHOOSE o \in SockOpts : TRUE
NoAddrs == CHOOSE a \in Addrs : TRUE

Init ==
  /\ pc = "idle" /\ call = "none"
  /\ args = NoMatter /\ sopts = NoOpts /\ addrs = NoAddrs
  /\ buf = <<>> /\ size = 0 /\ sum = 0 /\ result = 0

\* csum begins with the bytes b.
StartCsum(b) ==
  /\ buf' = b /\ size' = Len(b)
  /\ sum' = 0 /\ result' = 0
  /\ pc' = "words"

\* inet_addr or htonl for both addresses and create_ipv4_hdr, up to
\* csum((uint16_t *)iph, len).
CreateIpv4Hdr(a, ad, data, fill) ==
  /\ pc = "idle" /\ Readable(ad)
  /\ call' = "header" /\ args' = a /\ sopts' = NoOpts /\ addrs' = ad
  /\ StartCsum(Image(a, ad) \o BehindHdr(a, data, fill))

WithoutOptions(a) == [a EXCEPT !.option_type = 0, !.option_len = 0]

\* create_std_ipv4_hdr, for the data and the ID of a.
StdArguments(a) ==
  [WithoutOptions(a) EXCEPT !.tos = 16, !.f_off_vcf = 0, !.ttl = 64]

\* Mutant: the header has the default time to live.
DatagramArgumentsTtl(o, a) ==
  [WithoutOptions(a) EXCEPT !.tos = 0, !.f_off_vcf = o.no_fragment, !.ttl = 64]

\* What ipv4_transmit_datagram passes for a socket with the options o.
DatagramArguments(o, a) ==
  [WithoutOptions(a) EXCEPT !.tos = 0, !.f_off_vcf = o.no_fragment, !.ttl = o.ttl]

TransmitDatagram(o, a, ad) ==
  /\ pc = "idle" /\ Readable(ad)
  /\ call' = "datagram" /\ sopts' = o /\ addrs' = ad
  /\ args' = DatagramArguments(o, a)
  /\ StartCsum(Image(DatagramArguments(o, a), ad))

\* A call of csum by a client.
CallCsum(m) ==
  /\ pc = "idle"
  /\ call' = "csum" /\ args' = NoMatter /\ sopts' = NoOpts /\ addrs' = NoAddrs
  /\ StartCsum(m)

\* A client computes the checksum of a UDP packet, header and payload.
CallCsumPacket(packet, ad) ==
  /\ pc = "idle" /\ Readable(ad)
  /\ call' = "packet" /\ args' = NoMatter /\ sopts' = NoOpts /\ addrs' = ad
  /\ StartCsum(BuildPacket(PsdHdr(ad, Len(packet) % 65536), packet))

\* inet_addr has no fourth number to convert, or no memory for its copy; or the
\* assertions of craft_ipv4_psd_hdr and build_packet fail.
Dies ==
  /\ pc = "idle"
  /\ pc' = "dead"
  /\ UNCHANGED <<inputs, buf, size, sum, result>>

-----------------------------------------------------------------------------
(* csum *)

\* The word at data, when "left" bytes are left of the buffer.
Word(left) == LET k == Len(buf) - left IN buf[k + 1] + 256 * buf[k + 2]

\* while (size > 1)
AddWord ==
  /\ pc = "words" /\ size > 1
  /\ sum' = sum + Word(size)
  /\ size' = size - 2
  /\ UNCHANGED <<pc, inputs, buf, result>>

\* (*(uint8_t*)data) << 8
Padded(b) == b * 256

\* if (size > 0)
AddLastByte ==
  /\ pc = "words" /\ size <= 1
  /\ sum' = IF size = 1 THEN sum + Padded(buf[Len(buf)]) ELSE sum
  /\ pc' = "fold"
  /\ UNCHANGED <<inputs, buf, size, result>>

\* sum >> 16
Carry(s) == s \div 65536

\* Mutant: the carries are dropped.
FoldedWithoutCarry(s) == s % 65536

\* Mutant: nothing is shifted out.
NotFolded(s) == s

Folded(s) == (s % 65536) + Carry(s)

\* while (sum >> 16)
Fold ==
  /\ pc = "fold" /\ Carry(sum) # 0
  /\ sum' = Folded(sum)
  /\ UNCHANGED <<pc, inputs, buf, size, result>>

\* return (uint16_t)~sum, which create_ipv4_hdr stores in iph->csum.
Return ==
  /\ pc = "fold" /\ Carry(sum) = 0
  /\ result' = MaxU16 - sum
  /\ pc' = "idle"
  /\ UNCHANGED <<inputs, buf, size, sum>>

Csum == AddWord \/ AddLastByte \/ Fold \/ Return

Next ==
  \/ \E a \in Arguments, ad \in Addrs, data, fill \in Beyond :
       CreateIpv4Hdr(a, ad, data, fill)
  \/ \E a \in Arguments, ad \in Addrs, fill \in Beyond :
       CreateIpv4Hdr(StdArguments(a), ad, fill, fill)
  \/ \E o \in SockOpts, a \in Arguments, ad \in Addrs : TransmitDatagram(o, a, ad)
  \/ \E m \in Messages : CallCsum(m)
  \/ \E packet \in Packets, ad \in Addrs : CallCsumPacket(packet, ad)
  \/ Dies
  \/ Csum

Spec == Init /\ [][Next]_vars

\* The thread that is in csum goes on.
FairSpec == Spec /\ WF_vars(Csum)

-----------------------------------------------------------------------------
(* The checksum as a receiver defines it (RFC 1071): the one's complement  *)
(* sum of the 16-bit words, in either byte order, is a sum modulo 65535.   *)

Padded16(b) == IF Len(b) % 2 = 0 THEN b ELSE Append(b, 0)

Word16(b, k) == b[2 * k - 1] + 256 * b[2 * k]

\* Sums(b)[k]: the sum of the first k words.
Sums(b) ==
  LET s[k \in 0 .. (Len(b) \div 2)] == IF k = 0 THEN 0 ELSE s[k - 1] + Word16(b, k)
  IN s

SumOfWords(b) == LET p == Padded16(b) IN Sums(p)[Len(p) \div 2]

OnesSum(s) == s % MaxU16

\* Bytes b and checksum c together have the sum "all ones".
Verifies(b, c) == OnesSum(SumOfWords(b) + c) = 0

Returned(c) == pc = "idle" /\ call = c

-----------------------------------------------------------------------------
(* Properties.                                                             *)

\* The bytes are bytes, csum reads no byte behind them, and returns 16 bits.
TypeOK ==
  /\ pc \in {"idle", "words", "fold", "dead"}
  /\ call \in {"none", "csum", "packet", "header", "datagram"}
  /\ args \in ipv4_hdr_arguments
  /\ sopts \in SockOpts
  /\ addrs \in Addrs
  /\ buf \in Seq(Byte)
  /\ size \in 0 .. Len(buf)
  /\ sum \in Nat
  /\ result \in U16

\* A receiver's sum over a buffer of even length and its checksum is all ones
\* (csum.h:95-99): the loops of csum compute the one's complement sum, with all
\* carries, although they read the words in the machine's byte order.
EvenBuffersVerify ==
  Returned("csum") /\ Len(buf) % 2 = 0 => Verifies(buf, result)

\* "ones' complement of the ones sum of all 16-bit words in ... payload", of any
\* length: "pad with 0 to match 16 bit boundaries" (csum.h:98-101, csum.c:82).
\* The word csum.c:83 makes of a last odd byte has the byte in its upper half; on
\* a little-endian machine the padding 0 has to be there.
BuffersVerify == Returned("csum") => Verifies(buf, result)

\* An address of four numbers that fit a byte.
IsDottedQuad(s) == Len(s) = 4 /\ \A k \in 1 .. 4 : s[k] < 256

SrcOnWire == SubSeq(buf, 13, 16)
DstOnWire == SubSeq(buf, 17, 20)

\* A header without options, like those of create_std_ipv4_hdr and
\* ipv4_transmit_datagram, verifies at a receiver, who takes its length from
\* it, and says how long the datagram is, whenever 16 bits can; the addresses,
\* which only inet_addr has put into network order (data_util.c:59), are in
\* the order they are written.
PlainHeadersVerify ==
  (Returned("header") \/ Returned("datagram"))
      /\ args.option_type = 0 /\ args.option_len = 0 =>
    /\ 4 * (buf[1] % 16) = Len(buf)
    /\ Verifies(buf, result)
    /\ args.tlen <= MaxU16 - ipv4_hdr_size =>
         256 * buf[3] + buf[4] = ipv4_hdr_size + args.tlen
    /\ addrs.form = "text" /\ IsDottedQuad(addrs.src) => SrcOnWire = addrs.src
    /\ addrs.form = "text" /\ IsDottedQuad(addrs.dst) => DstOnWire = addrs.dst

\* The fragment fields, as a receiver reads them.
DontFragment(b) == (b[7] \div 64) % 2 = 1
MoreFragments(b) == (b[7] \div 32) % 2 = 1
FragmentOffset(b) == 256 * (b[7] % 32) + b[8]

\* What ttl and no_fragment of a socket do to its datagrams (ip.c:232-234): ttl is
\* the time to live, every datagram has the flag "don't fragment", and
\* no_fragment makes it, with that flag, the fragment of a datagram whose first
\* 8 bytes are missing, which no receiver can deliver.
SocketOptionsOnWire ==
  Returned("datagram") =>
    /\ buf[9] = sopts.ttl
    /\ DontFragment(buf) /\ ~MoreFragments(buf)
    /\ 8 * FragmentOffset(buf) = IF sopts.no_fragment = 1 THEN 8 ELSE 0

\* The options that ip.c:194-200 copies behind the header.
OptionsEnd(a) ==
  ipv4_hdr_size + (IF a.option_len # 0 THEN 2 + a.option_len
                   ELSE IF a.option_type # 0 THEN 1 ELSE 0)

\* The length rounding of ip.c:172-174 never aligns the length, but what the
\* receiver reads, ihl = len / 4, is the least number of 32-bit words that
\* holds the options, as long as 4 bits can say it.
IhlCoversOptions ==
  Returned("header") /\ args.option_type # 0 /\ OptionsEnd(args) <= 60 =>
    LET ihl == buf[1] % 16 IN
      /\ OptionsEnd(args) <= 4 * ihl
      /\ 4 * (ihl - 1) < OptionsEnd(args)

\* An option that is its type octet and nothing else.
SingleOctet(type) ==
  OptionNumber(type) \in
    {IPV4_OPTION_NUMBER.END_OF_OPTION_LIST, IPV4_OPTION_NUMBER.NO_OPERATION}

\* Where a receiver looks for the next option, after the one at b[k]: the second
\* octet of an option is its length, with type and length octet (RFC 791, 3.1).
NextOption(b, k) == IF SingleOctet(b[k]) THEN k + 1 ELSE k + b[k + 1]

\* ip.c:198 stores the number of octets in option_buf where the receiver reads
\* the length of the option: the option is there without its last two octets,
\* and the next "option" of the receiver is the last but one.
OptionReadShort ==
  Returned("header") /\ ~SingleOctet(args.option_type)
      /\ args.option_len >= 2 /\ OptionsEnd(args) <= 60 =>
    NextOption(buf, ipv4_hdr_size + 1) = OptionsEnd(args) - 1

\* What the receiver of a UDP packet sums: RFC 768 has the length in network
\* byte order.
ReceiverSees(b) ==
  LET n == Len(b) - 12
  IN [b EXCEPT ![9] = 0, ![10] = 17, ![11] = hi(n), ![12] = lo(n)]

\* craft_ipv4_psd_hdr stores the length without htons (csum.c:64), unlike
\* create_udp_hdr: the checksum over its pseudo header verifies at a receiver
\* just when the two bytes of the length are equal.
PacketVerifiesIfBytesEqual ==
  Returned("packet") /\ (Len(buf) % 2 = 0 \/ buf[Len(buf)] = 0) =>
    LET n == Len(buf) - 12 IN
      Verifies(ReceiverSees(buf), result) <=> hi(n) = lo(n)

\* csum returns: its second loop gets to a sum of 16 bits.
CsumReturns == pc \in {"words", "fold"} ~> pc = "idle"

-----------------------------------------------------------------------------
(* The inductive invariant: the bytes in the buffer are those of the last  *)
(* call, and csum's sum is, modulo 65535, the sum of the words it has read.*)

BytesShape ==
  /\ call = "header" => \E data, fill \in Beyond :
       buf = Image(args, addrs) \o BehindHdr(args, data, fill)
  /\ call = "datagram" =>
       /\ \E a \in Arguments : args = DatagramArguments(sopts, a)
       /\ buf = Image(args, addrs)
  /\ call = "packet" => \E packet \in Packets :
       buf = BuildPacket(PsdHdr(addrs, Len(packet)), packet)
  /\ call \in {"packet", "header", "datagram"} => Readable(addrs)

\* What csum's first loop and its last byte add up to.
Total(b) ==
  Sums(b)[Len(b) \div 2] + (IF Len(b) % 2 = 1 THEN Padded(b[Len(b)]) ELSE 0)

HasReturned == pc = "idle" /\ call # "none"

SumShape ==
  /\ pc = "words" =>
       (Len(buf) - size) % 2 = 0 /\ sum = Sums(buf)[(Len(buf) - size) \div 2]
  /\ pc = "fold" \/ HasReturned => OnesSum(sum) = OnesSum(Total(buf))
  /\ HasReturned => sum <= MaxU16 /\ result = MaxU16 - sum

\* No carry is lost in the 32 bits an unsigned long has at least.
SumFits == Len(buf) < 2 * MaxU16 => Carry(sum) <= MaxU16

HdrInv == TypeOK /\ BytesShape /\ SumShape /\ SumFits
=============================================================================
