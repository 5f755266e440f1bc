-------------------------------- MODULE Slip --------------------------------
(***************************************************************************)
(* slip_transmit of src/src/slip.c, the UART it polls, and the receiver at *)
(* the other end of the serial line (RFC 1055, whose END, ESC, ESC_END and *)
(* ESC_ESC are the constants of slip.h). The UART and the receiver are not *)
(* part of the repository.                                                 *)
(*                                                                         *)
(* inb() of the line status register and outb() of a byte are steps of     *)
(* their own: the UART empties its transmitter holding register while the  *)
(* program runs, and a byte written to a full register replaces the one    *)
(* that is there. Only the values slip_transmit compares a byte with are   *)
(* told apart.                                                             *)
(*                                                                         *)
(* The program is the one built for LF-OS: its platform file asks for the  *)
(* ports of the UART, and outb takes the port first, as slip.c:49 calls    *)
(* it. On Linux nothing asks for the ports (SlipFaults in UdpSend), and    *)
(* outb of the C library takes the byte first.                             *)
(***************************************************************************)
EXTENDS Integers, Sequences

CONSTANTS
  Data,        \* the bytes that mean nothing to SLIP
  MaxLen,      \* bound: bytes of a packet
  MaxPackets   \* bound: packets, but for those of no byte

Bytes == Data \cup {"END", "ESC", "ESC_END", "ESC_ESC"}
NoByte == "none"

ASSUME SlipAssumption ==
  /\ MaxLen \in Nat /\ MaxPackets \in Nat
  /\ Data \cap {"END", "ESC", "ESC_END", "ESC_ESC", NoByte} = {}

Packets == UNION {[1 .. n -> Bytes] : n \in 0 .. MaxLen}

VARIABLES
  pc,         \* what slip_transmit writes next; "idle" between two calls
  data, i,    \* its argument and loop counter (from 1)
  ready,      \* serial_wait has seen bit 0x20 of the line status register
  thr,        \* the transmitter holding register, or NoByte
  esc, buf,   \* the receiver: an ESC was the last byte; the packet so far
  sent,       \* history: the packets, but for those of no byte, that
              \* slip_transmit was given
  delivered   \* the packets the receiver has passed on

vars == <<pc, data, i, ready, thr, esc, buf, sent, delivered>>
receiver == <<esc, buf, delivered>>

-----------------------------------------------------------------------------
(* slip_transmit *)

\* The byte that precedes c, and c.
Escape(c) ==
  CASE c = "END" -> <<"ESC_END">>
    [] c = "ESC" -> <<"ESC_ESC">>
    [] OTHER -> <<>>

\* Mutant: no END after the packet.
AtByteNoEnd(k) ==
  IF k > Len(data) THEN "idle"
  ELSE IF Escape(data[k]) # <<>> THEN "escape" ELSE "byte"

\* What the loop writes next when it is at data[k].
AtByte(k) ==
  IF k > Len(data) THEN "last_end"
  ELSE IF Escape(data[k]) # <<>> THEN "escape" ELSE "byte"

Init ==
  /\ pc = "idle" /\ data = <<>> /\ i = 1 /\ ready = FALSE
  /\ thr = NoByte
  /\ esc = FALSE /\ buf = <<>> /\ delivered = <<>>
  /\ sent = <<>>

\* Mutant: the counter keeps its value from the last call.
SlipTransmitKeepsIndex(p) ==
  /\ pc = "idle" /\ Len(sent) < MaxPackets
  /\ data' = p
  /\ sent' = IF p = <<>> THEN sent ELSE Append(sent, p)
  /\ pc' = "first_end"
  /\ UNCHANGED <<i, ready, thr, receiver>>

\* link_tx calls slip_transmit.
SlipTransmit(p) ==
  /\ pc = "idle" /\ Len(sent) < MaxPackets
  /\ data' = p /\ i' = 1
  /\ sent' = IF p = <<>> THEN sent ELSE Append(sent, p)
  /\ pc' = "first_end"
  /\ UNCHANGED <<ready, thr, receiver>>

\* Mutant: the loop waits for the bit to be clear.
SerialWaitInverted ==
  /\ pc # "idle" /\ ~ready
  /\ thr # NoByte
  /\ ready' = TRUE
  /\ UNCHANGED <<pc, data, i, thr, receiver, sent>>

\* serial_wait: inb(port + 5) & 0x20 is set once the register is empty.
SerialWait ==
  /\ pc # "idle" /\ ~ready
  /\ thr = NoByte
  /\ ready' = TRUE
  /\ UNCHANGED <<pc, data, i, thr, receiver, sent>>

\* outb(port, c), and on to what slip_transmit writes next.
Outb(c) == ready /\ ready' = FALSE /\ thr' = c

\* Mutant: no END before the packet.
FirstEndOmitted ==
  /\ pc = "first_end"
  /\ pc' = AtByte(i)
  /\ UNCHANGED <<data, i, ready, thr, receiver, sent>>

\* Mutant: the END before the packet does not wait for the one after the last.
FirstEndNoWait ==
  /\ pc = "first_end"
  /\ thr' = "END" /\ ready' = FALSE
  /\ pc' = AtByte(i)
  /\ UNCHANGED <<data, i, receiver, sent>>

FirstEnd ==
  /\ pc = "first_end"
  /\ Outb("END")
  /\ pc' = AtByte(i)
  /\ UNCHANGED <<data, i, receiver, sent>>

EscapeCode ==
  /\ pc = "escape"
  /\ Outb(Escape(data[i])[1])
  /\ pc' = "byte"
  /\ UNCHANGED <<data, i, receiver, sent>>

Byte ==
  /\ pc = "byte"
  /\ Outb(data[i])
  /\ i' = i + 1
  /\ pc' = AtByte(i + 1)
  /\ UNCHANGED <<data, receiver, sent>>

LastEnd ==
  /\ pc = "last_end"
  /\ Outb("END")
  /\ pc' = "idle"
  /\ UNCHANGED <<data, i, receiver, sent>>

Write == FirstEnd \/ EscapeCode \/ Byte \/ LastEnd
Transmit == SerialWait \/ Write

-----------------------------------------------------------------------------
(* The UART, and an RFC 1055 receiver.                                     *)

\* A byte after ESC: an escape code, or any other byte for itself.
Unescape(c) ==
  CASE c = "ESC_END" -> "END"
    [] c = "ESC_ESC" -> "ESC"
    [] OTHER -> c

\* The receiver gets byte c.
Receive(c) ==
  \/ /\ esc
     /\ buf' = Append(buf, Unescape(c)) /\ esc' = FALSE
     /\ UNCHANGED delivered
  \/ /\ ~esc /\ c = "ESC"
     /\ esc' = TRUE
     /\ UNCHANGED <<buf, delivered>>
  \/ /\ ~esc /\ c = "END"
     /\ delivered' = IF buf = <<>> THEN delivered ELSE Append(delivered, buf)
     /\ buf' = <<>>
     /\ UNCHANGED esc
  \/ /\ ~esc /\ c \notin {"END", "ESC"}
     /\ buf' = Append(buf, c)
     /\ UNCHANGED <<esc, delivered>>

\* The UART puts the byte of its register on the line.
UartShift ==
  /\ thr # NoByte
  /\ Receive(thr)
  /\ thr' = NoByte
  /\ UNCHANGED <<pc, data, i, ready, sent>>

Next ==
  \/ \E p \in Packets : SlipTransmit(p)
  \/ Transmit
  \/ UartShift

Spec == Init /\ [][Next]_vars

\* The thread runs, and the UART is clocked; calls need not come.
FairSpec == Spec /\ WF_vars(Transmit) /\ WF_vars(UartShift)

-----------------------------------------------------------------------------
(* Properties.                                                             *)

\* The program's and the receiver's variables hold bytes and packets.
TypeOK ==
  /\ pc \in {"idle", "first_end", "escape", "byte", "last_end"}
  /\ data \in Packets
  /\ i \in 1 .. (Len(data) + 1)
  /\ ready \in BOOLEAN
  /\ thr \in Bytes \cup {NoByte}
  /\ esc \in BOOLEAN
  /\ buf \in Seq(Bytes)
  /\ sent \in Seq(Packets \ {<<>>})
  /\ delivered \in Seq(Seq(Bytes) \ {<<>>})

\* No byte is written over one that is still in the UART's register, be it the
\* same: serial_wait (slip.c:43-45) keeps outb from it within a packet, and from
\* the last END of one call to the first END of the next.
NoOverrun == [][Write => thr = NoByte]_vars

Quiet == pc = "idle" /\ thr = NoByte

Plain(p) == \A k \in DOMAIN p : p[k] \notin {"END", "ESC"}
AllPlain == \A k \in DOMAIN sent : Plain(sent[k])
IsPrefixOf(s, t) == Len(s) <= Len(t) /\ \A k \in DOMAIN s : s[k] = t[k]

\* While all packets are free of END and ESC, the receiver passes on those that
\* were sent, whole, once and in their order, and all of them once it is quiet.
PlainPacketsInOrder ==
  AllPlain => IsPrefixOf(delivered, sent) /\ (Quiet => delivered = sent)

\* The END before a packet (slip.c:60) ends whatever the packets before it left
\* in the receiver: a packet free of END and ESC arrives whole also after one
\* whose bytes slip_transmit does not escape as the receiver expects.
Last(s) == s[Len(s)]
Arrived == delivered # <<>> /\ Last(delivered) = Last(sent)
PlainPacketResynchronises ==
  Quiet /\ sent # <<>> /\ Plain(Last(sent)) => Arrived

\* A call of slip_transmit returns, and so link_tx and udp_send do: serial_wait
\* has no timeout and relies on the UART alone.
CallReturns == pc # "idle" ~> pc = "idle"

\* "Serial Line Internet Protocol (SLIP) implementation" (slip.c:33): a SLIP
\* receiver gets the packets that were sent, whatever their bytes.
PacketsArrive == Quiet => delivered = sent

-----------------------------------------------------------------------------
(* The inductive invariant behind the properties: what the receiver has of *)
(* the packet that is being sent, and of those before it, at each step.    *)

Between == pc \in {"idle", "first_end"}
InPacket == pc \in {"byte", "last_end"}

\* Bytes wait for the register, and only an END is left in it between two calls.
LineShape ==
  /\ ready => pc # "idle" /\ thr = NoByte
  /\ pc = "first_end" => i = 1
  /\ pc \in {"escape", "byte"} => i <= Len(data)
  /\ pc = "escape" => data[i] \in {"END", "ESC"}
  /\ pc \in {"idle", "last_end"} => i = Len(data) + 1
  /\ Between => thr \in {NoByte, "END"} /\ (thr = NoByte => ~esc)

\* The receiver has the first n bytes of the packet.
Holds(n) == Len(buf) = n /\ \A k \in 1 .. n : buf[k] = data[k]

\* A packet free of END and ESC, whatever was sent before it.
PacketShape ==
  Plain(data) =>
    /\ pc # "escape"
    /\ InPacket =>
         /\ ~esc
         /\ i = 1 => thr \in {NoByte, "END"} /\ (thr = NoByte => Holds(0))
         /\ i > 1 /\ thr = NoByte => Holds(i - 1)
         /\ i > 1 /\ thr # NoByte => thr = data[i - 1] /\ Holds(i - 2)
    /\ pc = "idle" => IF thr = NoByte THEN buf = <<>> ELSE ~esc /\ Holds(Len(data))

\* The packets sent before the one of the last call.
Before == IF data = <<>> THEN Len(sent) ELSE Len(sent) - 1

SentShape == data # <<>> => sent # <<>> /\ Last(sent) = data

\* Without an END or ESC anywhere the packets before it were delivered, or the
\* last of them is, as soon as the END in the register is there.
OrderShape ==
  AllPlain =>
    /\ IsPrefixOf(delivered, sent)
    /\ Quiet => Len(delivered) = Len(sent)
    /\ pc = "first_end" =>
         /\ ~esc
         /\ thr = NoByte => buf = <<>>
         /\ buf # <<>> => Len(delivered) = Before - 1 /\ buf = sent[Before]
    /\ InPacket /\ i = 1 => buf = <<>>
    /\ ~Quiet /\ ~(pc = "first_end" /\ buf # <<>>) => Len(delivered) = Before

\* The last packet is delivered or, for one with only packets of no byte behind
\* it, about to be.
ArrivedShape ==
  sent # <<>> /\ Plain(Last(sent)) =>
    /\ Quiet => Arrived
    /\ data = <<>> /\ pc = "first_end" =>
         /\ ~esc
         /\ thr = NoByte => buf = <<>>
         /\ (buf = <<>> /\ Arrived) \/ buf = Last(sent)
    /\ data = <<>> /\ pc # "first_end" => Arrived /\ buf = <<>>

SlipInv ==
  TypeOK /\ LineShape /\ SentShape /\ PacketShape /\ OrderShape /\ ArrivedShape
=============================================================================
