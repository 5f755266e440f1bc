----------------------------- MODULE Slip_proofs -----------------------------
(***************************************************************************)
(* Proofs about Slip, for packets of any length and number, and any bytes: *)
(* what the receiver has of the packet that is being sent, and of those    *)
(* before it, at each step of slip_transmit and of the UART.               *)
(***************************************************************************)
EXTENDS Slip, TLAPS, SequenceTheorems

\* A packet is a sequence of bytes, and an END or ESC is a byte.
LEMMA PacketIsSeq ==
  /\ \A p \in Packets : /\ p \in Seq(Bytes) /\ Len(p) \in 0 .. MaxLen
                        /\ DOMAIN p = 1 .. Len(p)
                        /\ \A k \in 1 .. Len(p) : p[k] \in Bytes
  /\ <<>> \in Packets
  /\ NoByte \notin Bytes
  /\ {"END", "ESC", "ESC_END", "ESC_ESC"} \subseteq Bytes
<1>1. ASSUME NEW p \in Packets
      PROVE  /\ p \in Seq(Bytes) /\ Len(p) \in 0 .. MaxLen
             /\ DOMAIN p = 1 .. Len(p)
             /\ \A k \in 1 .. Len(p) : p[k] \in Bytes
  <2>1. PICK n \in 0 .. MaxLen : p \in [1 .. n -> Bytes]
    BY DEF Packets
  <2>2. n \in Nat
    BY SlipAssumption
  <2>3. p \in Seq(Bytes)
    BY <2>1, <2>2, SeqDef
  <2>4. Len(p) = n
    BY <2>1, <2>2, <2>3, LenProperties
  <2> QED
    BY <2>1, <2>3, <2>4
<1>2. <<>> \in Packets
  <2>1. <<>> \in [1 .. 0 -> Bytes]
    OBVIOUS
  <2>2. 0 \in 0 .. MaxLen
    BY SlipAssumption
  <2> QED
    BY <2>1, <2>2 DEF Packets
<1>3. NoByte \notin Bytes
  BY SlipAssumption DEF Bytes, NoByte
<1> QED
  BY <1>1, <1>2, <1>3 DEF Bytes

\* Two bytes have an escape code, an END and an ESC.
LEMMA EscapeCodes ==
  ASSUME NEW c
  PROVE  /\ Escape(c) # <<>> <=> c \in {"END", "ESC"}
         /\ c \in {"END", "ESC"} => Escape(c)[1] \in {"ESC_END", "ESC_ESC"}
<1>1. CASE c = "END"
  BY <1>1 DEF Escape
<1>2. CASE c = "ESC"
  BY <1>2 DEF Escape
<1>3. CASE c \notin {"END", "ESC"}
  BY <1>3 DEF Escape
<1> QED
  BY <1>1, <1>2, <1>3

\* Unescape leaves a byte a byte.
LEMMA Unescaped == \A c \in Bytes : Unescape(c) \in Bytes
<1> SUFFICES ASSUME NEW c \in Bytes PROVE Unescape(c) \in Bytes
  OBVIOUS
<1>1. CASE c = "ESC_END"
  BY <1>1 DEF Unescape, Bytes
<1>2. CASE c = "ESC_ESC"
  BY <1>2 DEF Unescape, Bytes
<1>3. CASE c \notin {"ESC_END", "ESC_ESC"}
  BY <1>3 DEF Unescape
<1> QED
  BY <1>1, <1>2, <1>3

\* What is appended comes last.
LEMMA Appended ==
  ASSUME NEW S, NEW s \in Seq(S), NEW e \in S
  PROVE  /\ Append(s, e) \in Seq(S)
         /\ Len(Append(s, e)) = Len(s) + 1 /\ Len(s) \in Nat
         /\ Append(s, e) # <<>>
         /\ Last(Append(s, e)) = e
         /\ \A k \in 1 .. Len(s) : Append(s, e)[k] = s[k]
         /\ DOMAIN s = 1 .. Len(s) /\ DOMAIN Append(s, e) = 1 .. (Len(s) + 1)
BY AppendProperties, LenProperties, EmptySeq DEF Last

\* Only the sequence of no element has length 0.
LEMMA EmptyOrNot ==
  ASSUME NEW S, NEW s \in Seq(S)
  PROVE  /\ Len(s) \in Nat /\ DOMAIN s = 1 .. Len(s)
         /\ s = <<>> <=> Len(s) = 0
         /\ s # <<>> => Last(s) \in S /\ Len(s) > 0
         /\ \A k \in 1 .. Len(s) : s[k] \in S
<1>1. /\ Len(s) \in Nat /\ DOMAIN s = 1 .. Len(s)
      /\ s = <<>> <=> Len(s) = 0
      /\ s # <<>> => Len(s) > 0
  BY LenProperties, EmptySeq
<1>2. \A k \in 1 .. Len(s) : s[k] \in S
  BY ElementOfSeq
<1> QED
  BY <1>1, <1>2 DEF Last

\* Where the loop of slip_transmit goes from its counter k.
LEMMA LoopGoes ==
  ASSUME TypeOK, NEW k \in 1 .. (Len(data) + 1)
  PROVE  /\ k = Len(data) + 1 => AtByte(k) = "last_end"
         /\ k <= Len(data) /\ data[k] \in {"END", "ESC"} => AtByte(k) = "escape"
         /\ k <= Len(data) /\ data[k] \notin {"END", "ESC"} => AtByte(k) = "byte"
<1>1. Len(data) \in Nat
  BY PacketIsSeq DEF TypeOK
<1> QED
  BY <1>1, EscapeCodes DEF AtByte

\* A plain packet behind plain ones leaves plain ones, if it is in sent at all.
LEMMA PlainLast ==
  ASSUME TypeOK, SentShape, AllPlain
  PROVE  Plain(data)
<1>1. CASE data = <<>>
  BY <1>1 DEF Plain
<1>2. CASE data # <<>>
  <2>1. sent # <<>> /\ Last(sent) = data
    BY <1>2 DEF SentShape
  <2>2. Len(sent) \in DOMAIN sent
    BY <2>1, EmptyOrNot DEF TypeOK
  <2> QED
    BY <2>1, <2>2 DEF AllPlain, Last
<1> QED
  BY <1>1, <1>2

\* Nothing is sent before the first call.
LEMMA InitSlip == Init => SlipInv
<1> SUFFICES ASSUME Init PROVE SlipInv
  OBVIOUS
<1>1. /\ pc = "idle" /\ data = <<>> /\ i = 1 /\ ready = FALSE /\ thr = NoByte
      /\ esc = FALSE /\ buf = <<>> /\ delivered = <<>> /\ sent = <<>>
      /\ Len(<<>>) = 0 /\ NoByte # "END"
  BY SlipAssumption DEF Init, NoByte
<1>2. TypeOK
  <2>1. /\ buf \in Seq(Bytes) /\ sent \in Seq(Packets \ {<<>>})
        /\ delivered \in Seq(Seq(Bytes) \ {<<>>})
    BY <1>1, EmptySeq
  <2>2. data \in Packets /\ i \in 1 .. (Len(data) + 1)
    BY <1>1, PacketIsSeq
  <2> QED
    BY <1>1, <2>1, <2>2 DEF TypeOK
<1>3. LineShape /\ SentShape
  BY <1>1 DEF LineShape, SentShape, Between
<1>4. PacketShape
  BY <1>1 DEF PacketShape, InPacket
<1>5. OrderShape
  BY <1>1 DEF OrderShape, IsPrefixOf, Quiet, InPacket
<1>6. ArrivedShape
  BY <1>1 DEF ArrivedShape
<1> QED
  BY <1>2, <1>3, <1>4, <1>5, <1>6 DEF SlipInv

\* The receiver and the packets do not know of the line status.
LEMMA SerialWaitStep == SlipInv /\ SerialWait => SlipInv'
<1> SUFFICES ASSUME SlipInv, SerialWait PROVE SlipInv'
  OBVIOUS
<1>1. /\ UNCHANGED <<pc, data, i, thr, esc, buf, sent, delivered>>
      /\ pc # "idle" /\ thr = NoByte /\ ready' = TRUE
  BY DEF SerialWait, receiver
<1>2. TypeOK' /\ SentShape' /\ LineShape'
  BY <1>1 DEF SlipInv, TypeOK, SentShape, LineShape, Between
<1>3. PacketShape'
  BY <1>1 DEF SlipInv, PacketShape, InPacket, Holds, Plain
<1>4. OrderShape'
  BY <1>1 DEF SlipInv, OrderShape, IsPrefixOf, Quiet, InPacket, AllPlain, Plain, Before
<1>5. ArrivedShape'
  BY <1>1 DEF SlipInv, ArrivedShape, Arrived, Quiet, Plain, Last
<1> QED
  BY <1>2, <1>3, <1>4, <1>5 DEF SlipInv

\* A call finds the receiver with the packet before it, or done with it.
LEMMA SlipTransmitStep ==
  ASSUME SlipInv, NEW p \in Packets, SlipTransmit(p)
  PROVE  SlipInv'
<1>1. /\ pc = "idle" /\ pc' = "first_end" /\ data' = p /\ i' = 1
      /\ UNCHANGED <<ready, thr, esc, buf, delivered>>
      /\ sent' = IF p = <<>> THEN sent ELSE Append(sent, p)
  BY DEF SlipTransmit, receiver
<1>2. /\ TypeOK /\ LineShape /\ SentShape
      /\ PacketShape /\ OrderShape /\ ArrivedShape
  BY DEF SlipInv
<1>3. /\ Len(sent) \in Nat /\ DOMAIN sent = 1 .. Len(sent)
      /\ sent # <<>> => Len(sent) > 0
  BY <1>2, EmptyOrNot DEF TypeOK
<1>4. p # <<>> => /\ sent' \in Seq(Packets \ {<<>>})
                  /\ sent' # <<>> /\ Last(sent') = p /\ Len(sent') = Len(sent) + 1
                  /\ \A k \in 1 .. Len(sent) : sent'[k] = sent[k]
                  /\ DOMAIN sent' = 1 .. (Len(sent) + 1)
  BY <1>1, <1>2, Appended DEF TypeOK
<1>5. TypeOK'
  <2>1. p \in Packets /\ 1 \in 1 .. (Len(p) + 1)
    BY PacketIsSeq
  <2> QED
    BY <1>1, <1>2, <1>4, <2>1 DEF TypeOK
<1>6. LineShape' /\ SentShape'
  BY <1>1, <1>2, <1>4 DEF LineShape, SentShape, Between
<1>7. PacketShape'
  BY <1>1 DEF PacketShape, InPacket
<1>8. ~esc \/ ~Plain(data)
  BY <1>1, <1>2 DEF LineShape, PacketShape, Between
<1>9. thr = NoByte => ~esc
  BY <1>1, <1>2 DEF LineShape, Between
<1>10. OrderShape'
  <2> SUFFICES ASSUME AllPlain' PROVE OrderShape'
    BY DEF OrderShape
  <2>1. AllPlain
    BY <1>1, <1>3, <1>4 DEF AllPlain, Plain
  <2>2. Plain(data)
    BY <1>2, <2>1, PlainLast
  <2>3. IsPrefixOf(delivered, sent)'
    <3>1. IsPrefixOf(delivered, sent)
      BY <1>2, <2>1 DEF OrderShape
    <3>2. /\ delivered' = delivered /\ Len(delivered) \in Nat
          /\ DOMAIN delivered = 1 .. Len(delivered)
      BY <1>1, <1>2, EmptyOrNot DEF TypeOK
    <3> QED
      BY <1>1, <1>3, <1>4, <3>1, <3>2 DEF IsPrefixOf
  <2>4. thr = NoByte => buf = <<>> /\ Len(delivered) = Len(sent)
    BY <1>1, <1>2, <2>1, <2>2 DEF OrderShape, PacketShape, Quiet
  <2>5. Before' = Len(sent)
    BY <1>1, <1>3, <1>4 DEF Before
  <2>6. thr # NoByte => Len(delivered) = Before /\ Holds(Len(data))
    BY <1>1, <1>2, <2>1, <2>2 DEF OrderShape, PacketShape, Quiet
  <2>7. CASE thr = NoByte
    BY <1>1, <1>9, <2>3, <2>4, <2>5, <2>7 DEF OrderShape, InPacket, Quiet
  <2>8. CASE thr # NoByte /\ data = <<>>
    <3>1. buf = <<>>
      BY <1>2, <2>6, <2>8, EmptyOrNot, EmptySeq DEF Holds, TypeOK
    <3> QED
      BY <1>1, <1>8, <2>2, <2>3, <2>5, <2>6, <2>8, <3>1
         DEF OrderShape, InPacket, Quiet, Before
  <2>9. CASE thr # NoByte /\ data # <<>>
    <3>1. buf = data /\ sent # <<>> /\ data = sent[Len(sent)]
      <4>1. data \in Seq(Bytes) /\ buf \in Seq(Bytes)
        BY <1>2, PacketIsSeq DEF TypeOK
      <4>2. Len(data) = Len(buf) /\ \A k \in 1 .. Len(buf) : buf[k] = data[k]
        BY <2>6, <2>9 DEF Holds
      <4> QED
        BY <1>2, <2>9, <4>1, <4>2, SeqEqual DEF SentShape, Last
    <3>2. sent'[Len(sent)] = data
      <4>1. Len(sent) \in 1 .. Len(sent)
        BY <1>3, <3>1
      <4>2. CASE p = <<>>
        BY <1>1, <3>1, <4>2
      <4>3. CASE p # <<>>
        BY <1>4, <3>1, <4>1, <4>3
      <4> QED
        BY <4>2, <4>3
    <3>3. Len(delivered) = Before' - 1
      BY <2>5, <2>6, <2>9 DEF Before
    <3> QED
      BY <1>1, <1>8, <2>2, <2>3, <2>5, <2>9, <3>1, <3>2, <3>3
         DEF OrderShape, InPacket, Quiet
  <2> QED
    BY <2>7, <2>8, <2>9
<1>11. ArrivedShape'
  <2> SUFFICES ASSUME p = <<>>, sent # <<>>, Plain(Last(sent))
               PROVE  /\ ~esc
                      /\ thr = NoByte => buf = <<>>
                      /\ (buf = <<>> /\ Arrived) \/ buf = Last(sent)
    BY <1>1 DEF ArrivedShape, Quiet, Plain, Last, Arrived
  <2>1. Plain(data)
    BY <1>2 DEF SentShape, Plain
  <2>2. ~esc /\ (thr = NoByte => buf = <<>>)
    BY <1>1, <1>2, <1>8, <2>1 DEF PacketShape
  <2>3. CASE thr = NoByte
    BY <1>1, <1>2, <2>2, <2>3 DEF ArrivedShape, Quiet
  <2>4. CASE data = <<>>
    BY <1>1, <1>2, <2>2, <2>4 DEF ArrivedShape
  <2>5. CASE thr # NoByte /\ data # <<>>
    <3>1. data \in Seq(Bytes) /\ buf \in Seq(Bytes)
      BY <1>2, PacketIsSeq DEF TypeOK
    <3>2. Len(data) = Len(buf) /\ \A k \in 1 .. Len(buf) : buf[k] = data[k]
      BY <1>1, <1>2, <2>1, <2>5 DEF PacketShape, Holds
    <3> QED
      BY <1>2, <2>2, <2>5, <3>1, <3>2, SeqEqual DEF SentShape
  <2> QED
    BY <2>2, <2>3, <2>4, <2>5
<1> QED
  BY <1>2, <1>5, <1>6, <1>7, <1>10, <1>11 DEF SlipInv

\* The END before a packet: the register was empty, so the receiver has what the
\* packet before it left there, and no ESC alone.
LEMMA FirstEndStep == SlipInv /\ FirstEnd => SlipInv'
<1> SUFFICES ASSUME SlipInv, FirstEnd PROVE SlipInv'
  OBVIOUS
<1>1. /\ pc = "first_end" /\ ready /\ ready' = FALSE /\ thr' = "END"
      /\ pc' = AtByte(i)
      /\ UNCHANGED <<data, i, esc, buf, delivered, sent>>
  BY DEF FirstEnd, Outb, receiver
<1>2. /\ TypeOK /\ LineShape /\ SentShape
      /\ PacketShape /\ OrderShape /\ ArrivedShape
  BY DEF SlipInv
<1>3. i = 1 /\ thr = NoByte /\ ~esc /\ Len(data) \in Nat
  BY <1>1, <1>2, PacketIsSeq DEF LineShape, Between, TypeOK
<1>4. /\ pc' \in {"escape", "byte", "last_end"}
      /\ pc' = "last_end" <=> Len(data) = 0
      /\ pc' = "escape" => data[1] \in {"END", "ESC"}
  BY <1>1, <1>2, <1>3, LoopGoes
<1>5. "END" # NoByte /\ "END" \in Bytes
  BY PacketIsSeq
<1>6. TypeOK'
  BY <1>1, <1>2, <1>4, <1>5 DEF TypeOK
<1>7. LineShape' /\ SentShape'
  BY <1>1, <1>2, <1>3, <1>4 DEF LineShape, SentShape, Between
<1>8. PacketShape'
  <2> SUFFICES ASSUME Plain(data) PROVE PacketShape'
    BY <1>1 DEF PacketShape, Plain
  <2>1. pc' # "escape"
    <3>1. Len(data) # 0 => data[1] \notin {"END", "ESC"}
      BY <1>2, <1>3, PacketIsSeq DEF Plain, TypeOK
    <3> QED
      BY <1>4, <3>1
  <2> QED
    BY <1>1, <1>3, <1>4, <1>5, <2>1 DEF PacketShape, InPacket
<1>9. OrderShape'
  <2> SUFFICES ASSUME AllPlain PROVE OrderShape'
    BY <1>1 DEF OrderShape, AllPlain, Plain
  <2>1. IsPrefixOf(delivered, sent) /\ buf = <<>> /\ Len(delivered) = Before
    BY <1>1, <1>2, <1>3 DEF OrderShape, Quiet
  <2> QED
    BY <1>1, <1>4, <2>1 DEF OrderShape, IsPrefixOf, Quiet, Before
<1>10. ArrivedShape'
  <2> SUFFICES ASSUME sent # <<>>, Plain(Last(sent)), data = <<>>
               PROVE  Arrived /\ buf = <<>>
    BY <1>1, <1>4 DEF ArrivedShape, Quiet, Arrived, Plain, Last
  <2>1. buf = <<>> /\ (Arrived \/ buf = Last(sent))
    BY <1>1, <1>2, <1>3 DEF ArrivedShape
  <2>2. Last(sent) # <<>>
    BY <1>2, EmptyOrNot DEF TypeOK
  <2> QED
    BY <2>1, <2>2
<1> QED
  BY <1>6, <1>7, <1>8, <1>9, <1>10 DEF SlipInv

\* An escape code goes ahead of a byte of a packet that is not plain.
LEMMA EscapeCodeStep == SlipInv /\ EscapeCode => SlipInv'
<1> SUFFICES ASSUME SlipInv, EscapeCode PROVE SlipInv'
  OBVIOUS
<1>1. /\ pc = "escape" /\ pc' = "byte" /\ ready' = FALSE
      /\ thr' = Escape(data[i])[1]
      /\ UNCHANGED <<data, i, esc, buf, delivered, sent>>
  BY DEF EscapeCode, Outb, receiver
<1>2. /\ TypeOK /\ LineShape /\ SentShape
      /\ PacketShape /\ OrderShape /\ ArrivedShape
  BY DEF SlipInv
<1>3. data[i] \in {"END", "ESC"} /\ i \in DOMAIN data /\ data # <<>>
  BY <1>1, <1>2, PacketIsSeq, EmptySeq DEF LineShape, TypeOK
<1>4. TypeOK'
  <2>1. thr' \in Bytes
    BY <1>1, <1>3, EscapeCodes, PacketIsSeq
  <2> QED
    BY <1>1, <1>2, <2>1 DEF TypeOK
<1>5. LineShape' /\ SentShape'
  BY <1>1, <1>2 DEF LineShape, SentShape, Between
<1>6. ~Plain(data) /\ ~AllPlain
  <2>1. ~Plain(data)
    BY <1>3 DEF Plain
  <2> QED
    BY <1>2, <2>1, PlainLast
<1>7. PacketShape' /\ OrderShape'
  BY <1>1, <1>6 DEF PacketShape, OrderShape, AllPlain, Plain
<1>8. ArrivedShape'
  BY <1>1, <1>3 DEF ArrivedShape, Quiet
<1> QED
  BY <1>4, <1>5, <1>7, <1>8 DEF SlipInv

\* The next byte goes to the register when the receiver has those before it.
LEMMA ByteStep == SlipInv /\ Byte => SlipInv'
<1> SUFFICES ASSUME SlipInv, Byte PROVE SlipInv'
  OBVIOUS
<1>1. /\ pc = "byte" /\ ready /\ ready' = FALSE /\ thr' = data[i]
      /\ i' = i + 1 /\ pc' = AtByte(i + 1)
      /\ UNCHANGED <<data, esc, buf, delivered, sent>>
  BY DEF Byte, Outb, receiver
<1>2. /\ TypeOK /\ LineShape /\ SentShape
      /\ PacketShape /\ OrderShape /\ ArrivedShape
  BY DEF SlipInv
<1>3. /\ thr = NoByte /\ i \in 1 .. Len(data) /\ Len(data) \in Nat
      /\ DOMAIN data = 1 .. Len(data)
      /\ data[i] \in Bytes /\ data[i] # NoByte /\ data # <<>>
  BY <1>1, <1>2, PacketIsSeq, EmptySeq DEF LineShape, TypeOK
<1>4. /\ i + 1 \in 1 .. (Len(data) + 1) /\ i + 1 > 1
      /\ pc' \in {"escape", "byte", "last_end"}
      /\ pc' = "last_end" <=> i + 1 = Len(data) + 1
      /\ pc' = "escape" => data[i + 1] \in {"END", "ESC"}
  <2>1. i + 1 \in 1 .. (Len(data) + 1)
    BY <1>3
  <2> QED
    BY <1>1, <1>2, <1>3, <2>1, LoopGoes
<1>5. TypeOK'
  BY <1>1, <1>2, <1>3, <1>4 DEF TypeOK
<1>6. LineShape' /\ SentShape'
  BY <1>1, <1>2, <1>3, <1>4 DEF LineShape, SentShape, Between
<1>7. PacketShape'
  <2> SUFFICES ASSUME Plain(data) PROVE PacketShape'
    BY <1>1 DEF PacketShape, Plain
  <2>1. pc' # "escape"
    BY <1>3, <1>4 DEF Plain
  <2>2. ~esc /\ Holds(i - 1)
    BY <1>1, <1>2, <1>3 DEF PacketShape, InPacket
  <2>3. (i + 1) - 1 = i /\ (i + 1) - 2 = i - 1
    BY <1>3
  <2> QED
    BY <1>1, <1>3, <1>4, <2>1, <2>2, <2>3 DEF PacketShape, InPacket, Holds
<1>8. OrderShape'
  <2> SUFFICES ASSUME AllPlain PROVE OrderShape'
    BY <1>1 DEF OrderShape, AllPlain, Plain
  <2>1. IsPrefixOf(delivered, sent) /\ Len(delivered) = Before
    BY <1>1, <1>2 DEF OrderShape, Quiet
  <2> QED
    BY <1>1, <1>3, <1>4, <2>1 DEF OrderShape, IsPrefixOf, Quiet, Before
<1>9. ArrivedShape'
  BY <1>1, <1>3, <1>4 DEF ArrivedShape, Quiet
<1> QED
  BY <1>5, <1>6, <1>7, <1>8, <1>9 DEF SlipInv

\* The END behind a packet: the receiver has all of a plain one.
LEMMA LastEndStep == SlipInv /\ LastEnd => SlipInv'
<1> SUFFICES ASSUME SlipInv, LastEnd PROVE SlipInv'
  OBVIOUS
<1>1. /\ pc = "last_end" /\ pc' = "idle" /\ ready /\ ready' = FALSE
      /\ thr' = "END"
      /\ UNCHANGED <<data, i, esc, buf, delivered, sent>>
  BY DEF LastEnd, Outb, receiver
<1>2. /\ TypeOK /\ LineShape /\ SentShape
      /\ PacketShape /\ OrderShape /\ ArrivedShape
  BY DEF SlipInv
<1>3. /\ thr = NoByte /\ i = Len(data) + 1 /\ Len(data) \in Nat
      /\ "END" # NoByte /\ "END" \in Bytes
  BY <1>1, <1>2, PacketIsSeq DEF LineShape, TypeOK
<1>4. TypeOK'
  BY <1>1, <1>2, <1>3 DEF TypeOK
<1>5. LineShape' /\ SentShape'
  BY <1>1, <1>2, <1>3 DEF LineShape, SentShape, Between
<1>6. PacketShape'
  <2> SUFFICES ASSUME Plain(data) PROVE PacketShape'
    BY <1>1 DEF PacketShape, Plain
  <2>1. ~esc /\ Holds(Len(data))
    BY <1>1, <1>2, <1>3 DEF PacketShape, InPacket
  <2> QED
    BY <1>1, <1>3, <2>1 DEF PacketShape, InPacket, Holds
<1>7. OrderShape'
  <2> SUFFICES ASSUME AllPlain PROVE OrderShape'
    BY <1>1 DEF OrderShape, AllPlain, Plain
  <2>1. IsPrefixOf(delivered, sent) /\ Len(delivered) = Before
    BY <1>1, <1>2 DEF OrderShape, Quiet
  <2> QED
    BY <1>1, <1>3, <2>1 DEF OrderShape, IsPrefixOf, Quiet, Before, InPacket
<1>8. ArrivedShape'
  BY <1>1, <1>2, <1>3 DEF ArrivedShape, Quiet, Arrived, Plain, Last
<1> QED
  BY <1>4, <1>5, <1>6, <1>7, <1>8 DEF SlipInv

\* An END ends what the receiver has, if that is anything.
LEMMA EndReceived ==
  ASSUME UartShift, ~esc, thr = "END"
  PROVE  /\ buf' = <<>> /\ ~esc'
         /\ delivered' = IF buf = <<>> THEN delivered ELSE Append(delivered, buf)
BY DEF UartShift, Receive

\* A byte that means nothing to SLIP is added to it.
LEMMA ByteReceived ==
  ASSUME UartShift, ~esc, thr \notin {"END", "ESC"}
  PROVE  buf' = Append(buf, thr) /\ ~esc' /\ delivered' = delivered
BY DEF UartShift, Receive

\* The receiver's variables keep their types.
LEMMA ReceiveTypes ==
  ASSUME TypeOK, UartShift
  PROVE  /\ esc' \in BOOLEAN /\ buf' \in Seq(Bytes)
         /\ delivered' \in Seq(Seq(Bytes) \ {<<>>})
<1>1. thr \in Bytes
  BY DEF UartShift, TypeOK
<1>2. CASE esc
  <2>1. buf' = Append(buf, Unescape(thr)) /\ esc' = FALSE /\ delivered' = delivered
    BY <1>2 DEF UartShift, Receive
  <2>2. Unescape(thr) \in Bytes
    BY <1>1, Unescaped
  <2>3. buf' \in Seq(Bytes)
    BY <2>1, <2>2, Appended DEF TypeOK
  <2> QED
    BY <2>1, <2>3 DEF TypeOK
<1>3. CASE ~esc /\ thr = "ESC"
  BY <1>3 DEF UartShift, Receive, TypeOK
<1>4. CASE ~esc /\ thr = "END"
  <2>1. <<>> \in Seq(Bytes)
    BY EmptySeq
  <2>2. buf # <<>> => Append(delivered, buf) \in Seq(Seq(Bytes) \ {<<>>})
    BY Appended DEF TypeOK
  <2> QED
    <3>1. /\ buf' = <<>> /\ esc' = esc
          /\ delivered' = IF buf = <<>> THEN delivered ELSE Append(delivered, buf)
      BY <1>4 DEF UartShift, Receive
    <3>2. delivered' \in Seq(Seq(Bytes) \ {<<>>})
      BY <2>2, <3>1 DEF TypeOK
    <3> QED
      BY <2>1, <3>1, <3>2 DEF TypeOK
<1>5. CASE ~esc /\ thr \notin {"END", "ESC"}
  <2>1. buf' = Append(buf, thr) /\ esc' = esc /\ delivered' = delivered
    BY <1>5 DEF UartShift, Receive
  <2>2. buf' \in Seq(Bytes)
    BY <1>1, <2>1, Appended DEF TypeOK
  <2> QED
    BY <2>1, <2>2 DEF TypeOK
<1> QED
  BY <1>2, <1>3, <1>4, <1>5

\* A plain packet in the receiver is the one that was sent.
LEMMA HoldsAll ==
  ASSUME TypeOK, Holds(Len(data))
  PROVE  buf = data
<1>1. data \in Seq(Bytes) /\ buf \in Seq(Bytes)
  BY PacketIsSeq DEF TypeOK
<1>2. Len(data) = Len(buf) /\ \A k \in 1 .. Len(buf) : buf[k] = data[k]
  BY DEF Holds
<1> QED
  BY <1>1, <1>2, SeqEqual

\* A byte of the line changes what the receiver has and nothing of the program.
LEMMA UartShiftStep == SlipInv /\ UartShift => SlipInv'
<1> SUFFICES ASSUME SlipInv, UartShift PROVE SlipInv'
  OBVIOUS
<1>1. /\ thr # NoByte /\ thr' = NoByte /\ Receive(thr)
      /\ UNCHANGED <<pc, data, i, ready, sent>>
  BY DEF UartShift
<1>2. /\ TypeOK /\ LineShape /\ SentShape
      /\ PacketShape /\ OrderShape /\ ArrivedShape
  BY DEF SlipInv
<1>3. /\ Len(data) \in Nat /\ DOMAIN data = 1 .. Len(data)
      /\ data = <<>> <=> Len(data) = 0
      /\ i \in 1 .. (Len(data) + 1)
      /\ thr \in Bytes /\ NoByte # "END"
  BY <1>1, <1>2, PacketIsSeq, EmptyOrNot DEF TypeOK
<1>4. TypeOK'
  BY <1>1, <1>2, ReceiveTypes DEF TypeOK
<1>5. LineShape' /\ SentShape'
  <2>1. Between => ~esc'
    <3>1. ASSUME Between, esc PROVE ~esc'
      BY <1>1, <3>1 DEF Receive
    <3>2. ASSUME Between, ~esc PROVE ~esc'
      <4>1. thr = "END"
        BY <1>1, <1>2, <3>2 DEF LineShape
      <4> QED
        BY <3>2, <4>1, EndReceived
    <3> QED
      BY <3>1, <3>2
  <2> QED
    BY <1>1, <1>2, <2>1 DEF LineShape, SentShape, Between
<1>6. \* A plain packet in the loop: its first END, or a byte of it.
      ASSUME Plain(data), InPacket
      PROVE  /\ ~esc
             /\ i = 1 => thr = "END"
             /\ i > 1 => thr = data[i - 1] /\ thr \notin {"END", "ESC"}
  <2>1. i > 1 => i - 1 \in DOMAIN data
    BY <1>3
  <2> QED
    BY <1>1, <1>2, <1>6, <2>1 DEF PacketShape, Plain
<1>7. \* Behind it: the END that will deliver it.
      ASSUME Plain(data), pc = "idle"
      PROVE  ~esc /\ thr = "END" /\ buf = data
  <2>1. ~esc /\ Holds(Len(data))
    BY <1>1, <1>2, <1>7 DEF PacketShape
  <2> QED
    BY <1>1, <1>2, <1>7, <2>1, HoldsAll DEF LineShape, Between
<1>8. PacketShape'
  <2> SUFFICES ASSUME Plain(data) PROVE PacketShape'
    BY <1>1 DEF PacketShape, Plain
  <2>1. pc # "escape"
    BY <1>2 DEF PacketShape
  <2>2. ASSUME InPacket, i = 1 PROVE ~esc' /\ Len(buf') = 0
    BY <1>6, <2>2, EndReceived, EmptySeq
  <2>3. ASSUME InPacket, i > 1
        PROVE  /\ ~esc' /\ Len(buf') = i - 1
               /\ \A k \in 1 .. (i - 1) : buf'[k] = data[k]
    <3>1. ~esc' /\ buf' = Append(buf, data[i - 1])
      BY <1>6, <2>3, ByteReceived
    <3>2. Len(buf) = i - 2 /\ \A k \in 1 .. (i - 2) : buf[k] = data[k]
      BY <1>1, <1>2, <2>3 DEF PacketShape, Holds
    <3>3. data[i - 1] \in Bytes
      BY <1>3, <1>6, <2>3
    <3>4. /\ Len(buf') = Len(buf) + 1
          /\ \A k \in 1 .. Len(buf) : buf'[k] = buf[k]
          /\ buf'[Len(buf')] = data[i - 1]
      BY <1>2, <3>1, <3>3, Appended DEF TypeOK, Last
    <3> QED
      BY <1>3, <3>1, <3>2, <3>4
  <2>4. ASSUME pc = "idle" PROVE buf' = <<>>
    BY <1>7, <2>4, EndReceived
  <2>5. InPacket => i = 1 \/ i > 1
    BY <1>3
  <2> QED
    BY <1>1, <2>1, <2>2, <2>3, <2>4, <2>5 DEF PacketShape, InPacket, Holds
<1>9. OrderShape'
  <2> SUFFICES ASSUME AllPlain PROVE OrderShape'
    BY <1>1 DEF OrderShape, AllPlain, Plain
  <2>1. Plain(data) /\ pc # "escape"
    <3>1. Plain(data)
      BY <1>2, PlainLast
    <3> QED
      BY <1>2, <3>1 DEF PacketShape
  <2>2. /\ Len(sent) \in Nat /\ DOMAIN sent = 1 .. Len(sent)
        /\ sent # <<>> => Len(sent) > 0
        /\ Len(delivered) \in Nat /\ DOMAIN delivered = 1 .. Len(delivered)
        /\ data # <<>> => sent # <<>> /\ Last(sent) = data
    BY <1>2, EmptyOrNot DEF TypeOK, SentShape
  <2>3. IsPrefixOf(delivered, sent)
    BY <1>2 DEF OrderShape
  <2>4. /\ InPacket /\ i = 1 => buf = <<>>
        /\ ~(pc = "first_end" /\ buf # <<>>) => Len(delivered) = Before
    BY <1>1, <1>2 DEF OrderShape, Quiet
  <2>5. CASE InPacket
    <3>1. delivered' = delivered /\ (i = 1 => buf' = <<>>)
      BY <1>3, <1>6, <2>1, <2>4, <2>5, EndReceived, ByteReceived
    <3> QED
      BY <1>1, <2>3, <2>4, <2>5, <3>1
         DEF OrderShape, IsPrefixOf, Quiet, Before, InPacket
  <2>6. \* What an END adds to the packets that were passed on.
        ASSUME buf # <<>>, buf = sent[Len(delivered) + 1],
               Len(delivered) + 1 <= Len(sent)
        PROVE  /\ IsPrefixOf(Append(delivered, buf), sent)
               /\ Len(Append(delivered, buf)) = Len(delivered) + 1
    <3>1. /\ Len(Append(delivered, buf)) = Len(delivered) + 1
          /\ DOMAIN Append(delivered, buf) = 1 .. (Len(delivered) + 1)
          /\ \A k \in 1 .. Len(delivered) : Append(delivered, buf)[k] = delivered[k]
          /\ Append(delivered, buf)[Len(delivered) + 1] = buf
      BY <1>2, <2>6, Appended DEF TypeOK, Last
    <3> QED
      BY <2>2, <2>3, <2>6, <3>1 DEF IsPrefixOf
  <2>7. CASE pc = "idle"
    <3>1. /\ ~esc' /\ buf' = <<>>
          /\ delivered' = IF data = <<>> THEN delivered ELSE Append(delivered, data)
      BY <1>7, <2>1, <2>7, EndReceived
    <3>2. CASE data = <<>>
      <4>1. Len(delivered) = Len(sent) /\ delivered' = delivered
        BY <2>4, <2>7, <3>1, <3>2 DEF Before
      <4> QED
        BY <1>1, <2>3, <2>7, <3>1, <4>1
           DEF OrderShape, IsPrefixOf, Quiet, InPacket
    <3>3. CASE data # <<>>
      <4>1. /\ Len(delivered) = Len(sent) - 1 /\ Len(sent) > 0
            /\ data = sent[Len(sent)]
        BY <2>2, <2>4, <2>7, <3>3 DEF Before, Last
      <4>2. buf = data
        BY <1>7, <2>1, <2>7
      <4>3. Len(delivered) + 1 = Len(sent)
        BY <2>2, <4>1
      <4>4. IsPrefixOf(delivered', sent) /\ Len(delivered') = Len(sent)
        <5>1. /\ buf # <<>> /\ buf = sent[Len(delivered) + 1]
              /\ Len(delivered) + 1 <= Len(sent)
          BY <2>2, <3>3, <4>1, <4>2, <4>3
        <5>2. delivered' = Append(delivered, buf)
          BY <3>1, <3>3, <4>2
        <5> QED
          BY <2>6, <4>3, <5>1, <5>2
      <4> QED
        BY <1>1, <2>7, <3>1, <4>4 DEF OrderShape, IsPrefixOf, Quiet, InPacket
    <3> QED
      BY <3>2, <3>3
  <2>8. CASE pc = "first_end"
    <3>1. thr = "END" /\ ~esc
      BY <1>1, <1>2, <2>8 DEF LineShape, Between, OrderShape
    <3>2. /\ ~esc' /\ buf' = <<>>
          /\ delivered' = IF buf = <<>> THEN delivered ELSE Append(delivered, buf)
      BY <3>1, EndReceived
    <3>3. CASE buf = <<>>
      <4>1. delivered' = delivered /\ Len(delivered) = Before
        BY <2>4, <3>2, <3>3
      <4> QED
        BY <1>1, <2>3, <2>8, <3>2, <4>1
           DEF OrderShape, IsPrefixOf, Quiet, InPacket, Before
    <3>4. CASE buf # <<>>
      <4>1. Len(delivered) = Before - 1 /\ buf = sent[Before]
        BY <1>2, <2>8, <3>4 DEF OrderShape
      <4>2. Before \in Int /\ Before <= Len(sent)
        BY <2>2 DEF Before
      <4>3. Len(delivered) + 1 = Before
        BY <4>1, <4>2
      <4>4. IsPrefixOf(delivered', sent) /\ Len(delivered') = Before
        BY <2>6, <3>2, <3>4, <4>1, <4>2, <4>3
      <4> QED
        BY <1>1, <2>8, <3>2, <4>4 DEF OrderShape, IsPrefixOf, Quiet, InPacket, Before
    <3> QED
      BY <3>3, <3>4
  <2> QED
    BY <1>2, <2>1, <2>5, <2>7, <2>8 DEF TypeOK, InPacket
<1>10. ArrivedShape'
  <2> SUFFICES ASSUME sent # <<>>, Plain(Last(sent)) PROVE ArrivedShape'
    BY <1>1 DEF ArrivedShape, Plain, Last
  <2>1. Plain(data) /\ Last(sent) # <<>>
    BY <1>2, EmptyOrNot DEF SentShape, Plain, TypeOK
  <2>2. ASSUME ~esc, thr = "END", buf = Last(sent)
        PROVE  Arrived' /\ buf' = <<>> /\ ~esc'
    <3>1. delivered' = Append(delivered, buf) /\ buf' = <<>> /\ ~esc'
      BY <2>1, <2>2, EndReceived
    <3>2. delivered' # <<>> /\ Last(delivered') = buf
      BY <1>2, <2>1, <2>2, <3>1, Appended DEF TypeOK
    <3> QED
      BY <1>1, <2>2, <3>1, <3>2 DEF Arrived, Last
  <2>3. ASSUME ~esc, thr = "END", buf = <<>>, Arrived
        PROVE  Arrived' /\ buf' = <<>> /\ ~esc'
    BY <1>1, <2>3, EndReceived DEF Arrived, Last
  <2>4. CASE pc = "idle"
    <3>1. ~esc /\ thr = "END" /\ buf = data
      BY <1>7, <2>1, <2>4
    <3>2. Arrived' /\ buf' = <<>>
      BY <1>2, <2>2, <2>3, <2>4, <3>1 DEF SentShape, ArrivedShape
    <3> QED
      BY <1>1, <2>4, <3>2 DEF ArrivedShape
  <2>5. CASE pc = "first_end" /\ data = <<>>
    <3>1. ~esc /\ ((buf = <<>> /\ Arrived) \/ buf = Last(sent))
      BY <1>2, <2>5 DEF ArrivedShape
    <3>2. thr = "END"
      BY <1>1, <1>2, <2>5 DEF LineShape, Between
    <3>3. Arrived' /\ buf' = <<>> /\ ~esc'
      BY <2>2, <2>3, <3>1, <3>2
    <3> QED
      BY <1>1, <2>5, <3>3 DEF ArrivedShape, Quiet
  <2>6. CASE pc # "idle" /\ pc # "first_end" /\ data = <<>>
    <3>1. InPacket /\ i = 1
      BY <1>2, <1>3, <2>1, <2>6 DEF PacketShape, InPacket, TypeOK
    <3>2. ~esc /\ thr = "END" /\ buf = <<>> /\ Arrived
      BY <1>2, <1>6, <2>1, <2>6, <3>1 DEF ArrivedShape
    <3> QED
      BY <1>1, <2>3, <2>6, <3>2 DEF ArrivedShape, Quiet
  <2>7. CASE pc # "idle" /\ data # <<>>
    BY <1>1, <2>7 DEF ArrivedShape, Quiet
  <2> QED
    BY <2>4, <2>5, <2>6, <2>7
<1> QED
  BY <1>4, <1>5, <1>8, <1>9, <1>10 DEF SlipInv

\* The inductive invariant, for every packet length and number of packets.
THEOREM SlipInvariance == Spec => []SlipInv
<1>1. Init => SlipInv
  BY InitSlip
<1>2. SlipInv /\ [Next]_vars => SlipInv'
  <2> SUFFICES ASSUME SlipInv, [Next]_vars PROVE SlipInv'
    OBVIOUS
  <2>1. ASSUME NEW p \in Packets, SlipTransmit(p) PROVE SlipInv'
    BY <2>1, SlipTransmitStep
  <2>2. CASE Transmit
    BY <2>2, SerialWaitStep, FirstEndStep, EscapeCodeStep, ByteStep, LastEndStep
       DEF Transmit, Write
  <2>3. CASE UartShift
    BY <2>3, UartShiftStep
  <2>4. CASE UNCHANGED vars
    BY <2>4 DEF vars, SlipInv, TypeOK, LineShape, SentShape, PacketShape,
                OrderShape, ArrivedShape, IsPrefixOf, Quiet, Between, InPacket,
                Holds, Before, Arrived, AllPlain, Plain, Last
  <2> QED
    BY <2>1, <2>2, <2>3, <2>4 DEF Next
<1> QED
  BY <1>1, <1>2, PTL DEF Spec

\* The program's and the receiver's variables hold bytes and packets, whatever
\* their number and length.
THEOREM SlipTypes == Spec => []TypeOK
<1>1. SlipInv => TypeOK
  BY DEF SlipInv
<1> QED
  BY <1>1, SlipInvariance, PTL

\* While all packets are free of END and ESC the receiver passes on those that
\* were sent, in their order, and all of them once nothing is on the way.
THEOREM PlainPacketsArrive == Spec => []PlainPacketsInOrder
<1>1. SlipInv => PlainPacketsInOrder
  <2> SUFFICES ASSUME SlipInv, AllPlain
               PROVE  IsPrefixOf(delivered, sent) /\ (Quiet => delivered = sent)
    BY DEF PlainPacketsInOrder
  <2>1. IsPrefixOf(delivered, sent) /\ (Quiet => Len(delivered) = Len(sent))
    BY DEF SlipInv, OrderShape
  <2>2. /\ sent \in Seq(Seq(Bytes)) /\ delivered \in Seq(Seq(Bytes))
        /\ DOMAIN delivered = 1 .. Len(delivered)
    <3>1. Packets \ {<<>>} \subseteq Seq(Bytes)
      BY PacketIsSeq
    <3>2. sent \in Seq(Seq(Bytes))
      BY <3>1, SeqMonotonic DEF SlipInv, TypeOK
    <3>3. delivered \in Seq(Seq(Bytes))
      BY SeqMonotonic DEF SlipInv, TypeOK
    <3> QED
      BY <3>2, <3>3, EmptyOrNot
  <2>3. ASSUME Quiet PROVE delivered = sent
    <3>1. /\ Len(delivered) = Len(sent)
          /\ \A k \in 1 .. Len(delivered) : delivered[k] = sent[k]
      BY <2>1, <2>2, <2>3 DEF IsPrefixOf
    <3> QED
      BY <2>2, <3>1, SeqEqual
  <2> QED
    BY <2>1, <2>3
<1> QED
  BY <1>1, SlipInvariance, PTL

\* The END before a packet makes up for what the packets before it left in the
\* receiver: the last packet arrives whole if it is plain itself.
THEOREM PlainPacketsResynchronise == Spec => []PlainPacketResynchronises
<1>1. SlipInv => PlainPacketResynchronises
  BY DEF SlipInv, ArrivedShape, PlainPacketResynchronises
<1> QED
  BY <1>1, SlipInvariance, PTL

\* No byte, of whatever value, is written over one that the UART has not put on
\* the line yet (slip.c:43-50): the bit that serial_wait saw is still right when
\* outb is called, also for the first END after the last one of another call.
THEOREM BytesLeaveOverTheLine == Spec => NoOverrun
<1>1. SlipInv /\ [Next]_vars => [Write => thr = NoByte]_vars
  <2> SUFFICES ASSUME SlipInv, Write PROVE thr = NoByte
    OBVIOUS
  <2>1. ready
    BY DEF Write, FirstEnd, EscapeCode, Byte, LastEnd, Outb
  <2> QED
    BY <2>1 DEF SlipInv, LineShape
<1> QED
  BY <1>1, SlipInvariance, PTL DEF Spec, NoOverrun
=============================================================================
