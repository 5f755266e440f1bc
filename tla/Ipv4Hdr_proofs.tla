--------------------------- MODULE Ipv4Hdr_proofs ---------------------------
(***************************************************************************)
(* Proofs about the bytes of an IPv4 header and about csum, for all        *)
(* buffers, arguments, addresses and socket options.                       *)
(***************************************************************************)
EXTENDS Ipv4Hdr, SequenceTheorems, TLAPS

W == INSTANCE WellFoundedInduction

-----------------------------------------------------------------------------
(* The sum of the words of a buffer.                                       *)

\* A set of numbers has a least one: what induction is done with here.
LEMMA Least ==
  ASSUME NEW S, S \subseteq Nat, S # {}
  PROVE  \E m \in S : \A k \in S : m <= k
<1> DEFINE R == {ss \in Nat \X Nat : ss[1] < ss[2]}
<1>1. W!IsWellFoundedOn(R, Nat)
  BY W!NatLessThanWellFounded DEF W!OpToRel
<1>2. PICK m \in S : \A k \in S : ~(<<k, m>> \in R)
  <2> HIDE DEF R
  <2> QED
    BY <1>1, W!WFMin
<1>3. ASSUME NEW k \in S PROVE m <= k
  <2>1. k \in Nat /\ m \in Nat /\ ~(k < m)
    BY <1>2
  <2> QED
    BY <2>1
<1> QED
  BY <1>3

\* The equations of a sum over the first words have a solution.
LEMMA SumsExist ==
  ASSUME NEW w, NEW n \in Nat, w \in [1 .. n -> Nat]
  PROVE  \E s \in [0 .. n -> Nat] :
           s = [k \in 0 .. n |-> IF k = 0 THEN 0 ELSE s[k - 1] + w[k]]
<1> DEFINE Solves(s, m) == s[0] = 0 /\ \A k \in 1 .. m : s[k] = s[k - 1] + w[k]
           Good(m) == \E s \in [0 .. m -> Nat] : Solves(s, m)
           Bad == {m \in 0 .. n : ~Good(m)}
<1>1. ASSUME Bad # {} PROVE FALSE
  <2>1. Bad \subseteq Nat
    <3> HIDE DEF Good
    <3> QED
      OBVIOUS
  <2>2. PICK m \in Bad : \A k \in Bad : m <= k
    <3> HIDE DEF Bad
    <3> QED
      BY <1>1, <2>1, Least
  <2>3. Good(0)
    <3>1. [k \in {0} |-> 0] \in [0 .. 0 -> Nat] /\ [k \in {0} |-> 0][0] = 0
      OBVIOUS
    <3>2. Solves([k \in {0} |-> 0], 0)
      BY <3>1
    <3> HIDE DEF Solves
    <3> QED
      BY <3>1, <3>2
  <2>4. m \in 0 .. n /\ m # 0 /\ ~Good(m)
    <3> HIDE DEF Good
    <3> QED
      BY <2>3
  <2>5. Good(m - 1)
    <3> HIDE DEF Good
    <3> QED
      BY <2>2, <2>4
  <2>6. PICK s \in [0 .. (m - 1) -> Nat] : Solves(s, m - 1)
    BY <2>5
  <2> DEFINE t == [k \in 0 .. m |-> IF k = m THEN s[m - 1] + w[m] ELSE s[k]]
  <2>7. t \in [0 .. m -> Nat] /\ t[0] = 0
    BY <2>4, <2>6
  <2>8. ASSUME NEW k \in 1 .. m PROVE t[k] = t[k - 1] + w[k]
    <3>1. k \in 0 .. m /\ k - 1 \in 0 .. m /\ k - 1 # m
      BY <2>4
    <3>2. t[k - 1] = s[k - 1]
      BY <3>1
    <3>3. CASE k = m
      BY <3>1, <3>2, <3>3
    <3>4. CASE k # m
      BY <2>4, <2>6, <3>1, <3>2, <3>4
    <3> QED
      BY <3>3, <3>4
  <2>9. Solves(t, m)
    <3> HIDE DEF t
    <3> QED
      BY <2>7, <2>8
  <2> QED
    <3> HIDE DEF Solves, t
    <3> QED
      BY <2>4, <2>7, <2>9
<1>2. Good(n)
  <2> HIDE DEF Good
  <2> QED
    BY <1>1
<1>3. PICK s \in [0 .. n -> Nat] : Solves(s, n)
  BY <1>2
<1>4. \A k \in 0 .. n : s[k] = IF k = 0 THEN 0 ELSE s[k - 1] + w[k]
  BY <1>3
<1> HIDE DEF Solves
<1> QED
  BY <1>3, <1>4

\* A byte is a number of 8 bits.
LEMMA ByteType ==
  ASSUME NEW x \in Byte
  PROVE  x \in Nat /\ x <= 255
BY DEF Byte

\* A uint16_t is a number up to MaxU16, whose value no proof needs but the
\* arithmetic below.
LEMMA U16Type ==
  ASSUME NEW x
  PROVE  x \in U16 <=> x \in Nat /\ x <= MaxU16
<1>1. MaxU16 \in Nat
  BY DEF MaxU16
<1> QED
  BY <1>1 DEF U16

\* Two bytes make 16 bits.
LEMMA TwoBytes ==
  ASSUME NEW l \in Nat, l <= 255, NEW h \in Nat, h <= 255
  PROVE  l + 256 * h \in Nat /\ l + 256 * h <= MaxU16
BY DEF MaxU16

\* A word of a buffer is a number of 16 bits.
LEMMA WordType ==
  ASSUME NEW b \in Seq(Byte), NEW k \in 1 .. (Len(b) \div 2)
  PROVE  Word16(b, k) \in Nat /\ Word16(b, k) <= MaxU16
<1>1. 2 * k - 1 \in 1 .. Len(b) /\ 2 * k \in 1 .. Len(b)
  OBVIOUS
<1>2. b[2 * k - 1] \in Byte /\ b[2 * k] \in Byte
  BY <1>1, ElementOfSeq
<1>3. /\ b[2 * k - 1] \in Nat /\ b[2 * k - 1] <= 255
      /\ b[2 * k] \in Nat /\ b[2 * k] <= 255
  BY <1>2, ByteType
<1>4. Word16(b, k) = b[2 * k - 1] + 256 * b[2 * k]
  BY DEF Word16
<1> QED
  BY <1>3, <1>4, TwoBytes

\* The recursive definition of Sums is one.
LEMMA SumsEquation ==
  ASSUME NEW b \in Seq(Byte)
  PROVE  /\ Sums(b) \in [0 .. (Len(b) \div 2) -> Nat]
         /\ Sums(b)[0] = 0
         /\ \A k \in 1 .. (Len(b) \div 2) : Sums(b)[k] = Sums(b)[k - 1] + Word16(b, k)
<1> DEFINE n == Len(b) \div 2
           w == [k \in 1 .. n |-> Word16(b, k)]
           s[k \in 0 .. n] == IF k = 0 THEN 0 ELSE s[k - 1] + Word16(b, k)
<1>1. n \in Nat
  OBVIOUS
<1>2. w \in [1 .. n -> Nat]
  BY WordType
<1>3. PICK t \in [0 .. n -> Nat] :
        t = [k \in 0 .. n |-> IF k = 0 THEN 0 ELSE t[k - 1] + w[k]]
  <2> HIDE DEF n, w
  <2> QED
    BY <1>1, <1>2, SumsExist
<1>4. t = [k \in 0 .. n |-> IF k = 0 THEN 0 ELSE t[k - 1] + Word16(b, k)]
  <2>1. \A k \in 0 .. n : k # 0 => w[k] = Word16(b, k)
    BY <1>1
  <2> DEFINE u == [k \in 0 .. n |-> IF k = 0 THEN 0 ELSE t[k - 1] + Word16(b, k)]
  <2>2. \A k \in 0 .. n : t[k] = u[k]
    <3> HIDE DEF n, w
    <3> QED
      BY <1>3, <2>1
  <2>3. DOMAIN t = 0 .. n /\ t = [k \in 0 .. n |-> t[k]]
    <3> HIDE DEF n, w
    <3> QED
      BY <1>3
  <2> HIDE DEF n, w
  <2> QED
    BY <2>2, <2>3
<1>5. s = [k \in 0 .. n |-> IF k = 0 THEN 0 ELSE s[k - 1] + Word16(b, k)]
  <2> HIDE DEF n
  <2> QED
    BY <1>4
<1>6. Sums(b) = s
  BY DEF Sums
<1> QED
  BY <1>5, <1>6

\* Buffers that differ in one word have sums that differ by the words' difference.
LEMMA SumsDiffer ==
  ASSUME NEW b \in Seq(Byte), NEW c \in Seq(Byte), NEW n \in Nat,
         n <= Len(b) \div 2, n <= Len(c) \div 2,
         NEW j \in 1 .. n, NEW d \in Int,
         \A k \in 1 .. n : Word16(c, k) = Word16(b, k) + (IF k = j THEN d ELSE 0)
  PROVE  Sums(c)[n] = Sums(b)[n] + d
<1> DEFINE Good(m) == Sums(c)[m] = Sums(b)[m] + (IF j <= m THEN d ELSE 0)
           Bad == {m \in 0 .. n : ~Good(m)}
<1>1. ASSUME Bad # {} PROVE FALSE
  <2>1. Bad \subseteq Nat
    <3> HIDE DEF Good
    <3> QED
      OBVIOUS
  <2>2. PICK m \in Bad : \A k \in Bad : m <= k
    <3> HIDE DEF Bad
    <3> QED
      BY <1>1, <2>1, Least
  <2>3. Good(0)
    <3>1. Sums(b)[0] = 0 /\ Sums(c)[0] = 0 /\ ~(j <= 0)
      BY SumsEquation
    <3> QED
      BY <3>1
  <2>4. m \in 1 .. n /\ ~Good(m)
    <3> HIDE DEF Good
    <3> QED
      BY <2>3
  <2>5. Good(m - 1)
    <3> HIDE DEF Good
    <3> QED
      BY <2>2, <2>4
  <2>6. /\ Sums(b)[m] = Sums(b)[m - 1] + Word16(b, m)
        /\ Sums(c)[m] = Sums(c)[m - 1] + Word16(c, m)
    BY <2>4, SumsEquation
  <2>7. Sums(b)[m - 1] \in Nat /\ Sums(c)[m - 1] \in Nat
    <3>1. m - 1 \in 0 .. (Len(b) \div 2) /\ m - 1 \in 0 .. (Len(c) \div 2)
      BY <2>4
    <3> QED
      BY <3>1, SumsEquation
  <2>8. Word16(b, m) \in Nat /\ Word16(c, m) = Word16(b, m) + (IF m = j THEN d ELSE 0)
    BY <2>4, WordType
  <2>9. Good(m)
    BY <2>4, <2>5, <2>6, <2>7, <2>8
  <2> QED
    BY <2>4, <2>9
<1>2. Good(n)
  <2> HIDE DEF Good
  <2> QED
    BY <1>1
<1> QED
  BY <1>2

\* One more summand of at most M.
LEMMA OneMore ==
  ASSUME NEW M \in Nat, NEW k \in Nat, NEW s \in Nat, s <= M * k, NEW x \in Nat, x <= M
  PROVE  s + x <= M * (k + 1)
<1>1. M * (k + 1) = M * k + M
  OBVIOUS
<1> QED
  BY <1>1

\* A sum of n words is at most n times the largest word.
LEMMA SumsBound ==
  ASSUME NEW b \in Seq(Byte), NEW n \in 0 .. (Len(b) \div 2)
  PROVE  Sums(b)[n] \in Nat /\ Sums(b)[n] <= MaxU16 * n
<1> DEFINE Good(m) == Sums(b)[m] <= MaxU16 * m
           Bad == {m \in 0 .. n : ~Good(m)}
<1>1. ASSUME Bad # {} PROVE FALSE
  <2>1. Bad \subseteq Nat
    <3> HIDE DEF Good
    <3> QED
      OBVIOUS
  <2>2. PICK m \in Bad : \A k \in Bad : m <= k
    <3> HIDE DEF Bad
    <3> QED
      BY <1>1, <2>1, Least
  <2>3. Good(0)
    BY SumsEquation DEF MaxU16
  <2>4. m \in 1 .. n /\ ~Good(m)
    <3> HIDE DEF Good
    <3> QED
      BY <2>3
  <2>5. Good(m - 1)
    <3> HIDE DEF Good
    <3> QED
      BY <2>2, <2>4
  <2>6. m \in 1 .. (Len(b) \div 2) /\ m - 1 \in 0 .. (Len(b) \div 2)
    BY <2>4
  <2>7. Sums(b)[m] = Sums(b)[m - 1] + Word16(b, m) /\ Sums(b)[m - 1] \in Nat
    BY <2>6, SumsEquation
  <2>8. Word16(b, m) \in Nat /\ Word16(b, m) <= MaxU16
    BY <2>6, WordType
  <2>9. Good(m)
    <3>1. MaxU16 \in Nat /\ m - 1 \in Nat /\ (m - 1) + 1 = m
      BY <2>4 DEF MaxU16
    <3>2. Sums(b)[m - 1] + Word16(b, m) <= MaxU16 * ((m - 1) + 1)
      BY <2>5, <2>7, <2>8, <3>1, OneMore
    <3> QED
      BY <2>7, <3>1, <3>2
  <2> QED
    BY <2>4, <2>9
<1>2. Good(n)
  <2> HIDE DEF Good
  <2> QED
    BY <1>1
<1>3. Sums(b)[n] \in Nat
  BY SumsEquation
<1> QED
  BY <1>2, <1>3

\* What a receiver makes of a last odd byte: a word of its own.
LEMMA SumOfPadded ==
  ASSUME NEW b \in Seq(Byte)
  PROVE  /\ Sums(b)[Len(b) \div 2] \in Nat
         /\ SumOfWords(b) = Sums(b)[Len(b) \div 2]
                              + (IF Len(b) % 2 = 1 THEN b[Len(b)] ELSE 0)
<1> DEFINE n == Len(b) \div 2
           p == Append(b, 0)
<1>1. Sums(b)[n] \in Nat
  BY SumsEquation
<1>2. CASE Len(b) % 2 = 0
  BY <1>1, <1>2 DEF SumOfWords, Padded16
<1>3. CASE Len(b) % 2 = 1
  <2>1. p \in Seq(Byte) /\ Len(p) = Len(b) + 1 /\ Len(p) \div 2 = n + 1
    BY <1>3 DEF Byte
  <2>2. /\ \A k \in 1 .. Len(b) : p[k] = b[k]
        /\ p[Len(b) + 1] = 0
    BY <2>1
  <2>3. Len(b) = 2 * n + 1
    BY <1>3
  <2>4. \A k \in 1 .. n : Word16(p, k) = Word16(b, k)
    BY <2>2, <2>3 DEF Word16
  <2>5. Sums(p)[n] = Sums(b)[n]
    <3>1. CASE n = 0
      BY <2>1, <3>1, SumsEquation
    <3>2. CASE n # 0
      <4>1. n \in Nat /\ n \in 1 .. n /\ n <= Len(p) \div 2
        BY <2>1, <3>2
      <4>2. \A k \in 1 .. n : Word16(p, k) = Word16(b, k) + (IF k = n THEN 0 ELSE 0)
        BY <2>4, WordType
      <4>3. Sums(p)[n] = Sums(b)[n] + 0
        <5> HIDE DEF p
        <5> QED
          BY <2>1, <4>1, <4>2, SumsDiffer
      <4> QED
        BY <1>1, <4>3
    <3> QED
      BY <3>1, <3>2
  <2>6. Sums(p)[n + 1] = Sums(p)[n] + Word16(p, n + 1)
    BY <2>1, SumsEquation
  <2>7. Word16(p, n + 1) = b[Len(b)]
    <3>1. p[2 * (n + 1) - 1] = b[Len(b)] /\ p[2 * (n + 1)] = 0
      BY <2>2, <2>3
    <3>2. b[Len(b)] \in Nat
      BY <2>3, ByteType, ElementOfSeq
    <3>3. Word16(p, n + 1) = p[2 * (n + 1) - 1] + 256 * p[2 * (n + 1)]
      BY DEF Word16
    <3> HIDE DEF p, n
    <3> QED
      BY <3>1, <3>2, <3>3
  <2>8. SumOfWords(b) = Sums(p)[n + 1]
    <3>1. Padded16(b) = p
      BY <1>3 DEF Padded16
    <3> HIDE DEF p, n
    <3> QED
      BY <2>1, <3>1 DEF SumOfWords
  <2> QED
    BY <1>1, <1>3, <2>5, <2>6, <2>7, <2>8
<1> QED
  BY <1>1, <1>2, <1>3

-----------------------------------------------------------------------------
(* Arithmetic modulo 65535.                                                *)

\* A fold of csum.c:86-88 keeps the sum modulo 65535, with the carry it adds,
\* and makes it smaller as long as there is one.
LEMMA FoldKeepsSum ==
  ASSUME NEW s \in Nat
  PROVE  /\ Folded(s) \in Nat
         /\ OnesSum(Folded(s)) = OnesSum(s)
         /\ Carry(s) # 0 => Folded(s) < s
<1> DEFINE q == s \div 65536
           r == s % 65536
<1>1. q \in Nat /\ r \in Nat /\ s = 65536 * q + r
  OBVIOUS
<1>2. Folded(s) = r + q /\ Carry(s) = q
  BY DEF Folded, Carry
<1> HIDE DEF q, r
<1>3. Folded(s) \in Nat /\ (q # 0 => Folded(s) < s)
  BY <1>1, <1>2
<1>4. Folded(s) % 65535 = s % 65535
  BY <1>1, <1>2
<1>5. OnesSum(Folded(s)) = OnesSum(s)
  BY <1>4 DEF OnesSum, MaxU16
<1> QED
  BY <1>2, <1>3, <1>5

\* The folds end with a sum of 16 bits.
LEMMA NoCarry ==
  ASSUME NEW s \in Nat, Carry(s) = 0
  PROVE  s <= MaxU16 /\ MaxU16 - s \in Nat /\ MaxU16 - s <= MaxU16
BY DEF Carry, MaxU16

\* A sum verifies against the complement of another if they are the same.
LEMMA ComplementVerifies ==
  ASSUME NEW y \in Nat, NEW r \in Nat, r <= MaxU16
  PROVE  OnesSum(y + (MaxU16 - r)) = 0 <=> OnesSum(y) = OnesSum(r)
BY DEF OnesSum, MaxU16

\* A byte in the lower and in the upper half of a word are never the same.
LEMMA HalvesDiffer ==
  ASSUME NEW x \in Nat, NEW l \in Byte
  PROVE  OnesSum(x + l) = OnesSum(x + Padded(l)) <=> l = 0
BY DEF OnesSum, MaxU16, Padded, Byte

\* A sum when the bytes of one of its words, l + 256 * h, are exchanged.
SwapSum(x, h, l) == x + 255 * (l - h)

\* Nor are a word and the word of its bytes in the other order.
LEMMA SwapDiffers ==
  ASSUME NEW x \in Nat, NEW h \in Byte, NEW l \in Byte, SwapSum(x, h, l) \in Nat
  PROVE  OnesSum(SwapSum(x, h, l)) = OnesSum(x) <=> h = l
<1>1. h \in Nat /\ h <= 255 /\ l \in Nat /\ l <= 255
  BY ByteType
<1> QED
  BY <1>1 DEF OnesSum, MaxU16, SwapSum

-----------------------------------------------------------------------------
(* The bytes of a header.                                                  *)

\* The arguments of create_ipv4_hdr have the types of ip.h.
LEMMA ArgumentTypes ==
  ASSUME NEW a \in ipv4_hdr_arguments
  PROVE  /\ a.tos \in Byte /\ a.ttl \in Byte
         /\ a.option_type \in Byte /\ a.option_len \in Byte
         /\ a.f_off_vcf \in Nat /\ a.f_off_vcf <= MaxU16
         /\ a.tlen \in Nat /\ a.tlen <= MaxU16
         /\ a.id \in Nat /\ a.id <= MaxU16
<1>1. /\ a.tos \in Byte /\ a.ttl \in Byte
      /\ a.option_type \in Byte /\ a.option_len \in Byte
      /\ a.f_off_vcf \in U16 /\ a.tlen \in U16 /\ a.id \in U16
  BY DEF ipv4_hdr_arguments
<1> QED
  BY <1>1, U16Type

\* A 16-bit number has two bytes.
LEMMA HalvesAreBytes ==
  ASSUME NEW x \in Nat, x <= MaxU16
  PROVE  hi(x) \in Byte /\ lo(x) \in Byte /\ x = 256 * hi(x) + lo(x)
BY DEF hi, lo, Byte, MaxU16

\* The length of ip.c:164-174 has room for the options, and is 20 without them.
LEMMA HdrLenType ==
  ASSUME NEW a \in ipv4_hdr_arguments
  PROVE  /\ HdrLen(a) \in Nat /\ HdrLen(a) >= 20 /\ HdrLen(a) <= 300
         /\ a.option_len # 0 => HdrLen(a) >= 21 + a.option_len
         /\ a.option_type # 0 => HdrLen(a) >= 21
         /\ a.option_type = 0 /\ a.option_len = 0 => HdrLen(a) = 20
<1>1. /\ a.option_len \in Nat /\ a.option_len <= 255
      /\ a.option_type \in Nat /\ a.option_type <= 255
  BY ArgumentTypes, ByteType
<1> DEFINE n == ipv4_hdr_size + (IF a.option_type # 0 THEN 1 ELSE 0)
                  + (IF a.option_len # 0 THEN 1 + a.option_len ELSE 0)
<1>2. /\ n \in Nat /\ n >= 20 /\ n <= 280
      /\ a.option_len # 0 => n >= 21 + a.option_len
      /\ a.option_type # 0 => n >= 21
      /\ a.option_type = 0 /\ a.option_len = 0 => n = 20
  BY <1>1 DEF ipv4_hdr_size
<1>3. HdrLen(a) = Round(n)
  BY DEF HdrLen
<1> HIDE DEF n
<1>4. Round(n) \in Nat /\ Round(n) >= n /\ Round(n) <= n + 4 /\ (n = 20 => Round(n) = 20)
  BY <1>2 DEF Round
<1> QED
  BY <1>1, <1>2, <1>3, <1>4

\* The 12 bytes before the addresses.
Head12(a) ==
  <<64 + Ihl(a), a.tos, hi(TotalLen(a)), lo(TotalLen(a)), lo(a.id), hi(a.id),
    hi(WithDontFragment(a.f_off_vcf)), lo(WithDontFragment(a.f_off_vcf)),
    a.ttl, 17, 0, 0>>

\* The addresses are behind the first 12 bytes.
LEMMA ImageIsHead ==
  ASSUME NEW a, NEW ad, AddrsOf(ad) \in Seq(Int)
  PROVE  Image(a, ad) = Head12(a) \o AddrsOf(ad)
BY DEF Image, Head12, Htons

\* What a uint8_t keeps.
LEMMA RemainderIsByte ==
  ASSUME NEW x \in Nat
  PROVE  x % 256 \in Byte
BY DEF Byte

\* A function on 1 .. n is a sequence of length n.
LEMMA FunctionIsSeq ==
  ASSUME NEW S, NEW n \in Nat, NEW f \in [1 .. n -> S]
  PROVE  f \in Seq(S) /\ Len(f) = n
OBVIOUS

\* Where the bytes of two sequences are when they are joined.
LEMMA Joined ==
  ASSUME NEW x \in Seq(Byte), NEW y \in Seq(Byte)
  PROVE  /\ x \o y \in Seq(Byte) /\ Len(x \o y) = Len(x) + Len(y)
         /\ \A k \in 1 .. Len(x) : (x \o y)[k] = x[k]
         /\ \A k \in 1 .. Len(y) : (x \o y)[Len(x) + k] = y[k]
<1>1. x \o y \in Seq(Byte) /\ Len(x \o y) = Len(x) + Len(y)
  OBVIOUS
<1>2. ASSUME NEW k \in 1 .. Len(x) PROVE (x \o y)[k] = x[k]
  OBVIOUS
<1>3. ASSUME NEW k \in 1 .. Len(y) PROVE (x \o y)[Len(x) + k] = y[k]
  OBVIOUS
<1> QED
  BY <1>1, <1>2, <1>3

\* inet_addr and htonl make four bytes of an address (data_util.c:49-62).
LEMMA AddrOfType ==
  ASSUME NEW form \in {"text", "number"}, NEW s \in Seq(Nat),
         form = "text" => Len(s) = 0 \/ Len(s) >= 4,
         form = "number" => Len(s) = 4 /\ s \in Seq(Byte)
  PROVE  AddrOf(form, s) \in Seq(Byte) /\ Len(AddrOf(form, s)) = 4
<1>1. 0 \in Byte
  BY DEF Byte
<1>2. CASE form = "text"
  <2>1. ASSUME NEW k \in 1 .. 4
        PROVE  (IF s = <<>> THEN 0 ELSE s[k] % 256) \in Byte
    <3>1. CASE s = <<>>
      BY <1>1, <3>1
    <3>2. CASE s # <<>>
      <4>1. k \in 1 .. Len(s)
        BY <1>2, <3>2, EmptySeq
      <4>2. s[k] \in Nat
        BY <4>1, ElementOfSeq
      <4> QED
        BY <3>2, <4>2, RemainderIsByte
    <3> QED
      BY <3>1, <3>2
  <2>2. InetAddr(s) \in [1 .. 4 -> Byte]
    BY <2>1 DEF InetAddr
  <2>3. InetAddr(s) \in Seq(Byte) /\ Len(InetAddr(s)) = 4
    <3> DEFINE n == 4
    <3>1. n \in Nat /\ InetAddr(s) \in [1 .. n -> Byte]
      BY <2>2
    <3> HIDE DEF n
    <3>2. InetAddr(s) \in Seq(Byte) /\ Len(InetAddr(s)) = n
      BY <3>1, FunctionIsSeq
    <3> QED
      BY <3>2 DEF n
  <2>4. AddrOf(form, s) = InetAddr(s)
    BY <1>2 DEF AddrOf
  <2> QED
    BY <2>3, <2>4
<1>3. CASE form = "number"
  <2>1. s[3] \in Byte /\ s[4] \in Byte
    <3>1. Len(s) = 4 /\ s \in Seq(Byte)
      BY <1>3
    <3>2. 3 \in 1 .. Len(s) /\ 4 \in 1 .. Len(s)
      BY <3>1
    <3>3. \A k \in 1 .. Len(s) : s[k] \in Byte
      BY <3>1, ElementOfSeq
    <3> QED
      BY <3>2, <3>3
  <2>2. AddrOf(form, s) = <<0, 0, s[3], s[4]>>
    BY <1>3 DEF AddrOf, Htonl, Bswap32
  <2> QED
    BY <1>1, <2>1, <2>2
<1> QED
  BY <1>2, <1>3

\* The source address is in the first four of the eight bytes.
LEMMA AddrsOfType ==
  ASSUME NEW ad \in Addrs, Readable(ad)
  PROVE  /\ AddrsOf(ad) \in Seq(Byte) /\ Len(AddrsOf(ad)) = 8
         /\ \A k \in 1 .. 4 : /\ AddrsOf(ad)[k] = AddrOf(ad.form, ad.src)[k]
                              /\ AddrsOf(ad)[4 + k] = AddrOf(ad.form, ad.dst)[k]
         /\ AddrOf(ad.form, ad.src) \in Seq(Byte) /\ Len(AddrOf(ad.form, ad.src)) = 4
         /\ AddrOf(ad.form, ad.dst) \in Seq(Byte) /\ Len(AddrOf(ad.form, ad.dst)) = 4
<1>1. /\ ad.form \in {"text", "number"} /\ ad.src \in Seq(Nat) /\ ad.dst \in Seq(Nat)
      /\ ad.form = "number" => /\ Len(ad.src) = 4 /\ ad.src \in Seq(Byte)
                               /\ Len(ad.dst) = 4 /\ ad.dst \in Seq(Byte)
  BY Ipv4HdrAssumption
<1>2. ad.form = "text" => /\ Len(ad.src) = 0 \/ Len(ad.src) >= 4
                          /\ Len(ad.dst) = 0 \/ Len(ad.dst) >= 4
  BY DEF Readable
<1>3. AddrOf(ad.form, ad.src) \in Seq(Byte) /\ Len(AddrOf(ad.form, ad.src)) = 4
  BY <1>1, <1>2, AddrOfType
<1>4. AddrOf(ad.form, ad.dst) \in Seq(Byte) /\ Len(AddrOf(ad.form, ad.dst)) = 4
  BY <1>1, <1>2, AddrOfType
<1> DEFINE x == AddrOf(ad.form, ad.src)
           y == AddrOf(ad.form, ad.dst)
<1>5. AddrsOf(ad) = x \o y
  BY DEF AddrsOf
<1> HIDE DEF x, y
<1>6. x \in Seq(Byte) /\ Len(x) = 4 /\ y \in Seq(Byte) /\ Len(y) = 4
  BY <1>3, <1>4 DEF x, y
<1>7. /\ x \o y \in Seq(Byte) /\ Len(x \o y) = Len(x) + Len(y)
      /\ \A k \in 1 .. Len(x) : (x \o y)[k] = x[k]
      /\ \A k \in 1 .. Len(y) : (x \o y)[Len(x) + k] = y[k]
  BY <1>6, Joined
<1>8. Len(x) + Len(y) = 8
  BY <1>6
<1> QED
  BY <1>5, <1>6, <1>7, <1>8 DEF x, y

\* The 20 bytes of a header.
LEMMA ImageType ==
  ASSUME NEW a \in ipv4_hdr_arguments, NEW ad \in Addrs, Readable(ad)
  PROVE  /\ Image(a, ad) \in Seq(Byte) /\ Len(Image(a, ad)) = 20
         /\ \A k \in 1 .. 12 : Image(a, ad)[k] = Head12(a)[k]
         /\ \A k \in 1 .. 8 : Image(a, ad)[12 + k] = AddrsOf(ad)[k]
<1>1. AddrsOf(ad) \in Seq(Byte) /\ Len(AddrsOf(ad)) = 8
  BY AddrsOfType
<1>2. AddrsOf(ad) \in Seq(Int)
  BY <1>1, ByteType, SeqMonotonic
<1>3. Image(a, ad) = Head12(a) \o AddrsOf(ad)
  BY <1>2, ImageIsHead
<1>4. 64 + Ihl(a) \in Byte
  <2>1. HdrLen(a) \in Nat
    BY HdrLenType
  <2>2. Ihl(a) \in Nat /\ Ihl(a) <= 15
    BY <2>1 DEF Ihl
  <2> QED
    BY <2>2 DEF Byte
<1>5. hi(TotalLen(a)) \in Byte /\ lo(TotalLen(a)) \in Byte
  <2>1. HdrLen(a) + a.tlen \in Nat
    BY HdrLenType, ArgumentTypes
  <2>2. TotalLen(a) \in Nat /\ TotalLen(a) <= MaxU16
    BY <2>1 DEF TotalLen, MaxU16
  <2> QED
    BY <2>2, HalvesAreBytes
<1>6. /\ a.tos \in Byte /\ a.ttl \in Byte /\ lo(a.id) \in Byte /\ hi(a.id) \in Byte
  BY ArgumentTypes, HalvesAreBytes
<1>7. /\ hi(WithDontFragment(a.f_off_vcf)) \in Byte
      /\ lo(WithDontFragment(a.f_off_vcf)) \in Byte
  <2> DEFINE x == a.f_off_vcf
  <2>1. x \in Nat /\ x <= MaxU16
    BY ArgumentTypes
  <2> HIDE DEF x
  <2>2. WithDontFragment(x) \in Nat /\ WithDontFragment(x) <= MaxU16
    BY <2>1 DEF WithDontFragment, DONT_FRAGMENT, hi, MaxU16
  <2>3. hi(WithDontFragment(x)) \in Byte /\ lo(WithDontFragment(x)) \in Byte
    BY <2>2, HalvesAreBytes
  <2> QED
    BY <2>3 DEF x
<1>8. 17 \in Byte /\ 0 \in Byte
  BY DEF Byte
<1>9. Head12(a) \in Seq(Byte) /\ Len(Head12(a)) = 12
  BY <1>4, <1>5, <1>6, <1>7, <1>8 DEF Head12
<1> DEFINE x == Head12(a)
           y == AddrsOf(ad)
<1>10. Image(a, ad) = x \o y
  BY <1>3
<1> HIDE DEF Head12, x, y
<1>11. x \in Seq(Byte) /\ Len(x) = 12 /\ y \in Seq(Byte) /\ Len(y) = 8
  BY <1>1, <1>9 DEF x, y
<1>12. /\ x \o y \in Seq(Byte) /\ Len(x \o y) = Len(x) + Len(y)
       /\ \A k \in 1 .. Len(x) : (x \o y)[k] = x[k]
       /\ \A k \in 1 .. Len(y) : (x \o y)[Len(x) + k] = y[k]
  BY <1>11, Joined
<1>13. Len(x) + Len(y) = 20
  BY <1>11
<1> QED
  BY <1>10, <1>11, <1>12, <1>13 DEF x, y

\* What csum reads behind a header (ip.c:194-201).
LEMMA BehindType ==
  ASSUME NEW a \in ipv4_hdr_arguments, NEW data \in Byte, NEW fill \in Byte
  PROVE  /\ BehindHdr(a, data, fill) \in Seq(Byte)
         /\ Len(BehindHdr(a, data, fill)) = HdrLen(a) - 20
         /\ a.option_type # 0 => BehindHdr(a, data, fill)[1] = a.option_type
         /\ a.option_len # 0 => BehindHdr(a, data, fill)[2] = a.option_len
<1> DEFINE n == HdrLen(a) - ipv4_hdr_size
<1>1. /\ n \in Nat /\ (a.option_type # 0 => n >= 1) /\ n = HdrLen(a) - 20
      /\ a.option_len # 0 => n >= 2
  <2>1. a.option_len \in Nat
    BY ArgumentTypes, ByteType
  <2> QED
    BY <2>1, HdrLenType DEF ipv4_hdr_size
<1>2. a.option_type \in Byte /\ a.option_len \in Byte
  BY ArgumentTypes
<1>3. BehindHdr(a, data, fill) =
        [k \in 1 .. n |->
           IF k = 1 /\ a.option_type # 0 THEN a.option_type
           ELSE IF k = 2 /\ a.option_len # 0 THEN a.option_len
           ELSE IF a.option_len # 0 /\ k \in 3 .. (2 + a.option_len) THEN data
           ELSE fill]
  BY DEF BehindHdr
<1> HIDE DEF n
<1>4. BehindHdr(a, data, fill) \in [1 .. n -> Byte]
  BY <1>2, <1>3
<1>5. /\ a.option_type # 0 => BehindHdr(a, data, fill)[1] = a.option_type
      /\ a.option_len # 0 => BehindHdr(a, data, fill)[2] = a.option_len
  BY <1>1, <1>3
<1> QED
  BY <1>1, <1>4, <1>5

-----------------------------------------------------------------------------
(* The inductive invariant.                                                *)

\* The values no one reads are values of their type.
LEMMA NoMatterTypes ==
  /\ NoMatter \in ipv4_hdr_arguments /\ NoOpts \in SockOpts /\ NoAddrs \in Addrs
BY Ipv4HdrAssumption DEF NoMatter, NoOpts, NoAddrs

\* No call has made any bytes yet.
LEMMA InitHdrInv == Init => HdrInv
<1> SUFFICES ASSUME Init PROVE HdrInv
  OBVIOUS
<1>1. TypeOK
  <2>1. 0 \in U16
    BY U16Type DEF MaxU16
  <2>2. <<>> \in Seq(Byte) /\ Len(<<>>) = 0
    OBVIOUS
  <2> QED
    BY <2>1, <2>2, NoMatterTypes DEF Init, TypeOK
<1>2. BytesShape /\ SumShape
  BY DEF Init, BytesShape, SumShape, HasReturned
<1>3. SumFits
  BY DEF Init, SumFits, Carry, MaxU16
<1> QED
  BY <1>1, <1>2, <1>3 DEF HdrInv

\* csum begins with nothing summed.
LEMMA StartStep ==
  ASSUME NEW b \in Seq(Byte), StartCsum(b)
  PROVE  /\ pc' \in {"idle", "words", "fold", "dead"}
         /\ buf' \in Seq(Byte) /\ size' \in 0 .. Len(buf') /\ sum' \in Nat
         /\ result' \in U16
         /\ SumShape' /\ SumFits'
<1>1. /\ buf' = b /\ size' = Len(b) /\ sum' = 0 /\ result' = 0 /\ pc' = "words"
  BY DEF StartCsum
<1>2. Len(b) \in Nat /\ 0 \in U16
  BY U16Type DEF MaxU16
<1>3. Sums(b)[0] = 0
  BY SumsEquation
<1>4. (Len(b) - Len(b)) % 2 = 0 /\ (Len(b) - Len(b)) \div 2 = 0
  BY <1>2
<1>5. SumShape'
  BY <1>1, <1>3, <1>4 DEF SumShape, HasReturned
<1>6. SumFits'
  <2>1. Carry(0) <= MaxU16
    BY DEF Carry, MaxU16
  <2> QED
    BY <1>1, <2>1 DEF SumFits
<1> QED
  BY <1>1, <1>2, <1>5, <1>6

\* The calls that make the bytes csum is given.
LEMMA HeaderStep ==
  ASSUME NEW a \in ipv4_hdr_arguments, NEW ad \in Addrs,
         NEW data \in Beyond, NEW fill \in Beyond, CreateIpv4Hdr(a, ad, data, fill)
  PROVE  HdrInv'
<1> DEFINE b == Image(a, ad) \o BehindHdr(a, data, fill)
<1>1. /\ StartCsum(b) /\ Readable(ad)
      /\ call' = "header" /\ args' = a /\ sopts' = NoOpts /\ addrs' = ad
  BY DEF CreateIpv4Hdr
<1>2. b \in Seq(Byte)
  <2>1. data \in Byte /\ fill \in Byte
    BY Ipv4HdrAssumption
  <2>2. Image(a, ad) \in Seq(Byte) /\ BehindHdr(a, data, fill) \in Seq(Byte)
    BY <1>1, <2>1, ImageType, BehindType
  <2> QED
    BY <2>2, Joined
<1>3. buf' = b
  BY <1>1 DEF StartCsum
<1>4. BytesShape'
  <2>1. Readable(addrs)'
    BY <1>1 DEF Readable
  <2>2. Image(args, addrs)' = Image(a, ad)
    BY <1>1 DEF Image, Ihl, HdrLen, TotalLen, AddrsOf
  <2>3. \A x, y : BehindHdr(args, x, y)' = BehindHdr(a, x, y)
    BY <1>1 DEF BehindHdr, HdrLen
  <2> HIDE DEF b
  <2> QED
    BY <1>1, <1>3, <2>1, <2>2, <2>3 DEF BytesShape, b
<1> HIDE DEF b
<1>5. TypeOK' /\ SumShape' /\ SumFits'
  BY <1>1, <1>2, StartStep, NoMatterTypes DEF TypeOK
<1> QED
  BY <1>4, <1>5 DEF HdrInv

\* The arguments of ipv4_transmit_datagram and of create_std_ipv4_hdr.
LEMMA DerivedArguments ==
  ASSUME NEW a \in ipv4_hdr_arguments
  PROVE  /\ StdArguments(a) \in ipv4_hdr_arguments
         /\ \A o \in SockOpts : DatagramArguments(o, a) \in ipv4_hdr_arguments
<1>1. 0 \in Byte /\ 16 \in Byte /\ 64 \in Byte
  BY DEF Byte
<1>2. 0 \in U16 /\ 1 \in U16
  BY U16Type DEF MaxU16
<1>3. WithoutOptions(a) \in ipv4_hdr_arguments
  BY <1>1 DEF WithoutOptions, ipv4_hdr_arguments
<1>4. StdArguments(a) \in ipv4_hdr_arguments
  BY <1>1, <1>2, <1>3 DEF StdArguments, ipv4_hdr_arguments
<1>5. ASSUME NEW o \in SockOpts
      PROVE  DatagramArguments(o, a) \in ipv4_hdr_arguments
  <2>1. o.ttl \in Byte /\ o.no_fragment \in {0, 1}
    BY Ipv4HdrAssumption DEF ipv4_socket_options
  <2>2. o.no_fragment \in U16
    BY <1>2, <2>1
  <2> QED
    BY <1>1, <1>3, <2>1, <2>2 DEF DatagramArguments, ipv4_hdr_arguments
<1> QED
  BY <1>4, <1>5

\* ipv4_transmit_datagram, with what it takes from the socket's options.
LEMMA DatagramStep ==
  ASSUME NEW o \in SockOpts, NEW a \in Arguments, NEW ad \in Addrs,
         TransmitDatagram(o, a, ad)
  PROVE  HdrInv'
<1> DEFINE x == DatagramArguments(o, a)
           b == Image(x, ad)
<1>1. /\ StartCsum(b) /\ Readable(ad)
      /\ call' = "datagram" /\ sopts' = o /\ addrs' = ad /\ args' = x
  BY DEF TransmitDatagram
<1>2. x \in ipv4_hdr_arguments
  <2>1. a \in ipv4_hdr_arguments
    BY Ipv4HdrAssumption
  <2> QED
    BY <2>1, DerivedArguments
<1> HIDE DEF x
<1>3. b \in Seq(Byte)
  BY <1>1, <1>2, ImageType
<1>4. buf' = b
  BY <1>1 DEF StartCsum
<1>5. BytesShape'
  <2>1. Readable(addrs)'
    BY <1>1 DEF Readable
  <2>2. Image(args, addrs)' = Image(x, ad)
    BY <1>1 DEF Image, Ihl, HdrLen, TotalLen, AddrsOf
  <2>3. \A y : DatagramArguments(sopts, y)' = DatagramArguments(o, y)
    BY <1>1 DEF DatagramArguments, WithoutOptions
  <2>4. args' = DatagramArguments(o, a)
    BY <1>1 DEF x
  <2> QED
    BY <1>1, <1>4, <2>1, <2>2, <2>3, <2>4 DEF BytesShape
<1> HIDE DEF b
<1>6. TypeOK' /\ SumShape' /\ SumFits'
  BY <1>1, <1>2, <1>3, StartStep DEF TypeOK
<1> QED
  BY <1>5, <1>6 DEF HdrInv

\* A client calls csum.
LEMMA MessageStep ==
  ASSUME NEW m \in Messages, CallCsum(m)
  PROVE  HdrInv'
<1>1. m \in Seq(Byte) /\ StartCsum(m)
  BY Ipv4HdrAssumption DEF CallCsum
<1>2. call' = "csum" /\ args' = NoMatter /\ sopts' = NoOpts /\ addrs' = NoAddrs
  BY DEF CallCsum
<1>3. TypeOK' /\ SumShape' /\ SumFits'
  BY <1>1, <1>2, StartStep, NoMatterTypes DEF TypeOK
<1> QED
  BY <1>2, <1>3 DEF HdrInv, BytesShape

\* A sequence of four bytes.
LEMMA FourBytes ==
  ASSUME NEW a \in Byte, NEW b \in Byte, NEW c \in Byte, NEW d \in Byte
  PROVE  <<a, b, c, d>> \in Seq(Byte) /\ Len(<<a, b, c, d>>) = 4
OBVIOUS

\* Four bytes behind eight.
LEMMA EightAndFour ==
  ASSUME NEW x \in Seq(Byte), Len(x) = 8, NEW y \in Seq(Byte), Len(y) = 4
  PROVE  /\ x \o y \in Seq(Byte) /\ Len(x \o y) = 12
         /\ (x \o y)[9] = y[1] /\ (x \o y)[10] = y[2]
         /\ (x \o y)[11] = y[3] /\ (x \o y)[12] = y[4]
<1>1. /\ x \o y \in Seq(Byte) /\ Len(x \o y) = Len(x) + Len(y)
      /\ \A k \in 1 .. Len(x) : (x \o y)[k] = x[k]
      /\ \A k \in 1 .. Len(y) : (x \o y)[Len(x) + k] = y[k]
  BY Joined
<1> QED
  BY <1>1

\* The pseudo header has 12 bytes, and UDP's length in the last two.
LEMMA PsdHdrType ==
  ASSUME NEW ad \in Addrs, Readable(ad), NEW n \in U16
  PROVE  /\ PsdHdr(ad, n) \in Seq(Byte) /\ Len(PsdHdr(ad, n)) = 12
         /\ PsdHdr(ad, n)[9] = 0 /\ PsdHdr(ad, n)[10] = 17
         /\ PsdHdr(ad, n)[11] = lo(n) /\ PsdHdr(ad, n)[12] = hi(n)
<1> DEFINE y == <<0, 17, lo(n), hi(n)>>
<1>1. lo(n) \in Byte /\ hi(n) \in Byte
  BY U16Type, HalvesAreBytes
<1>2. 0 \in Byte /\ 17 \in Byte
  BY DEF Byte
<1>3. y \in Seq(Byte) /\ Len(y) = 4
  BY <1>1, <1>2, FourBytes
<1>4. y[1] = 0 /\ y[2] = 17 /\ y[3] = lo(n) /\ y[4] = hi(n)
  OBVIOUS
<1>5. AddrsOf(ad) \in Seq(Byte) /\ Len(AddrsOf(ad)) = 8
  BY AddrsOfType
<1>6. PsdHdr(ad, n) = AddrsOf(ad) \o y
  BY DEF PsdHdr
<1> DEFINE x == AddrsOf(ad)
<1> HIDE DEF x, y
<1>7. x \in Seq(Byte) /\ Len(x) = 8
  BY <1>5 DEF x
<1>8. /\ x \o y \in Seq(Byte) /\ Len(x \o y) = 12
      /\ (x \o y)[9] = y[1] /\ (x \o y)[10] = y[2]
      /\ (x \o y)[11] = y[3] /\ (x \o y)[12] = y[4]
  BY <1>3, <1>7, EightAndFour, Zenon
<1>9. PsdHdr(ad, n) = x \o y
  BY <1>6 DEF x
<1> QED
  BY <1>4, <1>8, <1>9, Zenon

\* A client calls csum for a packet behind its pseudo header.
LEMMA PacketStep ==
  ASSUME NEW packet \in Packets, NEW ad \in Addrs, CallCsumPacket(packet, ad)
  PROVE  HdrInv'
<1> DEFINE b == BuildPacket(PsdHdr(ad, Len(packet) % 65536), packet)
<1>1. /\ StartCsum(b) /\ Readable(ad) /\ call' = "packet"
      /\ args' = NoMatter /\ sopts' = NoOpts /\ addrs' = ad
  BY DEF CallCsumPacket
<1>2. packet \in Seq(Byte) /\ Len(packet) \in Nat /\ Len(packet) <= MaxU16
  BY Ipv4HdrAssumption
<1>3. Len(packet) % 65536 = Len(packet)
  BY <1>2 DEF MaxU16
<1>4. b = BuildPacket(PsdHdr(ad, Len(packet)), packet)
  BY <1>3
<1> HIDE DEF b
<1>5. b \in Seq(Byte)
  <2>1. Len(packet) \in U16
    BY <1>2, U16Type
  <2>2. PsdHdr(ad, Len(packet)) \in Seq(Byte)
    <3> DEFINE n == Len(packet)
    <3>1. n \in U16
      BY <2>1
    <3> HIDE DEF n
    <3>2. PsdHdr(ad, n) \in Seq(Byte)
      BY <1>1, <3>1, PsdHdrType
    <3> QED
      BY <3>2 DEF n
  <2> QED
    BY <1>2, <1>4, <2>2, Joined DEF BuildPacket
<1>6. buf' = b
  BY <1>1 DEF StartCsum
<1>7. BytesShape'
  <2>1. Readable(addrs)'
    BY <1>1 DEF Readable
  <2>2. \A n, q : BuildPacket(PsdHdr(addrs, n), q)' = BuildPacket(PsdHdr(ad, n), q)
    BY <1>1 DEF BuildPacket, PsdHdr, AddrsOf
  <2> QED
    BY <1>1, <1>4, <1>6, <2>1, <2>2 DEF BytesShape
<1>8. TypeOK' /\ SumShape' /\ SumFits'
  BY <1>1, <1>5, StartStep, NoMatterTypes DEF TypeOK
<1> QED
  BY <1>7, <1>8 DEF HdrInv

\* A number of 32 bits has 16 bits above its lower 16.
LEMMA Quotient16 ==
  ASSUME NEW s \in Nat, s <= 65535 * 65535
  PROVE  s \div 65536 <= 65535
OBVIOUS

\* The words of a buffer of less than 131070 bytes add up to 32 bits.
LEMMA FitsIn32Bits ==
  ASSUME NEW l \in Nat, NEW k \in Nat, 2 * k <= l + 2, l < 2 * MaxU16,
         NEW s \in Nat, s <= MaxU16 * k
  PROVE  Carry(s) <= MaxU16
<1>1. k <= MaxU16
  <2>1. MaxU16 \in Nat
    BY DEF MaxU16
  <2> QED
    BY <2>1
<1>2. k <= 65535 /\ s <= 65535 * k
  BY <1>1 DEF MaxU16
<1>3. s <= 65535 * 65535
  BY <1>2
<1>4. s \div 65536 <= 65535
  BY <1>3, Quotient16
<1> QED
  BY <1>4 DEF Carry, MaxU16

\* A smaller sum needs no more bits.
LEMMA SmallerFits ==
  ASSUME NEW s \in Nat, NEW t \in Nat, t < s, Carry(s) <= MaxU16
  PROVE  Carry(t) <= MaxU16
BY DEF Carry, MaxU16

\* What csum has summed, and what it has not, are words of the buffer.
LEMMA AddWordStep ==
  ASSUME TypeOK, SumShape, AddWord
  PROVE  TypeOK' /\ SumShape' /\ SumFits'
<1> DEFINE i == (Len(buf) - size) \div 2
<1>1. /\ pc = "words" /\ size > 1 /\ sum' = sum + Word(size) /\ size' = size - 2
      /\ UNCHANGED <<pc, call, args, sopts, addrs, buf, result>>
  BY DEF AddWord, inputs
<1>2. /\ buf \in Seq(Byte) /\ Len(buf) \in Nat /\ size \in Nat /\ size <= Len(buf)
  BY DEF TypeOK
<1>3. /\ (Len(buf) - size) % 2 = 0 /\ sum = Sums(buf)[i]
  BY <1>1 DEF SumShape
<1>4. /\ i \in Nat /\ i + 1 \in 1 .. (Len(buf) \div 2) /\ 2 * i = Len(buf) - size
      /\ (Len(buf) - (size - 2)) % 2 = 0 /\ (Len(buf) - (size - 2)) \div 2 = i + 1
  BY <1>1, <1>2, <1>3
<1> HIDE DEF i
<1>5. Word(size) = Word16(buf, i + 1)
  <2>1. Word(size) = buf[(Len(buf) - size) + 1] + 256 * buf[(Len(buf) - size) + 2]
    BY DEF Word
  <2>2. /\ (Len(buf) - size) + 1 = 2 * (i + 1) - 1
        /\ (Len(buf) - size) + 2 = 2 * (i + 1)
    BY <1>2, <1>4
  <2> QED
    BY <2>1, <2>2 DEF Word16
<1>6. sum' = Sums(buf)[i + 1]
  <2>1. Sums(buf)[i + 1] = Sums(buf)[(i + 1) - 1] + Word16(buf, i + 1)
    BY <1>2, <1>4, SumsEquation
  <2>2. (i + 1) - 1 = i
    BY <1>4
  <2> QED
    BY <1>1, <1>3, <1>5, <2>1, <2>2
<1>7. i + 1 \in 0 .. (Len(buf) \div 2)
  BY <1>4
<1>8. sum' \in Nat /\ sum' <= MaxU16 * (i + 1)
  BY <1>2, <1>6, <1>7, SumsBound
<1>9. TypeOK'
  <2>1. size' \in 0 .. Len(buf)
    BY <1>1, <1>2
  <2> QED
    BY <1>1, <1>8, <2>1 DEF TypeOK
<1>10. SumShape'
  BY <1>1, <1>4, <1>6 DEF SumShape, HasReturned
<1>11. Len(buf) < 2 * MaxU16 => Carry(sum') <= MaxU16
  <2>1. i + 1 \in Nat /\ 2 * (i + 1) <= Len(buf) + 2
    BY <1>2, <1>4
  <2> QED
    BY <1>2, <1>8, <2>1, FitsIn32Bits
<1> QED
  BY <1>1, <1>9, <1>10, <1>11 DEF SumFits

\* With at most one byte left, the words of the buffer are all summed.
LEMMA LastByteStep ==
  ASSUME TypeOK, SumShape, AddLastByte
  PROVE  TypeOK' /\ SumShape' /\ SumFits'
<1> DEFINE n == Len(buf) \div 2
<1>1. /\ pc = "words" /\ size <= 1 /\ pc' = "fold"
      /\ sum' = IF size = 1 THEN sum + Padded(buf[Len(buf)]) ELSE sum
      /\ UNCHANGED <<call, args, sopts, addrs, buf, size, result>>
  BY DEF AddLastByte, inputs
<1>2. /\ buf \in Seq(Byte) /\ Len(buf) \in Nat /\ size \in Nat /\ size <= Len(buf)
  BY DEF TypeOK
<1>3. /\ (Len(buf) - size) % 2 = 0 /\ sum = Sums(buf)[(Len(buf) - size) \div 2]
  BY <1>1 DEF SumShape
<1>4. /\ (Len(buf) - size) \div 2 = n /\ n \in 0 .. (Len(buf) \div 2)
      /\ (size = 1 <=> Len(buf) % 2 = 1) /\ (size = 1 => Len(buf) \in 1 .. Len(buf))
  BY <1>1, <1>2, <1>3
<1> HIDE DEF n
<1>5. sum \in Nat /\ sum <= MaxU16 * n
  BY <1>2, <1>3, <1>4, SumsBound
<1>6. sum' = Total(buf)
  BY <1>1, <1>3, <1>4, <1>5 DEF Total, n
<1>7. sum' \in Nat /\ sum' <= MaxU16 * (n + 1)
  <2>1. CASE size = 1
    <3>1. buf[Len(buf)] \in Byte
      BY <1>2, <1>4, <2>1, ElementOfSeq
    <3>2. buf[Len(buf)] \in Nat /\ buf[Len(buf)] <= 255
      BY <3>1, ByteType
    <3>3. sum' = sum + 256 * buf[Len(buf)]
      BY <1>1, <2>1, <3>2 DEF Padded
    <3>4. 256 * buf[Len(buf)] <= MaxU16
      BY <3>2 DEF MaxU16
    <3>5. n \in Nat /\ 256 * buf[Len(buf)] \in Nat /\ MaxU16 \in Nat
      BY <1>4, <3>2 DEF MaxU16
    <3>6. sum + 256 * buf[Len(buf)] <= MaxU16 * (n + 1)
      BY <1>5, <3>4, <3>5, OneMore
    <3> QED
      BY <1>5, <3>3, <3>5, <3>6
  <2>2. CASE size # 1
    <3>1. n \in Nat /\ 0 \in Nat /\ MaxU16 \in Nat /\ 0 <= MaxU16
      BY <1>4 DEF MaxU16
    <3>2. sum + 0 <= MaxU16 * (n + 1)
      BY <1>5, <3>1, OneMore
    <3> QED
      BY <1>1, <1>5, <2>2, <3>2
  <2> QED
    BY <2>1, <2>2
<1>8. TypeOK'
  BY <1>1, <1>7 DEF TypeOK
<1>9. SumShape'
  <2>1. Total(buf)' = Total(buf)
    BY <1>1 DEF Total, Sums, Word16
  <2>2. OnesSum(sum') = OnesSum(Total(buf)')
    BY <1>6, <2>1
  <2> QED
    BY <1>1, <2>2 DEF SumShape, HasReturned
<1>10. Len(buf) < 2 * MaxU16 => Carry(sum') <= MaxU16
  <2>1. n + 1 \in Nat /\ 2 * (n + 1) <= Len(buf) + 2
    BY <1>2 DEF n
  <2> QED
    BY <1>2, <1>7, <2>1, FitsIn32Bits
<1> QED
  BY <1>1, <1>8, <1>9, <1>10 DEF SumFits

\* A fold, and the end of the folds.
LEMMA FoldStep ==
  ASSUME TypeOK, SumShape, SumFits, Fold \/ Return
  PROVE  TypeOK' /\ SumShape' /\ SumFits'
<1>1. pc = "fold" /\ sum \in Nat /\ OnesSum(sum) = OnesSum(Total(buf))
  BY DEF Fold, Return, TypeOK, SumShape
<1>2. UNCHANGED <<call, args, sopts, addrs, buf, size>>
  BY DEF Fold, Return, inputs
<1>3. Total(buf)' = Total(buf)
  BY <1>2 DEF Total, Sums, Word16
<1>4. CASE Fold
  <2>1. sum' = Folded(sum) /\ pc' = "fold" /\ result' = result /\ Carry(sum) # 0
    BY <1>1, <1>4 DEF Fold
  <2>2. sum' \in Nat /\ OnesSum(sum') = OnesSum(sum) /\ sum' < sum
    BY <1>1, <2>1, FoldKeepsSum
  <2>3. TypeOK'
    BY <1>2, <2>1, <2>2 DEF TypeOK
  <2>4. SumShape'
    BY <1>1, <1>2, <1>3, <2>1, <2>2 DEF SumShape, HasReturned
  <2>5. Carry(sum) <= MaxU16 => Carry(sum') <= MaxU16
    BY <1>1, <2>2, SmallerFits
  <2> QED
    BY <1>2, <2>3, <2>4, <2>5 DEF SumFits
<1>5. CASE Return
  <2>1. /\ pc' = "idle" /\ sum' = sum /\ result' = MaxU16 - sum /\ Carry(sum) = 0
    BY <1>5 DEF Return
  <2>2. sum <= MaxU16 /\ MaxU16 - sum \in Nat /\ MaxU16 - sum <= MaxU16
    BY <1>1, <2>1, NoCarry
  <2>3. result' \in U16
    BY <2>1, <2>2, U16Type
  <2>4. TypeOK'
    BY <1>1, <1>2, <2>1, <2>3 DEF TypeOK
  <2>5. SumShape'
    BY <1>1, <1>2, <1>3, <2>1, <2>2 DEF SumShape, HasReturned
  <2> QED
    BY <1>2, <2>1, <2>4, <2>5 DEF SumFits
<1> QED
  BY <1>4, <1>5

\* A step of csum leaves its bytes alone.
LEMMA CsumStep ==
  ASSUME HdrInv, Csum
  PROVE  HdrInv'
<1>1. TypeOK' /\ SumShape' /\ SumFits'
  BY AddWordStep, LastByteStep, FoldStep DEF HdrInv, Csum
<1>2. UNCHANGED <<call, args, sopts, addrs, buf>>
  BY DEF Csum, AddWord, AddLastByte, Fold, Return, inputs
<1>3. BytesShape'
  <2>1. BytesShape
    BY DEF HdrInv
  <2>2. BytesShape' = BytesShape
    BY <1>2 DEF BytesShape, Readable, Image, Ihl, HdrLen, TotalLen, AddrsOf,
                BehindHdr, DatagramArguments, WithoutOptions, BuildPacket, PsdHdr
  <2> QED
    BY <2>1, <2>2
<1> QED
  BY <1>1, <1>3 DEF HdrInv

\* Every step keeps the invariant.
LEMMA HdrInvStep == HdrInv /\ [Next]_vars => HdrInv'
<1> SUFFICES ASSUME HdrInv, [Next]_vars PROVE HdrInv'
  OBVIOUS
<1>1. ASSUME NEW a \in Arguments, NEW ad \in Addrs, NEW data \in Beyond,
             NEW fill \in Beyond, CreateIpv4Hdr(a, ad, data, fill)
      PROVE  HdrInv'
  <2>1. a \in ipv4_hdr_arguments
    BY Ipv4HdrAssumption
  <2> QED
    BY <1>1, <2>1, HeaderStep
<1>2. ASSUME NEW a \in Arguments, NEW ad \in Addrs, NEW fill \in Beyond,
             CreateIpv4Hdr(StdArguments(a), ad, fill, fill)
      PROVE  HdrInv'
  <2>1. StdArguments(a) \in ipv4_hdr_arguments
    BY Ipv4HdrAssumption, DerivedArguments
  <2> QED
    BY <1>2, <2>1, HeaderStep
<1>3. ASSUME NEW o \in SockOpts, NEW a \in Arguments, NEW ad \in Addrs,
             TransmitDatagram(o, a, ad)
      PROVE  HdrInv'
  BY <1>3, DatagramStep
<1>4. ASSUME NEW m \in Messages, CallCsum(m)
      PROVE  HdrInv'
  BY <1>4, MessageStep
<1>5. ASSUME NEW packet \in Packets, NEW ad \in Addrs, CallCsumPacket(packet, ad)
      PROVE  HdrInv'
  BY <1>5, PacketStep
<1>6. CASE Dies
  <2>1. pc' = "dead" /\ UNCHANGED <<call, args, sopts, addrs, buf, size, sum, result>>
    BY <1>6 DEF Dies, inputs
  <2>2. TypeOK'
    BY <2>1 DEF HdrInv, TypeOK
  <2>3. BytesShape'
    <3>1. BytesShape' = BytesShape
      BY <2>1 DEF BytesShape, Readable, Image, Ihl, HdrLen, TotalLen, AddrsOf,
                  BehindHdr, DatagramArguments, WithoutOptions, BuildPacket, PsdHdr
    <3> QED
      BY <3>1 DEF HdrInv
  <2>4. SumShape'
    BY <2>1 DEF SumShape, HasReturned
  <2>5. SumFits'
    BY <2>1 DEF HdrInv, SumFits
  <2> QED
    BY <2>2, <2>3, <2>4, <2>5 DEF HdrInv
<1>7. CASE Csum
  BY <1>7, CsumStep
<1>8. CASE UNCHANGED vars
  <2>1. UNCHANGED <<pc, call, args, sopts, addrs, buf, size, sum, result>>
    BY <1>8 DEF vars
  <2>2. TypeOK'
    BY <2>1 DEF HdrInv, TypeOK
  <2>3. BytesShape'
    <3>1. BytesShape' = BytesShape
      BY <2>1 DEF BytesShape, Readable, Image, Ihl, HdrLen, TotalLen, AddrsOf,
                  BehindHdr, DatagramArguments, WithoutOptions, BuildPacket, PsdHdr
    <3> QED
      BY <3>1 DEF HdrInv
  <2>4. SumShape' /\ SumFits'
    <3>1. SumShape' = SumShape /\ SumFits' = SumFits
      BY <2>1 DEF SumShape, SumFits, HasReturned, Total, Sums, Word16
    <3> QED
      BY <3>1 DEF HdrInv
  <2> QED
    BY <2>2, <2>3, <2>4 DEF HdrInv
<1> QED
  BY <1>1, <1>2, <1>3, <1>4, <1>5, <1>6, <1>7, <1>8 DEF Next

\* The bytes are those of the last call, csum reads no byte behind them, and its
\* sum is that of the words it has read: csum.c:77-89 for every buffer.
THEOREM HeaderInvariance == Spec => []HdrInv
<1>1. Init => HdrInv
  BY InitHdrInv
<1>2. HdrInv /\ [Next]_vars => HdrInv'
  BY HdrInvStep
<1> QED
  BY <1>1, <1>2, PTL DEF Spec

-----------------------------------------------------------------------------
(* What csum returns.                                                      *)

\* Bytes verify against csum's result just when they have the sum csum made.
LEMMA ReturnVerifies ==
  ASSUME HdrInv, HasReturned, NEW c \in Seq(Byte)
  PROVE  Verifies(c, result) <=> OnesSum(SumOfWords(c)) = OnesSum(Total(buf))
<1>1. /\ sum \in Nat /\ sum <= MaxU16 /\ result = MaxU16 - sum
      /\ OnesSum(sum) = OnesSum(Total(buf))
  BY DEF HdrInv, TypeOK, SumShape
<1>2. SumOfWords(c) \in Nat
  <2>1. Len(c) % 2 = 1 => c[Len(c)] \in Nat
    <3>1. Len(c) \in Nat /\ (Len(c) % 2 = 1 => Len(c) \in 1 .. Len(c))
      OBVIOUS
    <3> QED
      BY <3>1, ElementOfSeq, ByteType
  <2>2. /\ Sums(c)[Len(c) \div 2] \in Nat
        /\ SumOfWords(c) = Sums(c)[Len(c) \div 2]
                             + (IF Len(c) % 2 = 1 THEN c[Len(c)] ELSE 0)
    BY SumOfPadded
  <2> QED
    BY <2>1, <2>2
<1>3. OnesSum(SumOfWords(c) + (MaxU16 - sum)) = 0 <=>
        OnesSum(SumOfWords(c)) = OnesSum(sum)
  BY <1>1, <1>2, ComplementVerifies
<1> QED
  BY <1>1, <1>3 DEF Verifies

\* Without a last odd byte, csum adds the words a receiver adds.
LEMMA EvenTotal ==
  ASSUME NEW b \in Seq(Byte), Len(b) % 2 = 0
  PROVE  SumOfWords(b) = Total(b)
BY SumOfPadded DEF Total

\* A buffer of even length is summed as a receiver sums it.
LEMMA EvenBuffers == HdrInv => EvenBuffersVerify
<1> SUFFICES ASSUME HdrInv, Returned("csum"), Len(buf) % 2 = 0
             PROVE  Verifies(buf, result)
  BY DEF EvenBuffersVerify
<1>1. buf \in Seq(Byte) /\ HasReturned
  BY DEF HdrInv, TypeOK, Returned, HasReturned
<1>2. SumOfWords(buf) = Total(buf)
  BY <1>1, EvenTotal
<1> QED
  BY <1>1, <1>2, ReturnVerifies

\* How far BuffersVerify fails: a buffer of odd length verifies just when its last
\* byte, which csum.c:81-84 puts into the upper half of its word, is 0.
OddBuffersVerifyIfZero ==
  Returned("csum") /\ Len(buf) % 2 = 1 =>
    (Verifies(buf, result) <=> buf[Len(buf)] = 0)

\* A last odd byte is summed in the other half of its word.
LEMMA OddBuffers == HdrInv => OddBuffersVerifyIfZero
<1> SUFFICES ASSUME HdrInv, Returned("csum"), Len(buf) % 2 = 1
             PROVE  Verifies(buf, result) <=> buf[Len(buf)] = 0
  BY DEF OddBuffersVerifyIfZero
<1>1. buf \in Seq(Byte) /\ HasReturned
  BY DEF HdrInv, TypeOK, Returned, HasReturned
<1> DEFINE x == Sums(buf)[Len(buf) \div 2]
           l == buf[Len(buf)]
<1>2. l \in Byte
  <2>1. Len(buf) \in 1 .. Len(buf)
    BY <1>1
  <2> QED
    BY <1>1, <2>1, ElementOfSeq
<1>3. x \in Nat /\ SumOfWords(buf) = x + l
  BY <1>1, SumOfPadded
<1>4. Total(buf) = x + Padded(l)
  BY DEF Total
<1> HIDE DEF x, l
<1>5. Verifies(buf, result) <=> OnesSum(SumOfWords(buf)) = OnesSum(Total(buf))
  BY <1>1, ReturnVerifies
<1>6. OnesSum(x + l) = OnesSum(x + Padded(l)) <=> l = 0
  BY <1>2, <1>3, HalvesDiffer
<1> QED
  BY <1>3, <1>4, <1>5, <1>6 DEF l

\* What a receiver sums has the bytes of csum's buffer, but the length's two
\* exchanged.
LEMMA ReceiversBytes ==
  ASSUME NEW b \in Seq(Byte), NEW l \in Nat, l <= MaxU16, Len(b) = 12 + l,
         b[9] = 0, b[10] = 17, b[11] = lo(l), b[12] = hi(l)
  PROVE  LET c == ReceiverSees(b) IN
           /\ c \in Seq(Byte) /\ Len(c) = Len(b)
           /\ c[11] = b[12] /\ c[12] = b[11]
           /\ \A k \in 1 .. Len(b) : k # 11 /\ k # 12 => c[k] = b[k]
<1> DEFINE c == ReceiverSees(b)
<1>1. Len(b) \in Nat /\ Len(b) - 12 = l
  OBVIOUS
<1>2. c = [b EXCEPT ![9] = 0, ![10] = 17, ![11] = hi(l), ![12] = lo(l)]
  BY <1>1 DEF ReceiverSees
<1>3. /\ 0 \in Byte /\ 17 \in Byte
  BY DEF Byte
<1>4. hi(l) \in Byte /\ lo(l) \in Byte
  BY HalvesAreBytes
<1>5. b \in [1 .. Len(b) -> Byte]
  BY LenProperties
<1>6. c \in [1 .. Len(b) -> Byte]
  BY <1>2, <1>3, <1>4, <1>5
<1>7. c \in Seq(Byte) /\ Len(c) = Len(b)
  <2> DEFINE n == Len(b)
  <2> HIDE DEF c, n
  <2>1. n \in Nat /\ c \in [1 .. n -> Byte]
    BY <1>1, <1>6 DEF n
  <2>2. c \in Seq(Byte) /\ Len(c) = n
    BY <2>1, FunctionIsSeq
  <2> QED
    BY <2>2 DEF n
<1>8. /\ c[11] = hi(l) /\ c[12] = lo(l)
      /\ \A k \in 1 .. Len(b) : k # 11 /\ k # 12 => c[k] = b[k]
  <2>1. DOMAIN b = 1 .. Len(b) /\ 11 \in 1 .. Len(b) /\ 12 \in 1 .. Len(b)
    BY <1>1, <1>5
  <2> QED
    BY <1>2, <1>5, <2>1
<1> HIDE DEF c
<1>9. /\ c \in Seq(Byte) /\ Len(c) = Len(b)
      /\ c[11] = b[12] /\ c[12] = b[11]
      /\ \A k \in 1 .. Len(b) : k # 11 /\ k # 12 => c[k] = b[k]
  BY <1>7, <1>8
<1> QED
  BY <1>9 DEF c

\* Exchanging the bytes of the sixth word changes the sum by 255 times their
\* difference.
LEMMA SixthSwapped ==
  ASSUME NEW b \in Seq(Byte), NEW c \in Seq(Byte), Len(c) = Len(b), Len(b) >= 12,
         c[11] = b[12], c[12] = b[11],
         \A k \in 1 .. Len(b) : k # 11 /\ k # 12 => c[k] = b[k]
  PROVE  Sums(c)[Len(b) \div 2] = SwapSum(Sums(b)[Len(b) \div 2], b[12], b[11])
<1> DEFINE n == Len(b) \div 2
           d == 255 * (b[11] - b[12])
<1>1. /\ Len(b) \in Nat /\ n \in Nat /\ 6 \in 1 .. n
      /\ n <= Len(b) \div 2 /\ n <= Len(c) \div 2
  OBVIOUS
<1>2. \A k \in 1 .. Len(b) : b[k] \in Nat
  BY ElementOfSeq, ByteType
<1>3. b[11] \in Nat /\ b[12] \in Nat
  <2>1. 11 \in 1 .. Len(b) /\ 12 \in 1 .. Len(b)
    BY <1>1
  <2> QED
    BY <1>2, <2>1
<1>4. d \in Int
  BY <1>3
<1>5. ASSUME NEW k \in 1 .. n
      PROVE  Word16(c, k) = Word16(b, k) + (IF k = 6 THEN d ELSE 0)
  <2>1. 2 * k - 1 \in 1 .. Len(b) /\ 2 * k \in 1 .. Len(b)
    BY <1>1
  <2>2. b[2 * k - 1] \in Nat /\ b[2 * k] \in Nat
    BY <1>2, <2>1
  <2>3. CASE k = 6
    <3>1. Word16(c, k) = b[12] + 256 * b[11] /\ Word16(b, k) = b[11] + 256 * b[12]
      BY <2>3 DEF Word16
    <3> QED
      BY <1>3, <2>3, <3>1
  <2>4. CASE k # 6
    <3>1. 2 * k - 1 # 11 /\ 2 * k - 1 # 12 /\ 2 * k # 11 /\ 2 * k # 12
      BY <2>4
    <3>2. c[2 * k - 1] = b[2 * k - 1] /\ c[2 * k] = b[2 * k]
      BY <2>1, <3>1
    <3> QED
      BY <2>2, <2>4, <3>2 DEF Word16
  <2> QED
    BY <2>3, <2>4
<1> HIDE DEF n, d
<1>6. Sums(c)[n] = Sums(b)[n] + d
  BY <1>1, <1>4, <1>5, SumsDiffer
<1> QED
  BY <1>6 DEF n, d, SwapSum

\* The bytes of a packet that is summed.
LEMMA PacketBytes ==
  ASSUME HdrInv, call = "packet"
  PROVE  \E l \in Nat : /\ l <= MaxU16 /\ Len(buf) = 12 + l
                       /\ buf[9] = 0 /\ buf[10] = 17
                       /\ buf[11] = lo(l) /\ buf[12] = hi(l)
<1>1. PICK packet \in Packets : buf = BuildPacket(PsdHdr(addrs, Len(packet)), packet)
  BY DEF HdrInv, BytesShape
<1>2. addrs \in Addrs /\ Readable(addrs)
  BY DEF HdrInv, TypeOK, BytesShape
<1>3. packet \in Seq(Byte) /\ Len(packet) \in Nat /\ Len(packet) <= MaxU16
  BY Ipv4HdrAssumption
<1> DEFINE l == Len(packet)
           x == PsdHdr(addrs, l)
<1>4. l \in U16
  BY <1>3, U16Type
<1> HIDE DEF l
<1>5. /\ x \in Seq(Byte) /\ Len(x) = 12 /\ x[9] = 0 /\ x[10] = 17
      /\ x[11] = lo(l) /\ x[12] = hi(l)
  BY <1>2, <1>4, PsdHdrType
<1>6. buf = x \o packet
  BY <1>1 DEF BuildPacket, l
<1> HIDE DEF x
<1>7. /\ Len(x \o packet) = Len(x) + Len(packet)
      /\ \A k \in 1 .. Len(x) : (x \o packet)[k] = x[k]
  BY <1>3, <1>5, Joined
<1>8. buf[9] = x[9] /\ buf[10] = x[10] /\ buf[11] = x[11] /\ buf[12] = x[12]
  <2>1. 9 \in 1 .. Len(x) /\ 10 \in 1 .. Len(x) /\ 11 \in 1 .. Len(x) /\ 12 \in 1 .. Len(x)
    BY <1>5
  <2> QED
    BY <1>6, <1>7, <2>1
<1>9. /\ l \in Nat /\ l <= MaxU16 /\ Len(buf) = 12 + l
      /\ buf[9] = 0 /\ buf[10] = 17 /\ buf[11] = lo(l) /\ buf[12] = hi(l)
  BY <1>3, <1>5, <1>6, <1>7, <1>8 DEF l
<1> QED
  BY <1>9

\* The length in the pseudo header has its bytes exchanged.
LEMMA PacketSums == HdrInv => PacketVerifiesIfBytesEqual
<1> DEFINE n == Len(buf) - 12
<1> SUFFICES ASSUME HdrInv, Returned("packet"), Len(buf) % 2 = 0 \/ buf[Len(buf)] = 0
             PROVE  Verifies(ReceiverSees(buf), result) <=> hi(n) = lo(n)
  BY DEF PacketVerifiesIfBytesEqual
<1>1. buf \in Seq(Byte) /\ HasReturned /\ call = "packet"
  BY DEF HdrInv, TypeOK, Returned, HasReturned
<1>2. PICK l \in Nat : /\ l <= MaxU16 /\ Len(buf) = 12 + l
                      /\ buf[9] = 0 /\ buf[10] = 17
                      /\ buf[11] = lo(l) /\ buf[12] = hi(l)
  BY <1>1, PacketBytes
<1> DEFINE c == ReceiverSees(buf)
           x == Sums(buf)[Len(buf) \div 2]
           y == Sums(c)[Len(buf) \div 2]
<1>3. /\ c \in Seq(Byte) /\ Len(c) = Len(buf)
      /\ c[11] = buf[12] /\ c[12] = buf[11]
      /\ \A k \in 1 .. Len(buf) : k # 11 /\ k # 12 => c[k] = buf[k]
  BY <1>1, <1>2, ReceiversBytes
<1>4. Verifies(c, result) <=> OnesSum(SumOfWords(c)) = OnesSum(Total(buf))
  BY <1>1, <1>3, ReturnVerifies
<1> HIDE DEF c
<1>5. y = SwapSum(x, buf[12], buf[11])
  <2>1. Len(buf) >= 12
    BY <1>2
  <2> QED
    BY <1>1, <1>3, <2>1, SixthSwapped
<1>6. x \in Nat /\ y \in Nat
  BY <1>1, <1>3, SumOfPadded
<1>7. Len(buf) % 2 = 1 => buf[Len(buf)] = 0 /\ c[Len(buf)] = 0
  <2> SUFFICES ASSUME Len(buf) % 2 = 1
               PROVE  buf[Len(buf)] = 0 /\ c[Len(buf)] = 0
    OBVIOUS
  <2>1. Len(buf) \in 1 .. Len(buf) /\ Len(buf) # 11 /\ Len(buf) # 12
    BY <1>2
  <2>2. buf[Len(buf)] = 0
    OBVIOUS
  <2> QED
    BY <1>3, <2>1, <2>2
<1>8. Total(buf) = x
  BY <1>6, <1>7 DEF Total, Padded
<1>9. SumOfWords(c) = y
  <2>1. SumOfWords(c) = y + (IF Len(c) % 2 = 1 THEN c[Len(c)] ELSE 0)
    BY <1>3, SumOfPadded
  <2> QED
    BY <1>3, <1>6, <1>7, <2>1
<1>10. OnesSum(y) = OnesSum(x) <=> buf[12] = buf[11]
  <2> DEFINE h == buf[12]
             k == buf[11]
  <2>1. h \in Byte /\ k \in Byte
    BY <1>2, HalvesAreBytes
  <2> HIDE DEF x, y, h, k
  <2>2. y = SwapSum(x, h, k)
    BY <1>5 DEF h, k
  <2>3. OnesSum(SwapSum(x, h, k)) = OnesSum(x) <=> h = k
    BY <1>6, <2>1, <2>2, SwapDiffers
  <2> QED
    BY <2>2, <2>3 DEF h, k
<1>11. n = l
  BY <1>2
<1> QED
  BY <1>2, <1>4, <1>8, <1>9, <1>10, <1>11 DEF c

-----------------------------------------------------------------------------
(* What the receiver of a header reads.                                    *)

\* The bytes of a header that is summed, with what is behind its first 20.
LEMMA HeaderBytes ==
  ASSUME HdrInv, call = "header"
  PROVE  /\ args \in ipv4_hdr_arguments /\ addrs \in Addrs /\ Readable(addrs)
         /\ buf \in Seq(Byte) /\ Len(buf) = HdrLen(args)
         /\ \A k \in 1 .. 12 : buf[k] = Head12(args)[k]
         /\ \A k \in 1 .. 8 : buf[12 + k] = AddrsOf(addrs)[k]
         /\ args.option_type # 0 => buf[21] = args.option_type
         /\ args.option_len # 0 => buf[22] = args.option_len
<1>1. /\ args \in ipv4_hdr_arguments /\ addrs \in Addrs /\ Readable(addrs)
      /\ buf \in Seq(Byte)
  BY DEF HdrInv, TypeOK, BytesShape
<1>2. PICK data \in Beyond, fill \in Beyond :
        buf = Image(args, addrs) \o BehindHdr(args, data, fill)
  BY DEF HdrInv, BytesShape
<1>3. data \in Byte /\ fill \in Byte
  BY Ipv4HdrAssumption
<1> DEFINE x == Image(args, addrs)
           y == BehindHdr(args, data, fill)
<1>4. /\ x \in Seq(Byte) /\ Len(x) = 20
      /\ \A k \in 1 .. 12 : x[k] = Head12(args)[k]
      /\ \A k \in 1 .. 8 : x[12 + k] = AddrsOf(addrs)[k]
  BY <1>1, ImageType
<1>5. /\ y \in Seq(Byte) /\ Len(y) = HdrLen(args) - 20
      /\ args.option_type # 0 => y[1] = args.option_type
      /\ args.option_len # 0 => y[2] = args.option_len
  BY <1>1, <1>3, BehindType
<1>6. /\ HdrLen(args) \in Nat /\ HdrLen(args) >= 20
      /\ args.option_type # 0 => HdrLen(args) >= 21
      /\ args.option_len # 0 => HdrLen(args) >= 22
  <2>1. args.option_len \in Nat
    BY <1>1, ArgumentTypes, ByteType
  <2> QED
    BY <1>1, <2>1, HdrLenType
<1>7. buf = x \o y
  BY <1>2
<1> HIDE DEF x, y
<1>8. /\ Len(x \o y) = Len(x) + Len(y)
      /\ \A k \in 1 .. Len(x) : (x \o y)[k] = x[k]
      /\ \A k \in 1 .. Len(y) : (x \o y)[Len(x) + k] = y[k]
  BY <1>4, <1>5, Joined
<1>9. Len(buf) = HdrLen(args)
  BY <1>4, <1>5, <1>6, <1>7, <1>8
<1>10. ASSUME NEW k \in 1 .. 12 PROVE buf[k] = Head12(args)[k]
  <2>1. k \in 1 .. Len(x)
    BY <1>4
  <2> QED
    BY <1>4, <1>7, <1>8, <2>1
<1>11. ASSUME NEW k \in 1 .. 8 PROVE buf[12 + k] = AddrsOf(addrs)[k]
  <2>1. 12 + k \in 1 .. Len(x)
    BY <1>4
  <2> QED
    BY <1>4, <1>7, <1>8, <2>1
<1>12. /\ args.option_type # 0 => buf[21] = args.option_type
       /\ args.option_len # 0 => buf[22] = args.option_len
  <2>1. \A k \in 1 .. Len(y) : buf[20 + k] = y[k]
    BY <1>4, <1>7, <1>8
  <2>2. /\ args.option_type # 0 => 1 \in 1 .. Len(y)
        /\ args.option_len # 0 => 2 \in 1 .. Len(y)
    BY <1>5, <1>6
  <2>3. 20 + 1 = 21 /\ 20 + 2 = 22
    OBVIOUS
  <2> QED
    BY <1>5, <2>1, <2>2, <2>3
<1> QED
  BY <1>1, <1>9, <1>10, <1>11, <1>12

\* The bytes of a header of ipv4_transmit_datagram.
LEMMA DatagramBytes ==
  ASSUME HdrInv, call = "datagram"
  PROVE  /\ args \in ipv4_hdr_arguments /\ addrs \in Addrs /\ Readable(addrs)
         /\ buf \in Seq(Byte) /\ Len(buf) = 20
         /\ \A k \in 1 .. 12 : buf[k] = Head12(args)[k]
         /\ \A k \in 1 .. 8 : buf[12 + k] = AddrsOf(addrs)[k]
         /\ args.option_type = 0 /\ args.option_len = 0
         /\ args.tos = 0 /\ args.ttl = sopts.ttl /\ args.f_off_vcf = sopts.no_fragment
<1>1. /\ args \in ipv4_hdr_arguments /\ addrs \in Addrs /\ Readable(addrs)
      /\ buf = Image(args, addrs)
  BY DEF HdrInv, TypeOK, BytesShape
<1>2. PICK a \in Arguments : args = DatagramArguments(sopts, a)
  BY DEF HdrInv, BytesShape
<1>3. a \in ipv4_hdr_arguments
  BY Ipv4HdrAssumption
<1>4. /\ args.option_type = 0 /\ args.option_len = 0
      /\ args.tos = 0 /\ args.ttl = sopts.ttl /\ args.f_off_vcf = sopts.no_fragment
  BY <1>2, <1>3 DEF DatagramArguments, WithoutOptions, ipv4_hdr_arguments
<1> DEFINE x == Image(args, addrs)
<1>5. /\ x \in Seq(Byte) /\ Len(x) = 20
      /\ \A k \in 1 .. 12 : x[k] = Head12(args)[k]
      /\ \A k \in 1 .. 8 : x[12 + k] = AddrsOf(addrs)[k]
  BY <1>1, ImageType
<1>6. buf = x
  BY <1>1
<1> HIDE DEF x
<1> QED
  BY <1>1, <1>4, <1>5, <1>6

\* Four bytes of a buffer are those of a sequence.
LEMMA FourAre ==
  ASSUME NEW b \in Seq(Byte), NEW m \in Nat, m + 4 <= Len(b),
         NEW s \in Seq(Nat), Len(s) = 4
  PROVE  SubSeq(b, m + 1, m + 4) = s <=>
           b[m + 1] = s[1] /\ b[m + 2] = s[2] /\ b[m + 3] = s[3] /\ b[m + 4] = s[4]
<1> DEFINE t == SubSeq(b, m + 1, m + 4)
<1>1. Len(b) \in Nat /\ m + 1 \in 1 .. Len(b) + 1 /\ m + 4 \in m + 1 - 1 .. Len(b)
  OBVIOUS
<1>2. /\ t \in Seq(Byte) /\ Len(t) = 4
      /\ t[1] = b[m + 1] /\ t[2] = b[m + 2] /\ t[3] = b[m + 3] /\ t[4] = b[m + 4]
  OBVIOUS
<1> HIDE DEF t
<1>3. (\A k \in 1 .. 4 : t[k] = s[k]) => t = s
  <2>1. t \in Seq(Nat) /\ Len(t) = Len(s)
    BY <1>2, ByteType, SeqMonotonic
  <2> SUFFICES ASSUME \A k \in 1 .. 4 : t[k] = s[k] PROVE t = s
    OBVIOUS
  <2>2. \A k \in 1 .. Len(t) : t[k] = s[k]
    BY <1>2
  <2> QED
    BY <2>1, <2>2, SeqEqual
<1>4. t[1] = s[1] /\ t[2] = s[2] /\ t[3] = s[3] /\ t[4] = s[4] => t = s
  <2>1. \A k \in 1 .. 4 : k = 1 \/ k = 2 \/ k = 3 \/ k = 4
    OBVIOUS
  <2> QED
    BY <1>3, <2>1
<1>5. SubSeq(b, m + 1, m + 4) = s <=>
        t[1] = s[1] /\ t[2] = s[2] /\ t[3] = s[3] /\ t[4] = s[4]
  BY <1>4 DEF t
<1> QED
  BY <1>2, <1>5

\* The addresses on the wire are those inet_addr or htonl has made.
LEMMA AddrsOnWire ==
  ASSUME buf \in Seq(Byte), Len(buf) >= 20, addrs \in Addrs, Readable(addrs),
         \A k \in 1 .. 8 : buf[12 + k] = AddrsOf(addrs)[k],
         NEW s \in Seq(Nat), Len(s) = 4
  PROVE  /\ SrcOnWire = s <=>
              LET x == AddrOf(addrs.form, addrs.src) IN
                x[1] = s[1] /\ x[2] = s[2] /\ x[3] = s[3] /\ x[4] = s[4]
         /\ DstOnWire = s <=>
              LET x == AddrOf(addrs.form, addrs.dst) IN
                x[1] = s[1] /\ x[2] = s[2] /\ x[3] = s[3] /\ x[4] = s[4]
<1> DEFINE x == AddrOf(addrs.form, addrs.src)
           y == AddrOf(addrs.form, addrs.dst)
<1>1. \A k \in 1 .. 4 : AddrsOf(addrs)[k] = x[k] /\ AddrsOf(addrs)[4 + k] = y[k]
  BY AddrsOfType
<1> HIDE DEF x, y
<1>2. \A k \in 1 .. 4 : buf[12 + k] = x[k]
  <2>1. \A k \in 1 .. 4 : k \in 1 .. 8
    OBVIOUS
  <2> QED
    BY <1>1, <2>1
<1>3. \A k \in 1 .. 4 : buf[16 + k] = y[k]
  <2>1. ASSUME NEW k \in 1 .. 4 PROVE buf[16 + k] = y[k]
    <3>1. 4 + k \in 1 .. 8 /\ 12 + (4 + k) = 16 + k
      OBVIOUS
    <3> QED
      BY <1>1, <3>1
  <2> QED
    BY <2>1
<1>4. 1 \in 1 .. 4 /\ 2 \in 1 .. 4 /\ 3 \in 1 .. 4 /\ 4 \in 1 .. 4
  OBVIOUS
<1>5. /\ buf[12 + 1] = x[1] /\ buf[12 + 2] = x[2]
      /\ buf[12 + 3] = x[3] /\ buf[12 + 4] = x[4]
      /\ buf[16 + 1] = y[1] /\ buf[16 + 2] = y[2]
      /\ buf[16 + 3] = y[3] /\ buf[16 + 4] = y[4]
  BY <1>2, <1>3, <1>4
<1>6. SubSeq(buf, 12 + 1, 12 + 4) = SrcOnWire /\ SubSeq(buf, 16 + 1, 16 + 4) = DstOnWire
  BY DEF SrcOnWire, DstOnWire
<1>7. 12 \in Nat /\ 16 \in Nat /\ 12 + 4 <= Len(buf) /\ 16 + 4 <= Len(buf)
  OBVIOUS
<1>8. SubSeq(buf, 12 + 1, 12 + 4) = s <=>
        /\ buf[12 + 1] = s[1] /\ buf[12 + 2] = s[2]
        /\ buf[12 + 3] = s[3] /\ buf[12 + 4] = s[4]
  BY <1>7, FourAre
<1>9. SubSeq(buf, 16 + 1, 16 + 4) = s <=>
        /\ buf[16 + 1] = s[1] /\ buf[16 + 2] = s[2]
        /\ buf[16 + 3] = s[3] /\ buf[16 + 4] = s[4]
  BY <1>7, FourAre
<1> QED
  BY <1>5, <1>6, <1>8, <1>9 DEF x, y

\* Of an address that is a number, htonl keeps the lower 16 bits.
LEMMA HtonlHalf ==
  ASSUME NEW s \in Seq(Byte), Len(s) = 4
  PROVE  LET x == AddrOf("number", s)
         IN  x[1] = 0 /\ x[2] = 0 /\ x[3] = s[3] /\ x[4] = s[4]
<1>1. AddrOf("number", s) = <<0, 0, s[3], s[4]>>
  BY DEF AddrOf, Htonl, Bswap32
<1> QED
  BY <1>1

\* How far htonl does what it is for, "uint32_t data in network host order"
\* (data_util.h:94): its parameter is a uint16_t (data_util.h:96), so an address
\* that a client gives to it is on the wire just when its upper 16 bits are 0.
HtonlKeepsLow16 ==
  Returned("header") /\ addrs.form = "number" =>
    /\ SrcOnWire = addrs.src <=> addrs.src[1] = 0 /\ addrs.src[2] = 0
    /\ DstOnWire = addrs.dst <=> addrs.dst[1] = 0 /\ addrs.dst[2] = 0

\* The addresses of clients that call htonl.
LEMMA LowerHalfOnWire == HdrInv => HtonlKeepsLow16
<1> SUFFICES ASSUME HdrInv, Returned("header"), addrs.form = "number"
             PROVE  /\ SrcOnWire = addrs.src <=> addrs.src[1] = 0 /\ addrs.src[2] = 0
                    /\ DstOnWire = addrs.dst <=> addrs.dst[1] = 0 /\ addrs.dst[2] = 0
  BY DEF HtonlKeepsLow16
<1>1. /\ addrs \in Addrs /\ Readable(addrs) /\ args \in ipv4_hdr_arguments
      /\ buf \in Seq(Byte) /\ Len(buf) = HdrLen(args)
      /\ \A k \in 1 .. 8 : buf[12 + k] = AddrsOf(addrs)[k]
  BY HeaderBytes DEF Returned
<1>2. /\ addrs.src \in Seq(Byte) /\ Len(addrs.src) = 4
      /\ addrs.dst \in Seq(Byte) /\ Len(addrs.dst) = 4
      /\ addrs.src \in Seq(Nat) /\ addrs.dst \in Seq(Nat)
  BY <1>1, Ipv4HdrAssumption
<1>3. Len(buf) >= 20
  BY <1>1, HdrLenType
<1> DEFINE x == AddrOf(addrs.form, addrs.src)
           y == AddrOf(addrs.form, addrs.dst)
           src == addrs.src
           dst == addrs.dst
<1>4. /\ x[1] = 0 /\ x[2] = 0 /\ x[3] = src[3] /\ x[4] = src[4]
      /\ y[1] = 0 /\ y[2] = 0 /\ y[3] = dst[3] /\ y[4] = dst[4]
  <2>1. x[1] = 0 /\ x[2] = 0 /\ x[3] = src[3] /\ x[4] = src[4]
    BY <1>2, HtonlHalf
  <2>2. y[1] = 0 /\ y[2] = 0 /\ y[3] = dst[3] /\ y[4] = dst[4]
    BY <1>2, HtonlHalf
  <2> QED
    BY <2>1, <2>2
<1>5. SrcOnWire = src <=>
        x[1] = src[1] /\ x[2] = src[2] /\ x[3] = src[3] /\ x[4] = src[4]
  BY <1>1, <1>2, <1>3, AddrsOnWire
<1>6. DstOnWire = dst <=>
        y[1] = dst[1] /\ y[2] = dst[2] /\ y[3] = dst[3] /\ y[4] = dst[4]
  BY <1>1, <1>2, <1>3, AddrsOnWire
<1> HIDE DEF x, y
<1> QED
  BY <1>4, <1>5, <1>6

\* The fields a receiver reads in the first 12 bytes.
LEMMA HeadFields ==
  ASSUME NEW a
  PROVE  /\ Head12(a)[1] = 64 + Ihl(a) /\ Head12(a)[2] = a.tos
         /\ Head12(a)[3] = hi(TotalLen(a)) /\ Head12(a)[4] = lo(TotalLen(a))
         /\ Head12(a)[7] = hi(WithDontFragment(a.f_off_vcf))
         /\ Head12(a)[8] = lo(WithDontFragment(a.f_off_vcf))
         /\ Head12(a)[9] = a.ttl
BY DEF Head12

\* A fragment field of 0 or 1 gets the flag "don't fragment" (ip.c:186).
LEMMA FragmentFields ==
  ASSUME NEW x \in {0, 1}
  PROVE  hi(WithDontFragment(x)) = 64 /\ lo(WithDontFragment(x)) = x
BY DEF WithDontFragment, DONT_FRAGMENT, hi, lo

\* The fields ipv4_transmit_datagram fills from the socket's options.
LEMMA SocketOptionBytes == HdrInv => SocketOptionsOnWire
<1> SUFFICES ASSUME HdrInv, Returned("datagram")
             PROVE  /\ buf[9] = sopts.ttl
                    /\ DontFragment(buf) /\ ~MoreFragments(buf)
                    /\ 8 * FragmentOffset(buf) = IF sopts.no_fragment = 1 THEN 8 ELSE 0
  BY DEF SocketOptionsOnWire
<1>1. /\ \A k \in 1 .. 12 : buf[k] = Head12(args)[k]
      /\ args.ttl = sopts.ttl /\ args.f_off_vcf = sopts.no_fragment
  BY DatagramBytes DEF Returned
<1>2. sopts.no_fragment \in {0, 1}
  BY Ipv4HdrAssumption DEF HdrInv, TypeOK, ipv4_socket_options
<1>3. 7 \in 1 .. 12 /\ 8 \in 1 .. 12 /\ 9 \in 1 .. 12
  OBVIOUS
<1>4. buf[9] = sopts.ttl
  BY <1>1, <1>3, HeadFields
<1>5. buf[7] = 64 /\ buf[8] = sopts.no_fragment
  <2>1. /\ buf[7] = hi(WithDontFragment(sopts.no_fragment))
        /\ buf[8] = lo(WithDontFragment(sopts.no_fragment))
    BY <1>1, <1>3, HeadFields
  <2> QED
    BY <1>2, <2>1, FragmentFields
<1>6. DontFragment(buf) /\ ~MoreFragments(buf)
  BY <1>5 DEF DontFragment, MoreFragments
<1>7. 8 * FragmentOffset(buf) = IF sopts.no_fragment = 1 THEN 8 ELSE 0
  BY <1>2, <1>5 DEF FragmentOffset
<1> QED
  BY <1>4, <1>6, <1>7

\* The rounding of ip.c:172-174 gives the least number of words for n bytes.
LEMMA RoundedWords ==
  ASSUME NEW n \in Nat, n >= 20, n <= 60
  PROVE  LET ihl == (Round(n) \div 4) % 16
         IN  ihl \in Nat /\ ihl <= 15 /\ n <= 4 * ihl /\ 4 * (ihl - 1) < n
<1> DEFINE q == n \div 4
           r == n % 4
<1>1. q \in Nat /\ r \in 0 .. 3 /\ n = 4 * q + r
  OBVIOUS
<1>2. Round(n) = IF r = 0 THEN n ELSE n + r + (4 - r)
  BY DEF Round
<1> HIDE DEF q, r
<1>3. CASE r = 0
  <2>1. Round(n) \div 4 = q /\ q <= 15
    BY <1>1, <1>2, <1>3
  <2>2. (Round(n) \div 4) % 16 = q
    BY <1>1, <2>1
  <2> QED
    BY <1>1, <1>3, <2>1, <2>2
<1>4. CASE r # 0
  <2>1. Round(n) = n + 4
    BY <1>1, <1>2, <1>4
  <2>2. Round(n) \div 4 = q + 1 /\ q + 1 <= 15
    BY <1>1, <1>4, <2>1
  <2>3. (Round(n) \div 4) % 16 = q + 1
    BY <1>1, <2>2
  <2> QED
    BY <1>1, <1>4, <2>2, <2>3
<1> QED
  BY <1>3, <1>4

\* A byte whose upper four bits are 4.
LEMMA LowerHalf ==
  ASSUME NEW i \in Nat, i <= 15
  PROVE  (64 + i) % 16 = i
OBVIOUS

\* The length field of a header with options.
LEMMA OptionWords == HdrInv => IhlCoversOptions
<1> DEFINE i == buf[1] % 16
<1> SUFFICES ASSUME HdrInv, Returned("header"), args.option_type # 0,
                    OptionsEnd(args) <= 60
             PROVE  OptionsEnd(args) <= 4 * i /\ 4 * (i - 1) < OptionsEnd(args)
  BY DEF IhlCoversOptions
<1>1. args \in ipv4_hdr_arguments /\ \A k \in 1 .. 12 : buf[k] = Head12(args)[k]
  BY HeaderBytes DEF Returned
<1>2. args.option_len \in Nat
  BY <1>1, ArgumentTypes, ByteType
<1> DEFINE n == OptionsEnd(args)
<1>3. n \in Nat /\ n >= 20 /\ n <= 60 /\ HdrLen(args) = Round(n)
  BY <1>2 DEF OptionsEnd, HdrLen, ipv4_hdr_size
<1> DEFINE ihl == (Round(n) \div 4) % 16
<1> HIDE DEF n
<1>4. ihl \in Nat /\ ihl <= 15 /\ n <= 4 * ihl /\ 4 * (ihl - 1) < n
  BY <1>3, RoundedWords
<1>5. buf[1] = 64 + ihl
  <2>1. 1 \in 1 .. 12
    OBVIOUS
  <2>2. buf[1] = 64 + Ihl(args)
    BY <1>1, <2>1, HeadFields
  <2> QED
    BY <1>3, <2>2 DEF Ihl
<1> HIDE DEF ihl
<1>6. i = ihl
  BY <1>4, <1>5, LowerHalf
<1> HIDE DEF i
<1> QED
  BY <1>4, <1>6 DEF n

\* The length octet of an option.
LEMMA ShortOptions == HdrInv => OptionReadShort
<1> SUFFICES ASSUME HdrInv, Returned("header"), ~SingleOctet(args.option_type),
                    args.option_len >= 2
             PROVE  NextOption(buf, ipv4_hdr_size + 1) = OptionsEnd(args) - 1
  BY DEF OptionReadShort
<1>1. /\ args \in ipv4_hdr_arguments
      /\ args.option_type # 0 => buf[21] = args.option_type
      /\ args.option_len # 0 => buf[22] = args.option_len
  BY HeaderBytes DEF Returned
<1>2. args.option_len \in Nat
  BY <1>1, ArgumentTypes, ByteType
<1>3. args.option_type # 0
  BY DEF SingleOctet, OptionNumber, IPV4_OPTION_NUMBER
<1>4. buf[21] = args.option_type /\ buf[22] = args.option_len
  BY <1>1, <1>2, <1>3
<1>5. ipv4_hdr_size + 1 = 21 /\ 21 + 1 = 22
  BY DEF ipv4_hdr_size
<1>6. NextOption(buf, 21) = 21 + args.option_len
  BY <1>4, <1>5 DEF NextOption
<1>7. OptionsEnd(args) = 22 + args.option_len
  BY <1>2 DEF OptionsEnd, ipv4_hdr_size
<1> QED
  BY <1>2, <1>5, <1>6, <1>7

\* A number that fits a uint8_t is kept.
LEMMA Mod256 ==
  ASSUME NEW n \in Nat, n < 256
  PROVE  n % 256 = n
OBVIOUS

\* inet_addr keeps four numbers that fit a byte, in their order.
LEMMA QuadKept ==
  ASSUME NEW s \in Seq(Nat), IsDottedQuad(s)
  PROVE  LET x == AddrOf("text", s)
         IN  x[1] = s[1] /\ x[2] = s[2] /\ x[3] = s[3] /\ x[4] = s[4]
<1>1. Len(s) = 4 /\ \A k \in 1 .. 4 : s[k] \in Nat /\ s[k] < 256
  <2>1. Len(s) = 4 /\ \A k \in 1 .. 4 : s[k] < 256
    BY DEF IsDottedQuad
  <2> QED
    BY <2>1, ElementOfSeq
<1>2. s # <<>>
  <2>1. Len(s) = 4
    BY DEF IsDottedQuad
  <2>2. Len(s) # 0
    BY <2>1
  <2> QED
    BY <2>2, EmptySeq
<1>3. AddrOf("text", s) = [k \in 1 .. 4 |-> s[k] % 256]
  BY <1>2 DEF AddrOf, InetAddr
<1>4. ASSUME NEW k \in 1 .. 4 PROVE AddrOf("text", s)[k] = s[k]
  <2>1. s[k] \in Nat /\ s[k] < 256
    BY <1>1
  <2>2. s[k] % 256 = s[k]
    BY <2>1, Mod256
  <2> QED
    BY <1>3, <2>2
<1> QED
  BY <1>4

\* Header and payload make a length of 16 bits.
LEMMA LengthFits ==
  ASSUME NEW n \in Nat, n <= MaxU16 - 20
  PROVE  20 + n \in Nat /\ 20 + n <= MaxU16 /\ (20 + n) % 65536 = 20 + n
BY DEF MaxU16

\* A header of 20 bytes.
LEMMA PlainBytes ==
  ASSUME HdrInv, Returned("header") \/ Returned("datagram"),
         args.option_type = 0, args.option_len = 0
  PROVE  /\ args \in ipv4_hdr_arguments /\ addrs \in Addrs /\ Readable(addrs)
         /\ buf \in Seq(Byte) /\ Len(buf) = 20 /\ HdrLen(args) = 20 /\ HasReturned
         /\ \A k \in 1 .. 12 : buf[k] = Head12(args)[k]
         /\ \A k \in 1 .. 8 : buf[12 + k] = AddrsOf(addrs)[k]
<1>1. HasReturned
  BY DEF Returned, HasReturned
<1>2. args \in ipv4_hdr_arguments
  BY DEF HdrInv, TypeOK
<1>3. HdrLen(args) = 20
  BY <1>2, HdrLenType
<1>4. CASE Returned("header")
  <2>1. call = "header"
    BY <1>4 DEF Returned
  <2> QED
    BY <1>1, <1>3, <2>1, HeaderBytes
<1>5. CASE Returned("datagram")
  <2>1. call = "datagram"
    BY <1>5 DEF Returned
  <2> QED
    BY <1>1, <1>3, <2>1, DatagramBytes
<1> QED
  BY <1>4, <1>5

\* The length, the checksum and the addresses of a header without options.
LEMMA PlainHeaders == HdrInv => PlainHeadersVerify
<1> SUFFICES ASSUME HdrInv, Returned("header") \/ Returned("datagram"),
                    args.option_type = 0, args.option_len = 0
             PROVE  /\ 4 * (buf[1] % 16) = Len(buf)
                    /\ Verifies(buf, result)
                    /\ args.tlen <= MaxU16 - ipv4_hdr_size =>
                         256 * buf[3] + buf[4] = ipv4_hdr_size + args.tlen
                    /\ addrs.form = "text" /\ IsDottedQuad(addrs.src) =>
                         SrcOnWire = addrs.src
                    /\ addrs.form = "text" /\ IsDottedQuad(addrs.dst) =>
                         DstOnWire = addrs.dst
  BY DEF PlainHeadersVerify
<1>1. /\ args \in ipv4_hdr_arguments /\ addrs \in Addrs /\ Readable(addrs)
      /\ buf \in Seq(Byte) /\ Len(buf) = 20 /\ HdrLen(args) = 20 /\ HasReturned
      /\ \A k \in 1 .. 12 : buf[k] = Head12(args)[k]
      /\ \A k \in 1 .. 8 : buf[12 + k] = AddrsOf(addrs)[k]
  BY PlainBytes
<1>2. 4 * (buf[1] % 16) = Len(buf)
  <2>1. 1 \in 1 .. 12 /\ 5 \in Nat /\ 5 <= 15
    OBVIOUS
  <2>2. Ihl(args) = 5
    BY <1>1 DEF Ihl
  <2>3. buf[1] = 64 + 5
    BY <1>1, <2>1, <2>2, HeadFields
  <2> QED
    BY <1>1, <2>1, <2>3, LowerHalf
<1>3. Verifies(buf, result)
  <2>1. Len(buf) % 2 = 0
    BY <1>1
  <2>2. SumOfWords(buf) = Total(buf)
    BY <1>1, <2>1, EvenTotal
  <2>3. Verifies(buf, result) <=> OnesSum(SumOfWords(buf)) = OnesSum(Total(buf))
    BY <1>1, ReturnVerifies
  <2> QED
    BY <2>2, <2>3
<1>4. ASSUME args.tlen <= MaxU16 - ipv4_hdr_size
      PROVE  256 * buf[3] + buf[4] = ipv4_hdr_size + args.tlen
  <2> DEFINE n == args.tlen
             t == TotalLen(args)
  <2>1. ipv4_hdr_size = 20
    BY DEF ipv4_hdr_size
  <2>2. n \in Nat /\ n <= MaxU16 - 20
    BY <1>1, <1>4, <2>1, ArgumentTypes
  <2>3. 3 \in 1 .. 12 /\ 4 \in 1 .. 12
    OBVIOUS
  <2>4. buf[3] = hi(t) /\ buf[4] = lo(t)
    BY <1>1, <2>3, HeadFields
  <2>5. t = (20 + n) % 65536
    BY <1>1 DEF TotalLen
  <2> HIDE DEF n, t
  <2>6. t = 20 + n /\ t \in Nat /\ t <= MaxU16
    BY <2>2, <2>5, LengthFits
  <2>7. t = 256 * hi(t) + lo(t)
    BY <2>6, HalvesAreBytes
  <2> QED
    BY <2>1, <2>4, <2>6, <2>7 DEF n
<1>5. addrs.src \in Seq(Nat) /\ addrs.dst \in Seq(Nat) /\ Len(buf) >= 20
  <2>1. addrs \in Addrs
    BY <1>1
  <2>2. addrs.src \in Seq(Nat) /\ addrs.dst \in Seq(Nat)
    BY <2>1, Ipv4HdrAssumption
  <2>3. Len(buf) >= 20
    BY <1>1
  <2> QED
    BY <2>2, <2>3
<1> DEFINE x == AddrOf(addrs.form, addrs.src)
           y == AddrOf(addrs.form, addrs.dst)
           src == addrs.src
           dst == addrs.dst
<1>6. ASSUME addrs.form = "text", IsDottedQuad(src)
      PROVE  SrcOnWire = src
  <2>1. Len(src) = 4
    BY <1>6 DEF IsDottedQuad
  <2>2. x[1] = src[1] /\ x[2] = src[2] /\ x[3] = src[3] /\ x[4] = src[4]
    BY <1>5, <1>6, QuadKept
  <2>3. SrcOnWire = src <=>
          x[1] = src[1] /\ x[2] = src[2] /\ x[3] = src[3] /\ x[4] = src[4]
    BY <1>1, <1>5, <2>1, AddrsOnWire
  <2> QED
    BY <2>2, <2>3
<1>7. ASSUME addrs.form = "text", IsDottedQuad(dst)
      PROVE  DstOnWire = dst
  <2>1. Len(dst) = 4
    BY <1>7 DEF IsDottedQuad
  <2>2. y[1] = dst[1] /\ y[2] = dst[2] /\ y[3] = dst[3] /\ y[4] = dst[4]
    BY <1>5, <1>7, QuadKept
  <2>3. DstOnWire = dst <=>
          y[1] = dst[1] /\ y[2] = dst[2] /\ y[3] = dst[3] /\ y[4] = dst[4]
    BY <1>1, <1>5, <2>1, AddrsOnWire
  <2> QED
    BY <2>2, <2>3
<1> QED
  BY <1>2, <1>3, <1>4, <1>6, <1>7

\* The checksum of a buffer of even length verifies: csum has added all words,
\* and all carries (csum.h:95-99).
THEOREM EvenBuffersSum == Spec => []EvenBuffersVerify
BY HeaderInvariance, EvenBuffers, PTL

\* BuffersVerify fails for just the buffers of odd length whose last byte, which
\* csum.c:81-84 puts into the upper half of its word, is not 0.
THEOREM OddBuffersSum == Spec => []OddBuffersVerifyIfZero
BY HeaderInvariance, OddBuffers, PTL

\* The checksum over the pseudo header of craft_ipv4_psd_hdr, whose length is not
\* in network byte order (csum.c:64), verifies at a receiver just when the two
\* bytes of the length are equal.
THEOREM PseudoHeaderSum == Spec => []PacketVerifiesIfBytesEqual
BY HeaderInvariance, PacketSums, PTL

\* The addresses that htonl puts on the wire are just those whose upper 16 bits are
\* 0: its parameter is a uint16_t (data_util.h:96), where its comment has a
\* uint32_t (data_util.h:93).
THEOREM NumbersLoseUpperHalf == Spec => []HtonlKeepsLow16
BY HeaderInvariance, LowerHalfOnWire, PTL

\* Of the options of a socket, a receiver gets ttl and, for no_fragment, a
\* fragment without its first 8 bytes; every datagram has the flag "don't
\* fragment" (ip.c:186, 232-234).
THEOREM DatagramsCarryOptions == Spec => []SocketOptionsOnWire
BY HeaderInvariance, SocketOptionBytes, PTL

\* The length rounding of ip.c:172-174 lets ihl be the least number of words that
\* holds the options.
THEOREM IhlHoldsOptions == Spec => []IhlCoversOptions
BY HeaderInvariance, OptionWords, PTL

\* ip.c:198 stores a length that is too short by 2: the receiver finds its next
\* option in the last but one octet of this one.
THEOREM OptionsReadShort == Spec => []OptionReadShort
BY HeaderInvariance, ShortOptions, PTL

\* A header without options verifies at a receiver, who takes its length from it,
\* says how long the datagram is, and has the addresses in the order they are
\* written (data_util.c:59).
THEOREM PlainHeadersSum == Spec => []PlainHeadersVerify
BY HeaderInvariance, PlainHeaders, PTL
=============================================================================
