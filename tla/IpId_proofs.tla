----------------------------- MODULE IpId_proofs -----------------------------
(***************************************************************************)
(* Proofs about the IPv4 identification allocator, for every number of     *)
(* streams and of blocks, every C library, and every bitmap whose size is  *)
(* 1 modulo 3 (65536 is).                                                  *)
(***************************************************************************)
EXTENDS IpId, TLAPS

-----------------------------------------------------------------------------
(* The arithmetic of allocate_ipv4_id.                                     *)

\* The block ip.c:112 computes is a uint16_t, whatever rand() returns and
\* whether or not the addition overflows.
LEMMA NextBlockType ==
  ASSUME NEW last \in Ids, rand \in RandFns
  PROVE  NextBlock(last) \in Ids
<1>1. rand[last] \in Int
  BY RandAssumption
<1>2. WrapInt(last + rand[last]) \in Int
  BY <1>1, RandAssumption DEF WrapInt, Ids
<1>3. CRem(WrapInt(last + rand[last]), MaxBlocks) \in Int
  BY <1>2, BlockAssumption DEF CRem
<1> QED
  BY <1>3, IdSpaceAssumption DEF NextBlock, Ids

\* Quotient and remainder are determined.
LEMMA DivisionUnique ==
  ASSUME NEW M \in Nat, NEW u \in Nat, NEW v \in Nat, NEW b \in Nat, NEW d \in Nat,
         b < M, d < M, M * u + b = M * v + d
  PROVE  b = d
<1>1. CASE u = v
  BY <1>1
<1>2. CASE u < v
  <2>1. M * v >= M * (u + 1)
    BY <1>2
  <2>2. M * (u + 1) = M * u + M
    OBVIOUS
  <2> QED
    BY <2>1, <2>2
<1>3. CASE u > v
  <2>1. M * u >= M * (v + 1)
    BY <1>3
  <2>2. M * (v + 1) = M * v + M
    OBVIOUS
  <2> QED
    BY <2>1, <2>2
<1> QED
  BY <1>1, <1>2, <1>3

\* Remainders of sums.
LEMMA ModMultiple ==
  ASSUME NEW M \in Nat, M > 0, NEW q \in Nat, NEW y \in Nat
  PROVE  (y + M * q) % M = y % M
<1> DEFINE a == y \div M
           b == y % M
           z == y + M * q
           c == z \div M
           d == z % M
<1>1. a \in Nat /\ b \in Nat /\ b < M /\ y = M * a + b
  OBVIOUS
<1>2. z \in Nat /\ c \in Nat /\ d \in Nat /\ d < M /\ z = M * c + d
  OBVIOUS
<1>3. M * (a + q) + b = M * c + d
  BY <1>1, <1>2
<1> HIDE DEF a, b, c, d, z
<1>4. b = d
  BY <1>1, <1>2, <1>3, DivisionUnique
<1> QED
  BY <1>4 DEF b, d, z

\* Once around the bitmap is where one was.
LEMMA ModOnce ==
  ASSUME NEW M \in Nat, M > 0, NEW x \in Nat
  PROVE  (x + M + 3) % M = (x + 3) % M
<1>1. x + 3 \in Nat /\ 1 \in Nat /\ (x + 3) + M * 1 = x + M + 3
  OBVIOUS
<1>2. ((x + 3) + M * 1) % M = (x + 3) % M
  BY <1>1, ModMultiple
<1> QED
  BY <1>1, <1>2

\* A stride (ip.c:122) from a remainder and one from the number agree.
LEMMA ModStride ==
  ASSUME NEW M \in Nat, M > 0, NEW x \in Nat
  PROVE  ((x % M) + 3) % M = (x + 3) % M
<1> DEFINE q == x \div M
           r == x % M
<1>1. q \in Nat /\ r \in Nat /\ x = M * q + r
  OBVIOUS
<1> HIDE DEF q, r
<1>2. r + 3 \in Nat /\ (r + 3) + M * q = x + 3
  BY <1>1
<1>3. ((r + 3) + M * q) % M = (r + 3) % M
  BY <1>1, <1>2, ModMultiple
<1> QED
  BY <1>2, <1>3 DEF r

\* The first entry of a block is a uint16_t (ip.c:113).
LEMMA StartEntryType ==
  ASSUME NEW block \in Ids
  PROVE  StartEntry(block) \in Ids
BY IdSpaceAssumption, BlockAssumption DEF StartEntry, Ids

\* The stride of ip.c:122 keeps the entry in the bitmap and in its residue
\* class modulo 3, and never leads to the last ID.
LEMMA NextEntryClass ==
  ASSUME NEW e \in Ids
  PROVE  /\ NextEntry(e) \in 0 .. (IdSpace - 2)
         /\ NextEntry(e) % 3 = e % 3
<1>1. NextEntry(e) \in 0 .. (IdSpace - 2)
  BY IdSpaceAssumption DEF NextEntry, Ids
<1>2. NextEntry(e) % 3 = e % 3
  BY IdSpaceAssumption DEF NextEntry, Ids
<1> QED
  BY <1>1, <1>2

\* What the loop can reach after a stride it could reach before.
LEMMA ReachableShrinks ==
  ASSUME NEW e \in Ids
  PROVE  Reachable(NextEntry(e)) \subseteq Reachable(e)
<1>1. NextEntry(e) \in 0 .. (IdSpace - 2) /\ NextEntry(e) % 3 = e % 3
  BY NextEntryClass
<1> QED
  BY <1>1 DEF Reachable

-----------------------------------------------------------------------------
(* The inductive invariant.                                                *)

\* Before ip_initialise no header is live and no bit is set.
LEMMA InitIInv == Init => IInv
<1> SUFFICES ASSUME Init PROVE IInv
  OBVIOUS
<1>1. TypeOK
  BY IdSpaceAssumption DEF Init, TypeOK, Ids
<1>2. HeldMarked /\ CallerHasHeader /\ UniqueIds /\ BitsAccounted /\ SearchSoFar
  BY DEF Init, HeldMarked, CallerHasHeader, UniqueIds, BitsAccounted, SearchSoFar
<1> QED
  BY <1>1, <1>2 DEF IInv

\* No step leaves the declared ranges; that PacketAllocFails gives up an ID and
\* not NoId needs CallerHasHeader.
LEMMA TypeStep == TypeOK /\ CallerHasHeader /\ [Next]_vars => TypeOK'
<1> SUFFICES ASSUME TypeOK, CallerHasHeader, [Next]_vars PROVE TypeOK'
  OBVIOUS
<1> USE DEF TypeOK
<1>1. CASE IpInitialise
  <2>1. 0 .. (FirstBlocks - 1) \subseteq Ids
    BY IdSpaceAssumption, BlockAssumption DEF Ids
  <2> QED
    BY <1>1, <2>1 DEF IpInitialise
<1>2. CASE IpFinalise
  BY <1>2 DEF IpFinalise
<1>3. ASSUME NEW s \in Streams, NEW m \in {"direct", "transmit"}, CreateHdr(s, m)
      PROVE  TypeOK'
  <2>1. NextBlock(last_block) \in Ids
    BY NextBlockType
  <2>2. StartEntry(NextBlock(last_block)) \in Ids
    BY <2>1, StartEntryType
  <2> QED
    BY <1>3, <2>1, <2>2 DEF CreateHdr
<1>4. CASE TakeId
  BY <1>4, IdSpaceAssumption DEF TakeId, BitmapSet, libraryVars, Ids
<1>5. CASE MarkZero
  BY <1>5 DEF MarkZero, BitmapSet, libraryVars
<1>6. CASE SkipId
  <2>1. NextEntry(entry) \in Ids
    BY NextEntryClass, IdSpaceAssumption DEF Ids
  <2> QED
    BY <1>6, <2>1 DEF SkipId, libraryVars
<1>7. CASE PacketAllocFails
  <2>1. hdr[caller] \in Ids
    BY <1>7 DEF PacketAllocFails, CallerHasHeader
  <2> QED
    BY <1>7, <2>1 DEF PacketAllocFails, libraryVars
<1>8. CASE LinkTxAndFree
  BY <1>8 DEF LinkTxAndFree, BitmapClear, libraryVars
<1>9. ASSUME NEW s \in Streams, FreeHdr(s)
      PROVE  TypeOK'
  BY <1>9 DEF FreeHdr, libraryVars
<1>10. CASE UNCHANGED vars
  BY <1>10 DEF vars
<1> QED
  BY <1>1, <1>2, <1>3, <1>4, <1>5, <1>6, <1>7, <1>8, <1>9, <1>10
  DEF Next, Client, Library, Probe

\* A running call has a live bitmap, and a header exactly when it is complete.
LEMMA CallerStep ==
  TypeOK /\ CallerHasHeader /\ [Next]_vars => CallerHasHeader'
<1> SUFFICES ASSUME TypeOK, CallerHasHeader, [Next]_vars PROVE CallerHasHeader'
  OBVIOUS
<1> USE DEF TypeOK, CallerHasHeader
<1>1. CASE Client
  <2>1. CASE IpInitialise \/ IpFinalise
    BY <2>1 DEF IpInitialise, IpFinalise
  <2>2. ASSUME NEW s \in Streams, NEW m \in {"direct", "transmit"}, CreateHdr(s, m)
        PROVE  CallerHasHeader'
    BY <2>2 DEF CreateHdr
  <2>3. ASSUME NEW s \in Streams, FreeHdr(s)
        PROVE  CallerHasHeader'
    BY <2>3 DEF FreeHdr, libraryVars
  <2> QED
    BY <1>1, <2>1, <2>2, <2>3 DEF Client
<1>2. CASE TakeId
  <2>1. entry # NoId
    BY NoIdAssumption
  <2>2. hdr'[caller] = entry
    BY <1>2 DEF TakeId
  <2> QED
    BY <1>2, <2>1, <2>2 DEF TakeId, libraryVars
<1>3. CASE MarkZero \/ SkipId
  BY <1>3 DEF MarkZero, SkipId, libraryVars
<1>4. CASE PacketAllocFails \/ LinkTxAndFree
  BY <1>4 DEF PacketAllocFails, LinkTxAndFree, libraryVars
<1>5. CASE UNCHANGED vars
  BY <1>5 DEF vars
<1> QED
  BY <1>1, <1>2, <1>3, <1>4, <1>5 DEF Next, Library, Probe

\* The IDs of the live headers are marked and all different.
LEMMA UniqueStep ==
  ASSUME TypeOK, CallerHasHeader, HeldMarked, UniqueIds, [Next]_vars
  PROVE  HeldMarked' /\ UniqueIds'
<1> USE DEF TypeOK, HeldMarked, UniqueIds
<1>1. CASE IpInitialise
  BY <1>1 DEF IpInitialise
<1>2. CASE IpFinalise
  BY <1>2 DEF IpFinalise
<1>3. ASSUME NEW s \in Streams, NEW m \in {"direct", "transmit"}, CreateHdr(s, m)
      PROVE  HeldMarked' /\ UniqueIds'
  BY <1>3 DEF CreateHdr
<1>4. CASE TakeId
  <2>1. \A s \in Streams : hdr[s] # NoId => hdr[s] # entry
    BY <1>4 DEF TakeId, BitmapGet
  <2>2. hdr' = [hdr EXCEPT ![caller] = entry] /\ used' = used \cup {entry}
    BY <1>4 DEF TakeId, BitmapSet
  <2>3. bitmap' = "live" /\ entry # 0
    BY <1>4 DEF TakeId, CallerHasHeader, libraryVars
  <2> QED
    BY <2>1, <2>2, <2>3
<1>5. CASE MarkZero
  BY <1>5 DEF MarkZero, BitmapSet, libraryVars
<1>6. CASE SkipId
  BY <1>6 DEF SkipId, libraryVars
<1>7. CASE PacketAllocFails
  BY <1>7 DEF PacketAllocFails, libraryVars
<1>8. CASE LinkTxAndFree
  <2>1. hdr' = [hdr EXCEPT ![caller] = NoId] /\ used' = used \ {hdr[caller]}
    BY <1>8 DEF LinkTxAndFree, BitmapClear
  <2>2. hdr[caller] # NoId /\ bitmap' = bitmap
    BY <1>8 DEF LinkTxAndFree, CallerHasHeader, libraryVars
  <2> QED
    BY <2>1, <2>2
<1>9. ASSUME NEW s \in Streams, FreeHdr(s)
      PROVE  HeldMarked' /\ UniqueIds'
  BY <1>9 DEF FreeHdr, libraryVars
<1>10. CASE UNCHANGED vars
  BY <1>10 DEF vars
<1> QED
  BY <1>1, <1>2, <1>3, <1>4, <1>5, <1>6, <1>7, <1>8, <1>9, <1>10
  DEF Next, Client, Library, Probe

\* What a header's creation and its end do to the set of held IDs.
LEMMA HeldIdsAdd ==
  ASSUME TypeOK, NEW i \in Ids, hdr[caller] = NoId,
         hdr' = [hdr EXCEPT ![caller] = i]
  PROVE  HeldIds' = HeldIds \cup {i}
<1> USE DEF TypeOK
<1>1. i # NoId
  BY NoIdAssumption
<1>2. HeldIds' \subseteq HeldIds \cup {i}
  BY DEF HeldIds
<1>3. ASSUME NEW j \in HeldIds PROVE j \in HeldIds'
  <2>1. PICK s \in Streams : j = hdr[s] /\ hdr[s] # NoId
    BY <1>3 DEF HeldIds
  <2>2. s # caller /\ hdr'[s] = hdr[s]
    BY <2>1
  <2> QED
    BY <2>1, <2>2 DEF HeldIds
<1>4. hdr'[caller] = i
  OBVIOUS
<1>5. i \in HeldIds'
  BY <1>1, <1>4 DEF HeldIds
<1> QED
  BY <1>2, <1>3, <1>5

\* A header that goes takes its ID, and no other, from those held.
LEMMA HeldIdsRemove ==
  ASSUME TypeOK, UniqueIds, NEW s \in Streams, hdr[s] # NoId,
         hdr' = [hdr EXCEPT ![s] = NoId]
  PROVE  HeldIds' = HeldIds \ {hdr[s]} /\ hdr[s] \in HeldIds
<1> USE DEF TypeOK
<1>1. \A t \in Streams \ {s} : hdr'[t] = hdr[t] /\ hdr[t] # hdr[s]
  BY DEF UniqueIds
<1>2. hdr'[s] = NoId
  OBVIOUS
<1>3. HeldIds' \subseteq HeldIds \ {hdr[s]}
  BY <1>1, <1>2 DEF HeldIds
<1>4. ASSUME NEW j \in HeldIds \ {hdr[s]} PROVE j \in HeldIds'
  <2>1. PICK t \in Streams : j = hdr[t] /\ hdr[t] # NoId
    BY <1>4 DEF HeldIds
  <2>2. hdr'[t] = hdr[t]
    BY <1>1, <1>4, <2>1
  <2> QED
    BY <2>1, <2>2 DEF HeldIds
<1>5. hdr[s] \in HeldIds
  BY DEF HeldIds
<1> QED
  BY <1>3, <1>4, <1>5

\* Every set bit stays accounted for.
LEMMA BitsStep ==
  ASSUME TypeOK, CallerHasHeader, HeldMarked, UniqueIds, BitsAccounted, [Next]_vars
  PROVE  BitsAccounted'
<1> USE DEF TypeOK
<1>1. CASE IpInitialise
  <2>1. HeldIds' = HeldIds /\ HeldIds = {}
    BY <1>1 DEF IpInitialise, HeldMarked, HeldIds
  <2> QED
    BY <1>1, <2>1 DEF IpInitialise, BitsAccounted
<1>2. CASE IpFinalise
  BY <1>2 DEF IpFinalise, BitsAccounted
<1>3. ASSUME UNCHANGED <<used, hdr, orphans, bitmap>>
      PROVE  BitsAccounted'
  BY <1>3 DEF BitsAccounted, HeldIds
<1>4. CASE TakeId
  <2>1. HeldIds' = HeldIds \cup {entry}
    BY <1>4, HeldIdsAdd DEF TakeId, CallerHasHeader
  <2>2. entry # 0 /\ entry \notin used /\ used' = used \cup {entry}
    BY <1>4 DEF TakeId, BitmapGet, BitmapSet
  <2>3. bitmap = "live" /\ orphans' = orphans
    BY <1>4 DEF TakeId, CallerHasHeader
  <2> QED
    BY <2>1, <2>2, <2>3 DEF BitsAccounted
<1>5. CASE MarkZero
  <2>1. used' = used \cup {0} /\ UNCHANGED <<hdr, orphans, bitmap>>
    BY <1>5 DEF MarkZero, BitmapSet, libraryVars
  <2> QED
    BY <2>1 DEF BitsAccounted, HeldIds
<1>6. ASSUME NEW s \in Streams, hdr[s] # NoId, hdr' = [hdr EXCEPT ![s] = NoId],
             orphans' = orphans \cup {hdr[s]}, UNCHANGED <<used, bitmap>>
      PROVE  BitsAccounted'
  <2>1. HeldIds' = HeldIds \ {hdr[s]} /\ hdr[s] \in HeldIds
    BY <1>6, HeldIdsRemove
  <2> QED
    BY <1>6, <2>1 DEF BitsAccounted
<1>7. CASE LinkTxAndFree
  <2>1. HeldIds' = HeldIds \ {hdr[caller]} /\ hdr[caller] \in HeldIds
    BY <1>7, HeldIdsRemove DEF LinkTxAndFree, CallerHasHeader
  <2>2. used' = used \ {hdr[caller]} /\ UNCHANGED <<orphans, bitmap>>
    BY <1>7 DEF LinkTxAndFree, BitmapClear, libraryVars
  <2> QED
    BY <2>1, <2>2 DEF BitsAccounted
<1>8. CASE PacketAllocFails
  BY <1>8, <1>6 DEF PacketAllocFails, CallerHasHeader, libraryVars
<1>9. ASSUME NEW s \in Streams, FreeHdr(s)
      PROVE  BitsAccounted'
  BY <1>9, <1>6 DEF FreeHdr, libraryVars
<1>10. CASE SkipId \/ UNCHANGED vars
  BY <1>10, <1>3 DEF SkipId, libraryVars, vars
<1>11. ASSUME NEW s \in Streams, NEW m \in {"direct", "transmit"}, CreateHdr(s, m)
       PROVE  BitsAccounted'
  BY <1>11, <1>3 DEF CreateHdr
<1> QED
  BY <1>1, <1>2, <1>4, <1>5, <1>7, <1>8, <1>9, <1>10, <1>11
  DEF Next, Client, Library, Probe

\* A stride leads to the next entry of the probing order.
LEMMA NextProbe ==
  ASSUME NEW e \in Ids, NEW k \in Nat
  PROVE  ProbeAt(e, k + 1) = NextEntry(ProbeAt(e, k))
<1> DEFINE M == IdSpace - 1
<1>1. M \in Nat /\ M > 0 /\ e \in Nat
  BY IdSpaceAssumption DEF Ids
<1>2. ProbeAt(e, k + 1) = (e + 3 * (k + 1)) % M
  BY DEF ProbeAt
<1>3. CASE k = 0
  BY <1>2, <1>3 DEF ProbeAt, NextEntry
<1>4. CASE k # 0
  <2>1. ProbeAt(e, k) = (e + 3 * k) % M
    BY <1>4 DEF ProbeAt
  <2>2. NextEntry(ProbeAt(e, k)) = (((e + 3 * k) % M) + 3) % M
    BY <2>1 DEF NextEntry
  <2> DEFINE x == e + 3 * k
  <2>3. x \in Nat /\ e + 3 * (k + 1) = x + 3
    BY <1>1
  <2> HIDE DEF x, M
  <2>4. ((x % M) + 3) % M = (x + 3) % M
    BY <1>1, <2>3, ModStride
  <2> QED
    BY <1>2, <2>2, <2>3, <2>4 DEF x
<1> QED
  BY <1>3, <1>4

\* IdSpace \div 3 strides lead once around the bitmap.
LEMMA FullCircle ==
  ASSUME NEW e \in Ids, NEW k \in Nat, k = IdSpace \div 3
  PROVE  NextEntry(ProbeAt(e, k)) = ProbeAt(e, 1) /\ k >= 1
<1> DEFINE M == IdSpace - 1
<1>1. M \in Nat /\ M > 0 /\ e \in Nat /\ M = 3 * k /\ k >= 1
  BY IdSpaceAssumption DEF Ids
<1>2. ProbeAt(e, k) = (e + M) % M
  BY <1>1 DEF ProbeAt
<1>3. ProbeAt(e, 1) = (e + 3) % M
  BY DEF ProbeAt
<1>4. NextEntry(ProbeAt(e, k)) = (((e + M) % M) + 3) % M
  BY <1>2 DEF NextEntry
<1> HIDE DEF M
<1>5. (((e + M) % M) + 3) % M = ((e + M) + 3) % M
  <2>1. e + M \in Nat
    BY <1>1
  <2> QED
    BY <1>1, <2>1, ModStride
<1>6. (e + M + 3) % M = (e + 3) % M
  BY <1>1, ModOnce
<1> QED
  BY <1>1, <1>3, <1>4, <1>5, <1>6

\* The loop has left marked entries behind.
LEMMA SearchStep ==
  ASSUME TypeOK, SearchSoFar, [Next]_vars
  PROVE  SearchSoFar'
<1> DEFINE e == StartEntry(last_block)
<1>1. e \in Ids
  BY StartEntryType DEF TypeOK
<1>2. ASSUME NEW s \in Streams, NEW m \in {"direct", "transmit"}, CreateHdr(s, m)
      PROVE  SearchSoFar'
  <2>1. entry' = StartEntry(last_block')
    BY <1>2 DEF CreateHdr
  <2>2. entry' = ProbeAt(StartEntry(last_block'), 0)
    BY <2>1 DEF ProbeAt
  <2>3. 0 \in 0 .. (IdSpace \div 3) /\ \A j \in 0 .. (0 - 1) : FALSE
    BY IdSpaceAssumption
  <2>4. /\ StartEntry(last_block)' = StartEntry(last_block')
        /\ \A j : ProbeAt(StartEntry(last_block), j)' = ProbeAt(StartEntry(last_block'), j)
    BY DEF StartEntry, ProbeAt
  <2> QED
    BY <2>2, <2>3, <2>4 DEF SearchSoFar
<1>3. CASE UNCHANGED <<pc, entry, last_block>> /\ used \subseteq used'
  <2>1. \A j : ProbeAt(StartEntry(last_block), j)' = ProbeAt(StartEntry(last_block), j)
    BY <1>3 DEF StartEntry, ProbeAt
  <2> QED
    BY <1>3, <2>1 DEF SearchSoFar
<1>4. CASE MarkZero \/ UNCHANGED vars
  BY <1>3, <1>4 DEF MarkZero, BitmapSet, libraryVars, vars
<1>5. CASE SkipId
  <2>1. /\ pc = "probe" /\ entry \in used /\ entry' = NextEntry(entry)
        /\ used' = used /\ last_block' = last_block /\ pc' = pc
    BY <1>5 DEF SkipId, BitmapGet, libraryVars
  <2>2. PICK k \in 0 .. (IdSpace \div 3) :
          /\ entry = ProbeAt(e, k)
          /\ \A j \in 0 .. (k - 1) : ProbeAt(e, j) \in used
    BY <2>1 DEF SearchSoFar
  <2>3. /\ \A j : ProbeAt(StartEntry(last_block), j)' = ProbeAt(e, j)
    BY <2>1 DEF StartEntry, ProbeAt
  <2>4. SUFFICES ASSUME TRUE
                 PROVE  \E i \in 0 .. (IdSpace \div 3) :
                          /\ entry' = ProbeAt(e, i)
                          /\ \A j \in 0 .. (i - 1) : ProbeAt(e, j) \in used
    BY <2>1, <2>3 DEF SearchSoFar
  <2> HIDE DEF e
  <2>5. \A j \in 0 .. k : ProbeAt(e, j) \in used
    BY <2>1, <2>2
  <2>6. k \in Nat /\ IdSpace \div 3 \in Nat
    BY IdSpaceAssumption
  <2>7. CASE k < IdSpace \div 3
    <3>1. entry' = ProbeAt(e, k + 1)
      BY <1>1, <2>1, <2>2, <2>6, NextProbe
    <3>2. k + 1 \in 0 .. (IdSpace \div 3) /\ (k + 1) - 1 = k
      BY <2>6, <2>7
    <3> QED
      BY <2>5, <3>1, <3>2
  <2>8. CASE k = IdSpace \div 3
    <3>1. entry' = ProbeAt(e, 1) /\ k >= 1
      BY <1>1, <2>1, <2>2, <2>6, <2>8, FullCircle
    <3>2. 1 \in 0 .. (IdSpace \div 3) /\ \A j \in 0 .. (1 - 1) : j \in 0 .. k
      BY <2>6, <2>8, <3>1
    <3> QED
      BY <2>5, <3>1, <3>2
  <2> QED
    BY <2>6, <2>7, <2>8
<1>6. CASE pc' # "probe"
  BY <1>6 DEF SearchSoFar
<1>7. CASE TakeId \/ PacketAllocFails \/ LinkTxAndFree \/ IpInitialise \/ IpFinalise
  <2>1. pc' # "probe"
    BY <1>7 DEF TakeId, PacketAllocFails, LinkTxAndFree, IpInitialise, IpFinalise
  <2> QED
    BY <1>6, <2>1
<1>8. ASSUME NEW s \in Streams, FreeHdr(s)
      PROVE  SearchSoFar'
  BY <1>6, <1>8 DEF FreeHdr
<1> QED
  BY <1>2, <1>4, <1>5, <1>7, <1>8 DEF Next, Client, Library, Probe

\* Every step keeps the invariant.
LEMMA NextIInv == IInv /\ [Next]_vars => IInv'
BY TypeStep, CallerStep, UniqueStep, BitsStep, SearchStep DEF IInv

\* The allocator's state, reached by any sequence of calls, satisfies IInv.
THEOREM Invariance == Spec => []IInv
<1>1. Init => IInv
  BY InitIInv
<1>2. IInv /\ [Next]_vars => IInv'
  BY NextIInv
<1> QED
  BY <1>1, <1>2, PTL DEF Spec

\* Every variable of the allocator keeps its C type (ip.c:53-56, 112-114).
THEOREM TypeCorrect == Spec => []TypeOK
<1>1. IInv => TypeOK
  BY DEF IInv
<1> QED
  BY <1>1, Invariance, PTL

\* "Select unique IPv4 ID field value" (ip.c:81): two live headers never carry
\* the same ID, for any number of streams.
THEOREM IdsAreUnique == Spec => []UniqueIds
<1>1. IInv => UniqueIds
  BY DEF IInv
<1> QED
  BY <1>1, Invariance, PTL

\* A set bit is the ID of a live header, bit 0, or an ID that free_ipv4_id was
\* never called for (ip.c:242-247, and the clients of create_ipv4_hdr).
THEOREM BitsAreAccounted == Spec => []BitsAccounted
<1>1. IInv => BitsAccounted
  BY DEF IInv
<1> QED
  BY <1>1, Invariance, PTL

-----------------------------------------------------------------------------
(* The allocator implements IdPool.                                        *)

\* The pool begins with no ID given.
LEMMA InitPool == Init => Pool!Init
BY DEF Init, Pool!Init

\* A header that ends is a Release, whatever happens to its bit.
LEMMA ReleaseStep ==
  ASSUME NEW s \in Streams, hdr[s] # NoId, hdr' = [hdr EXCEPT ![s] = NoId]
  PROVE  Pool!Next
BY DEF Pool!Next, Pool!Release

\* Each step of the allocator acquires an ID, releases one, or is none of the
\* pool's (ip.c:117-124, 242-247).
LEMMA NextPool == IInv /\ [Next]_vars => [Pool!Next]_hdr
<1> SUFFICES ASSUME IInv, [Next]_vars PROVE [Pool!Next]_hdr
  OBVIOUS
<1> USE DEF IInv, TypeOK
<1>1. CASE TakeId
  <2>1. entry \in 1 .. (IdSpace - 1)
    BY <1>1, IdSpaceAssumption DEF TakeId, Ids
  <2>2. \A s \in Streams : hdr[s] # entry
    BY <1>1, NoIdAssumption DEF TakeId, BitmapGet, HeldMarked
  <2>3. entry \in Pool!Free
    BY <2>1, <2>2 DEF Pool!Free
  <2>4. hdr[caller] = NoId /\ hdr' = [hdr EXCEPT ![caller] = entry]
    BY <1>1 DEF TakeId, CallerHasHeader
  <2>5. Pool!Acquire(caller)
    BY <2>3, <2>4 DEF Pool!Acquire
  <2> QED
    BY <2>5 DEF Pool!Next
<1>2. CASE PacketAllocFails \/ LinkTxAndFree
  BY <1>2, ReleaseStep DEF PacketAllocFails, LinkTxAndFree, CallerHasHeader
<1>3. ASSUME NEW s \in Streams, FreeHdr(s)
      PROVE  [Pool!Next]_hdr
  BY <1>3, ReleaseStep DEF FreeHdr
<1>4. CASE IpInitialise \/ IpFinalise \/ MarkZero \/ SkipId \/ UNCHANGED vars
  BY <1>4 DEF IpInitialise, IpFinalise, MarkZero, SkipId, vars
<1>5. ASSUME NEW s \in Streams, NEW m \in {"direct", "transmit"}, CreateHdr(s, m)
      PROVE  [Pool!Next]_hdr
  BY <1>5 DEF CreateHdr
<1> QED
  BY <1>1, <1>2, <1>3, <1>4, <1>5 DEF Next, Client, Library, Probe

\* The bitmap, its blocks and its strides implement the pool of IDs that
\* create_ipv4_hdr (ip.c:159-204) and ipv4_transmit_datagram (226-260) rely on.
THEOREM Refinement == Spec => ImplementsIdPool
<1>1. Init => Pool!Init
  BY InitPool
<1>2. IInv /\ [Next]_vars => [Pool!Next]_hdr
  BY NextPool
<1> QED
  BY <1>1, <1>2, Invariance, PTL DEF Spec, ImplementsIdPool, Pool!Spec

-----------------------------------------------------------------------------
(* The loop of allocate_ipv4_id once its residue class is full.            *)

\* A full class stays the class of the search, and nothing empties it.
LEMMA ExhaustedStep == TypeOK /\ [Next]_vars => (Exhausted => Exhausted')
<1> SUFFICES ASSUME TypeOK, [Next]_vars, Exhausted PROVE Exhausted'
  OBVIOUS
<1> USE DEF TypeOK, Exhausted
<1>1. ~TakeId
  <2>1. SUFFICES ASSUME entry # 0 PROVE entry \in used
    BY DEF TakeId, BitmapGet
  <2> QED
    BY <2>1 DEF Reachable
<1>2. CASE MarkZero
  BY <1>2 DEF MarkZero, BitmapSet
<1>3. CASE SkipId
  <2>1. Reachable(NextEntry(entry)) \subseteq Reachable(entry)
    BY ReachableShrinks
  <2>2. entry' = NextEntry(entry) /\ used' = used /\ pc' = pc
    BY <1>3 DEF SkipId
  <2>3. Reachable(entry)' = Reachable(NextEntry(entry))
    BY <2>2 DEF Reachable
  <2> QED
    BY <2>1, <2>2, <2>3
<1>4. CASE UNCHANGED vars
  BY <1>4 DEF vars
<1> QED
  BY <1>1, <1>2, <1>3, <1>4
  DEF Next, Client, Library, Probe, IpInitialise, IpFinalise, CreateHdr,
      PacketAllocFails, LinkTxAndFree, FreeHdr

\* A call of allocate_ipv4_id that finds its residue class modulo 3 full never
\* returns (ip.c:117-124): a third of the 65536 IDs is all a call can try.
THEOREM ExhaustionIsPermanent == Spec => ExhaustedIsPermanent
<1>1. TypeOK /\ [Next]_vars => [Exhausted => Exhausted']_vars
  BY ExhaustedStep
<1> QED
  BY <1>1, TypeCorrect, PTL DEF Spec, ExhaustedIsPermanent

\* allocate_ipv4_id takes the first free ID of its probing order: every entry it
\* has tried before (ip.c:117-124) was set, or is bit 0.
THEOREM TakesFirstFree == Spec => FirstFree
<1>1. ASSUME IInv, [Next]_vars, NEW s \in Streams, hdr[s] = NoId, hdr'[s] # NoId
      PROVE  \E k \in 0 .. (IdSpace \div 3) :
               /\ hdr'[s] = ProbeAt(StartEntry(last_block), k)
               /\ \A j \in 0 .. (k - 1) : ProbeAt(StartEntry(last_block), j) \in used
  <2>1. hdr' # hdr
    BY <1>1
  <2>2. TypeOK
    BY <1>1 DEF IInv
  <2>3. CASE TakeId
    <3>1. pc = "probe" /\ hdr' = [hdr EXCEPT ![caller] = entry]
      BY <2>3 DEF TakeId
    <3>2. s = caller /\ hdr'[s] = entry
      BY <1>1, <2>2, <3>1 DEF TypeOK
    <3> QED
      BY <1>1, <3>1, <3>2 DEF IInv, SearchSoFar
  <2>4. CASE PacketAllocFails \/ LinkTxAndFree
    <3>1. hdr' = [hdr EXCEPT ![caller] = NoId]
      BY <2>4 DEF PacketAllocFails, LinkTxAndFree
    <3> QED
      BY <1>1, <2>2, <3>1 DEF TypeOK
  <2>5. ASSUME NEW t \in Streams, FreeHdr(t) PROVE FALSE
    <3>1. hdr' = [hdr EXCEPT ![t] = NoId]
      BY <2>5 DEF FreeHdr
    <3> QED
      BY <1>1, <2>2, <3>1 DEF TypeOK
  <2> QED
    BY <1>1, <2>1, <2>3, <2>4, <2>5 DEF Next, Client, Library, Probe, IpInitialise,
       IpFinalise, CreateHdr, MarkZero, SkipId, vars
<1>2. IInv /\ [Next]_vars =>
        [\A s \in Streams : hdr[s] = NoId /\ hdr'[s] # NoId =>
           \E k \in 0 .. (IdSpace \div 3) :
             /\ hdr'[s] = ProbeAt(StartEntry(last_block), k)
             /\ \A j \in 0 .. (k - 1) :
                  ProbeAt(StartEntry(last_block), j) \in used]_vars
  BY <1>1
<1> QED
  BY <1>2, Invariance, PTL DEF Spec, FirstFree
=============================================================================
