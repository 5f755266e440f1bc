------------------------- MODULE IpIdThreads_proofs -------------------------
(***************************************************************************)
(* Proofs about the identification allocator on the memory its threads     *)
(* share, for every bitmap whose size is 1 modulo 3 and a multiple of the  *)
(* bits of a byte (65536 is), every C library and every number of streams. *)
(* What is said of one thread rests on IpId's proofs, which hold of the    *)
(* bits of the bitmap once the thread's steps are shown to be IpId's.      *)
(***************************************************************************)
EXTENDS IpIdThreads, TLAPS

IP ==
  INSTANCE IpId_proofs WITH
    bitmap <- "live", used <- Marked, last_block <- SeqBlock, hdr <- hdr[T],
    pc <- SeqPc, caller <- stream[T], mode <- mode[T], entry <- SeqEntry

-----------------------------------------------------------------------------
(* The arithmetic of allocate_ipv4_id and of bitmap.h.                     *)

\* The block ip.c:112 computes is a uint16_t, whatever rand() returned, for
\* this thread or for another.
LEMMA NextBlockType ==
  ASSUME NEW last \in Ids, NEW r \in 0 .. IntMax
  PROVE  NextBlock(last, r) \in Ids
<1>1. WrapInt(last + r) \in Int
  BY ThreadsIdAssumption DEF WrapInt, Ids
<1>2. CRem(WrapInt(last + r), MaxBlocks) \in Int
  BY <1>1, ThreadsIdAssumption DEF CRem
<1> QED
  BY <1>2, ThreadsIdAssumption DEF NextBlock, Ids

\* The first ID of a block is a uint16_t (ip.c:113).
LEMMA StartEntryType ==
  ASSUME NEW b \in Ids
  PROVE  StartEntry(b) \in Ids
BY ThreadsIdAssumption DEF StartEntry, Ids

\* The stride of ip.c:122 keeps the entry in the bitmap.
LEMMA StrideType ==
  ASSUME NEW e \in Ids
  PROVE  (e + 3) % (IdSpace - 1) \in Ids
BY ThreadsIdAssumption DEF Ids

\* The number of a bit is its byte's and its own in the byte (bitmap.h).
LEMMA BitOfByte ==
  ASSUME NEW i \in Int
  PROVE  /\ bitmap_idx(i) \in Int /\ bitmap_bit(i) \in Bits
         /\ i = ByteBits * bitmap_idx(i) + bitmap_bit(i)
BY ThreadsIdAssumption DEF bitmap_idx, bitmap_bit, Bits

\* The byte of an ID is in the bitmap.
LEMMA ByteOfId ==
  ASSUME NEW i \in Ids
  PROVE  bitmap_idx(i) \in Bytes /\ bitmap_bit(i) \in Bits
<1> DEFINE q == bitmap_idx(i)
           k == IdSpace \div ByteBits
<1>1. q \in Int /\ bitmap_bit(i) \in Bits /\ i = ByteBits * q + bitmap_bit(i)
  BY BitOfByte DEF Ids
<1>2. k \in Int /\ IdSpace = ByteBits * k
  BY ThreadsIdAssumption
<1>3. q >= 0
  BY ThreadsIdAssumption DEF bitmap_idx, Ids
<1>4. q < k
  <2>1. ByteBits * q < ByteBits * k
    BY <1>1, <1>2, ThreadsIdAssumption DEF Ids, Bits
  <2> HIDE DEF q, k
  <2> QED
    BY <1>1, <1>2, <2>1, ThreadsIdAssumption
<1> QED
  BY <1>1, <1>2, <1>3, <1>4 DEF Bytes

\* Two IDs with the same byte and the same bit are one.
LEMMA BitsDiffer ==
  ASSUME NEW i \in Ids, NEW j \in Ids,
         bitmap_idx(i) = bitmap_idx(j), bitmap_bit(i) = bitmap_bit(j)
  PROVE  i = j
BY BitOfByte DEF Ids

-----------------------------------------------------------------------------
(* Any number of threads.                                                  *)

\* Before ip_initialise, no thread is in the allocator and no header is live.
LEMMA InitThreadsInv == Init => ThreadsInv
<1> SUFFICES ASSUME Init PROVE ThreadsInv
  OBVIOUS
<1>1. 0 .. (FirstBlocks - 1) \subseteq Ids /\ 0 \in Ids
  BY ThreadsIdAssumption DEF Ids
<1>2. TypeOK
  BY <1>1 DEF Init, TypeOK
<1>3. 0 # NoId
  BY <1>1, ThreadsIdAssumption
<1> QED
  BY <1>2, <1>3 DEF Init, ThreadsInv, CallHasHeader, NoZeroId

\* The shared memory and the registers keep their C types: a bit of a byte is
\* set or cleared in a register that another thread may have made stale.
LEMMA TypeStep ==
  ASSUME TypeOK, CallHasHeader, [Next]_vars
  PROVE  TypeOK'
<1> USE DEF TypeOK
<1>1. CASE UNCHANGED vars
  BY <1>1 DEF vars
<1> SUFFICES ASSUME NEW t \in Threads,
                    \/ \E s \in Streams, m \in {"direct", "transmit"} :
                         LoadLastBlock(t, s, m)
                    \/ Library(t)
                    \/ \E s \in Streams : FreeHdr(t, s)
             PROVE  TypeOK'
  BY <1>1 DEF Next
<1> USE DEF Goto, shared, call
<1>2. ASSUME NEW s \in Streams, NEW m \in {"direct", "transmit"}, LoadLastBlock(t, s, m)
      PROVE  TypeOK'
  BY <1>2 DEF LoadLastBlock
<1>3. CASE CallSrand(t)
  BY <1>3 DEF CallSrand
<1>4. CASE CallRand(t)
  <2>1. PICK r \in RandValues : block' = [block EXCEPT ![t] = NextBlock(@, r)]
    BY <1>4 DEF CallRand
  <2>2. rand \in [Ids -> 0 .. IntMax]
    BY ThreadsIdAssumption
  <2>3. r \in 0 .. IntMax
    BY <2>2 DEF RandValues
  <2>4. NextBlock(block[t], r) \in Ids
    BY <2>3, NextBlockType
  <2> QED
    BY <1>4, <2>1, <2>4 DEF CallRand
<1>5. CASE StoreLastBlock(t)
  <2>1. StartEntry(block[t]) \in Ids
    BY StartEntryType
  <2> QED
    BY <1>5, <2>1 DEF StoreLastBlock
<1>6. CASE LoadSetBit(t)
  <2>1. (entry[t] + 3) % (IdSpace - 1) \in Ids
    BY StrideType
  <2>2. entry' = [entry EXCEPT ![t] = (entry[t] + 3) % (IdSpace - 1)]
    BY <1>6 DEF LoadSetBit
  <2>3. entry' \in [Threads -> Ids]
    BY <2>1, <2>2
  <2>4. UNCHANGED <<rand, seed, byte, last_block, hdr, pc, stream, mode, block, reg, orphans>>
    BY <1>6 DEF LoadSetBit
  <2> QED
    BY <2>3, <2>4
<1>7. CASE LoadClearBit(t)
  <2>1. byte[bitmap_idx(entry[t])] \in SUBSET Bits
    BY ByteOfId
  <2> QED
    BY <1>7, <2>1 DEF LoadClearBit
<1>8. CASE StoreSet(t)
  <2>1. WithBit(reg[t], entry[t]) \in SUBSET Bits
    BY ByteOfId DEF WithBit
  <2>2. byte' \in [Bytes -> SUBSET Bits]
    BY <1>8, <2>1 DEF StoreSet
  <2>3. CASE entry[t] = 0
    BY <1>8, <2>2, <2>3 DEF StoreSet
  <2>4. CASE entry[t] # 0
    <3>1. hdr' = [hdr EXCEPT ![t][stream[t]] = entry[t]]
      BY <1>8, <2>4 DEF StoreSet
    <3>2. hdr' \in [Threads -> [Streams -> Ids \cup {NoId}]]
      BY <3>1
    <3>3. pc' = [pc EXCEPT ![t] = IF mode[t] = "transmit" THEN "created" ELSE "idle"]
      BY <1>8, <2>4 DEF StoreSet
    <3>4. pc' \in [Threads -> {"idle", "srand", "rand", "store_block", "probe",
                               "store_set", "created", "store_clear"}]
      BY <3>3
    <3> QED
      BY <1>8, <2>2, <3>2, <3>4 DEF StoreSet
  <2> QED
    BY <2>3, <2>4
<1>9. CASE PacketAllocFails(t)
  <2>1. hdr[t][stream[t]] \in Ids
    BY <1>9 DEF PacketAllocFails, Here, CallHasHeader
  <2> QED
    BY <1>9, <2>1 DEF PacketAllocFails
<1>10. CASE FreeLoad(t)
  <2>1. hdr[t][stream[t]] \in Ids
    BY <1>10 DEF FreeLoad, Here, CallHasHeader
  <2>2. byte[bitmap_idx(hdr[t][stream[t]])] \in SUBSET Bits
    BY <2>1, ByteOfId
  <2> QED
    BY <1>10, <2>2 DEF FreeLoad
<1>11. CASE FreeStore(t)
  <2>1. WithoutBit(reg[t], hdr[t][stream[t]]) \in SUBSET Bits
    BY DEF WithoutBit
  <2>2. byte' \in [Bytes -> SUBSET Bits]
    BY <1>11, <2>1 DEF FreeStore
  <2> QED
    BY <1>11, <2>2 DEF FreeStore
<1>12. ASSUME NEW s \in Streams, FreeHdr(t, s)
       PROVE  TypeOK'
  BY <1>12 DEF FreeHdr
<1> QED
  BY <1>2, <1>3, <1>4, <1>5, <1>6, <1>7, <1>8, <1>9, <1>10, <1>11, <1>12
  DEF Library, Allocate, Release

\* A thread makes and ends its own headers only.
LEMMA HeaderStep ==
  ASSUME TypeOK, CallHasHeader, NoZeroId, [Next]_vars
  PROVE  CallHasHeader' /\ NoZeroId'
<1> USE DEF TypeOK, CallHasHeader, NoZeroId
<1>1. CASE UNCHANGED vars
  BY <1>1 DEF vars
<1>2. 0 # NoId
  BY ThreadsIdAssumption DEF Ids
<1> SUFFICES ASSUME NEW t \in Threads,
                    \/ \E s \in Streams, m \in {"direct", "transmit"} :
                         LoadLastBlock(t, s, m)
                    \/ Library(t)
                    \/ \E s \in Streams : FreeHdr(t, s)
             PROVE  CallHasHeader' /\ NoZeroId'
  BY <1>1 DEF Next
<1> USE DEF Here, Goto, shared, call
<1>3. ASSUME NEW s \in Streams, NEW m \in {"direct", "transmit"}, LoadLastBlock(t, s, m)
      PROVE  CallHasHeader' /\ NoZeroId'
  BY <1>3 DEF LoadLastBlock
<1>4. CASE CallSrand(t) \/ CallRand(t) \/ StoreLastBlock(t)
  BY <1>4 DEF CallSrand, CallRand, StoreLastBlock
<1>5. CASE LoadSetBit(t) \/ LoadClearBit(t)
  BY <1>5 DEF LoadSetBit, LoadClearBit
<1>6. CASE StoreSet(t)
  <2>1. CASE entry[t] = 0
    BY <1>6, <2>1 DEF StoreSet
  <2>2. CASE entry[t] # 0
    <3>1. hdr' = [hdr EXCEPT ![t][stream[t]] = entry[t]] /\ stream' = stream
      BY <1>6, <2>2 DEF StoreSet
    <3>2. entry[t] # NoId
      BY ThreadsIdAssumption
    <3>3. \A u \in Threads \ {t} : hdr'[u] = hdr[u] /\ pc'[u] = pc[u]
      BY <1>6, <3>1 DEF StoreSet
    <3>4. hdr'[t][stream[t]] = entry[t]
      BY <3>1
    <3>5. \A s \in Streams : hdr'[t][s] # 0
      BY <2>2, <3>1
    <3> QED
      BY <3>1, <3>2, <3>3, <3>4, <3>5
  <2> QED
    BY <2>1, <2>2
<1>7. CASE PacketAllocFails(t)
  BY <1>2, <1>7 DEF PacketAllocFails
<1>8. CASE FreeLoad(t)
  BY <1>8 DEF FreeLoad
<1>9. CASE FreeStore(t)
  BY <1>2, <1>9 DEF FreeStore
<1>10. ASSUME NEW s \in Streams, FreeHdr(t, s)
       PROVE  CallHasHeader' /\ NoZeroId'
  BY <1>2, <1>10 DEF FreeHdr
<1> QED
  BY <1>3, <1>4, <1>5, <1>6, <1>7, <1>8, <1>9, <1>10
  DEF Library, Allocate, Release

\* Whatever the threads overwrite in the bitmap and in last_block (ip.c:61-62,
\* the mutex that is commented out), the memory keeps its types.
THEOREM ThreadsInvariance == Spec => []ThreadsInv
<1>1. Init => ThreadsInv
  BY InitThreadsInv
<1>2. ThreadsInv /\ [Next]_vars => ThreadsInv'
  BY TypeStep, HeaderStep DEF ThreadsInv
<1> QED
  BY <1>1, <1>2, PTL DEF Spec

-----------------------------------------------------------------------------
(* One thread.                                                             *)

\* T is the only thread.
LEMMA TheThread ==
  ASSUME OneThread
  PROVE  T \in Threads /\ \A t \in Threads : t = T
BY DEF OneThread, T

\* The store of bitmap_set sets one bit of the bitmap, if the byte in the
\* register is the one that is still in the memory.
LEMMA MarkedSet ==
  ASSUME TypeOK, NEW i \in Ids,
         byte' = [byte EXCEPT ![bitmap_idx(i)] = WithBit(byte[bitmap_idx(i)], i)]
  PROVE  Marked' = Marked \cup {i}
<1>1. byte \in [Bytes -> SUBSET Bits] /\ bitmap_idx(i) \in Bytes
  BY ByteOfId DEF TypeOK
<1>2. ASSUME NEW j \in Ids
      PROVE  j \in Marked' <=> j \in Marked \/ j = i
  <2>1. bitmap_idx(j) \in Bytes
    BY ByteOfId
  <2>2. CASE bitmap_idx(j) = bitmap_idx(i)
    <3>1. byte'[bitmap_idx(j)] = byte[bitmap_idx(j)] \cup {bitmap_bit(i)}
      BY <1>1, <2>2 DEF WithBit
    <3>2. bitmap_bit(j) = bitmap_bit(i) <=> j = i
      BY <2>2, BitsDiffer
    <3> QED
      BY <3>1, <3>2 DEF Marked
  <2>3. CASE bitmap_idx(j) # bitmap_idx(i)
    BY <1>1, <2>1, <2>3 DEF Marked
  <2> QED
    BY <2>2, <2>3
<1>3. Marked \subseteq Ids /\ Marked' \subseteq Ids
  BY DEF Marked
<1> QED
  BY <1>2, <1>3

\* The store of bitmap_clear clears one bit, under the same condition.
LEMMA MarkedCleared ==
  ASSUME TypeOK, NEW i \in Ids,
         byte' = [byte EXCEPT ![bitmap_idx(i)] = WithoutBit(byte[bitmap_idx(i)], i)]
  PROVE  Marked' = Marked \ {i}
<1>1. byte \in [Bytes -> SUBSET Bits] /\ bitmap_idx(i) \in Bytes
  BY ByteOfId DEF TypeOK
<1>2. ASSUME NEW j \in Ids
      PROVE  j \in Marked' <=> j \in Marked /\ j # i
  <2>1. bitmap_idx(j) \in Bytes
    BY ByteOfId
  <2>2. CASE bitmap_idx(j) = bitmap_idx(i)
    <3>1. byte'[bitmap_idx(j)] = byte[bitmap_idx(j)] \ {bitmap_bit(i)}
      BY <1>1, <2>2 DEF WithoutBit
    <3>2. bitmap_bit(j) = bitmap_bit(i) <=> j = i
      BY <2>2, BitsDiffer
    <3> QED
      BY <3>1, <3>2 DEF Marked
  <2>3. CASE bitmap_idx(j) # bitmap_idx(i)
    BY <1>1, <2>1, <2>3 DEF Marked
  <2> QED
    BY <2>2, <2>3
<1>3. Marked \subseteq Ids /\ Marked' \subseteq Ids
  BY DEF Marked
<1> QED
  BY <1>2, <1>3

\* Nobody but the thread writes what it has loaded.
LEMMA RegistersStep ==
  ASSUME OneThread, ThreadsInv, RegistersFresh, [Next]_vars
  PROVE  RegistersFresh'
<1> USE DEF RegistersFresh
<1>1. CASE UNCHANGED vars
  BY <1>1 DEF vars, SeqBlock, Starting
<1>2. TypeOK /\ T \in Threads
  BY TheThread DEF ThreadsInv
<1> SUFFICES ASSUME \/ \E s \in Streams, m \in {"direct", "transmit"} :
                         LoadLastBlock(T, s, m)
                    \/ Library(T)
                    \/ \E s \in Streams : FreeHdr(T, s)
             PROVE  RegistersFresh'
  BY <1>1, TheThread DEF Next
<1> USE <1>2 DEF TypeOK, Here, Goto, shared, call
<1>3. ASSUME NEW s \in Streams, NEW m \in {"direct", "transmit"}, LoadLastBlock(T, s, m)
      PROVE  RegistersFresh'
  BY <1>3 DEF LoadLastBlock
<1>4. CASE CallSrand(T)
  BY <1>4 DEF CallSrand
<1>5. CASE CallRand(T)
  <2>1. seed = last_block /\ seed # Unseeded /\ block[T] = last_block
    BY <1>5, ThreadsIdAssumption DEF CallRand, Unseeded
  <2>2. RandValues = {rand[last_block]}
    BY <2>1 DEF RandValues
  <2>3. block' = [block EXCEPT ![T] = NextBlock(block[T], rand[last_block])]
    BY <1>5, <2>2 DEF CallRand
  <2>4. block'[T] = NextBlock(last_block, rand[last_block])
    BY <2>1, <2>3
  <2>5. pc'[T] = "store_block" /\ UNCHANGED <<rand, last_block>>
    BY <1>5 DEF CallRand
  <2> QED
    BY <2>4, <2>5 DEF SeqBlock, Starting
<1>6. CASE StoreLastBlock(T)
  BY <1>6 DEF StoreLastBlock
<1>7. CASE LoadSetBit(T)
  BY <1>7 DEF LoadSetBit
<1>8. CASE LoadClearBit(T)
  BY <1>8 DEF LoadClearBit
<1>9. CASE StoreSet(T)
  <2>1. pc'[T] \in {"probe", "created", "idle"}
    BY <1>9 DEF StoreSet
  <2> QED
    BY <2>1
<1>10. CASE PacketAllocFails(T)
  BY <1>10 DEF PacketAllocFails
<1>11. CASE FreeLoad(T)
  BY <1>11 DEF FreeLoad
<1>12. CASE FreeStore(T)
  BY <1>12 DEF FreeStore
<1>13. ASSUME NEW s \in Streams, FreeHdr(T, s)
       PROVE  RegistersFresh'
  BY <1>13 DEF FreeHdr
<1> QED
  BY <1>3, <1>4, <1>5, <1>6, <1>7, <1>8, <1>9, <1>10, <1>11, <1>12, <1>13
  DEF Library, Allocate, Release

-----------------------------------------------------------------------------
(* The thread's steps are those of IpId.                                   *)

\* The steps that change what IpId sees, one for one.
LEMMA VisibleSteps ==
  ASSUME OneThread, ThreadsInv, RegistersFresh
  PROVE  /\ \A s \in Streams, m \in {"direct", "transmit"} :
              LoadLastBlock(T, s, m) => Sequential!CreateHdr(s, m)
         /\ LoadSetBit(T) => Sequential!SkipId
         /\ StoreSet(T) => Sequential!TakeId \/ Sequential!MarkZero
         /\ PacketAllocFails(T) => Sequential!PacketAllocFails
         /\ FreeStore(T) => Sequential!LinkTxAndFree
         /\ \A s \in Streams : FreeHdr(T, s) => Sequential!FreeHdr(s)
<1>1. TypeOK /\ T \in Threads
  BY TheThread DEF ThreadsInv
<1> USE <1>1 DEF TypeOK, Here, Goto, shared, call, Sequential!libraryVars
<1>2. ASSUME NEW s \in Streams, NEW m \in {"direct", "transmit"}, LoadLastBlock(T, s, m)
      PROVE  Sequential!CreateHdr(s, m)
  <2>1. /\ pc[T] = "idle" /\ pc'[T] = "srand" /\ hdr[T][s] = NoId
        /\ stream'[T] = s /\ mode'[T] = m
        /\ UNCHANGED <<rand, byte, last_block, hdr, orphans>>
    BY <1>2 DEF LoadLastBlock
  <2>2. SeqPc = "idle" /\ SeqPc' = "probe" /\ SeqBlock = last_block
    BY <2>1 DEF SeqPc, SeqBlock, Starting
  <2>3. SeqBlock' = NextBlock(last_block, rand[last_block])
    BY <2>1 DEF SeqBlock, Starting
  <2>4. SeqEntry' = StartEntry(NextBlock(last_block, rand[last_block]))
    BY <2>1, <2>3 DEF SeqEntry, Starting
  <2>5. Marked' = Marked
    BY <2>1 DEF Marked
  <2>6. /\ Sequential!NextBlock(last_block) = NextBlock(last_block, rand[last_block])
        /\ \A b : Sequential!StartEntry(b) = StartEntry(b)
    BY DEF Sequential!NextBlock, Sequential!StartEntry, Sequential!CRem,
       Sequential!WrapInt, NextBlock, StartEntry, CRem, WrapInt
  <2> QED
    BY <2>1, <2>2, <2>3, <2>4, <2>5, <2>6 DEF Sequential!CreateHdr
<1>3. ASSUME LoadSetBit(T) PROVE Sequential!SkipId
  <2>1. /\ pc[T] = "probe" /\ UNCHANGED <<rand, byte, last_block, hdr, pc, stream, mode, orphans>>
        /\ entry'[T] = (entry[T] + 3) % (IdSpace - 1)
        /\ bitmap_bit(entry[T]) \in byte[bitmap_idx(entry[T])]
    BY <1>3 DEF LoadSetBit
  <2>2. /\ SeqPc = "probe" /\ SeqPc' = "probe" /\ SeqEntry = entry[T]
        /\ SeqEntry' = entry'[T] /\ SeqBlock' = SeqBlock
    BY <2>1 DEF SeqPc, SeqEntry, SeqBlock, Starting
  <2>3. Marked' = Marked /\ entry[T] \in Marked
    BY <2>1 DEF Marked
  <2>4. SeqEntry' = Sequential!NextEntry(SeqEntry)
    BY <2>1, <2>2 DEF Sequential!NextEntry
  <2> QED
    BY <2>1, <2>2, <2>3, <2>4 DEF Sequential!SkipId, Sequential!BitmapGet
<1>4. ASSUME StoreSet(T) PROVE Sequential!TakeId \/ Sequential!MarkZero
  <2>1. /\ pc[T] = "store_set" /\ reg[T] = byte[bitmap_idx(entry[T])]
        /\ bitmap_bit(entry[T]) \notin reg[T]
        /\ UNCHANGED <<rand, last_block, stream, mode, entry, orphans>>
        /\ byte' = [byte EXCEPT ![bitmap_idx(entry[T])] =
                      WithBit(byte[bitmap_idx(entry[T])], entry[T])]
    BY <1>4 DEF StoreSet, RegistersFresh
  <2>2. entry[T] \notin Marked /\ Marked' = Marked \cup {entry[T]}
    BY <2>1, MarkedSet DEF Marked
  <2>3. SeqPc = "probe" /\ SeqEntry = entry[T] /\ SeqBlock = last_block
    BY <2>1 DEF SeqPc, SeqEntry, SeqBlock, Starting
  <2>4. CASE entry[T] = 0
    <3>1. pc'[T] = "probe" /\ hdr' = hdr
      BY <1>4, <2>4 DEF StoreSet
    <3>2. SeqPc' = "probe" /\ SeqEntry' = entry[T] /\ SeqBlock' = last_block
      BY <2>1, <3>1 DEF SeqPc, SeqEntry, SeqBlock, Starting
    <3> QED
      BY <2>1, <2>2, <2>3, <2>4, <3>1, <3>2
      DEF Sequential!MarkZero, Sequential!BitmapGet, Sequential!BitmapSet
  <2>5. CASE entry[T] # 0
    <3>1. /\ pc'[T] = IF mode[T] = "transmit" THEN "created" ELSE "idle"
          /\ hdr' = [hdr EXCEPT ![T][stream[T]] = entry[T]]
      BY <1>4, <2>5 DEF StoreSet
    <3>2. SeqPc' = pc'[T] /\ SeqEntry' = 0 /\ SeqBlock' = last_block
      BY <2>1, <3>1 DEF SeqPc, SeqEntry, SeqBlock, Starting
    <3>3. hdr'[T] = [hdr[T] EXCEPT ![stream[T]] = entry[T]]
      BY <3>1
    <3> QED
      BY <2>1, <2>2, <2>3, <2>5, <3>1, <3>2, <3>3
      DEF Sequential!TakeId, Sequential!BitmapGet, Sequential!BitmapSet
  <2> QED
    BY <2>4, <2>5
<1>5. ASSUME PacketAllocFails(T) PROVE Sequential!PacketAllocFails
  <2>1. /\ pc[T] = "created" /\ pc'[T] = "idle"
        /\ UNCHANGED <<rand, byte, last_block, stream, mode>>
        /\ hdr' = [hdr EXCEPT ![T][stream[T]] = NoId]
        /\ orphans' = orphans \cup {hdr[T][stream[T]]}
    BY <1>5 DEF PacketAllocFails
  <2>2. hdr'[T] = [hdr[T] EXCEPT ![stream[T]] = NoId]
    BY <2>1
  <2>3. /\ SeqPc = "created" /\ SeqPc' = "idle" /\ SeqEntry' = SeqEntry
        /\ SeqBlock' = SeqBlock /\ Marked' = Marked
    BY <2>1 DEF SeqPc, SeqEntry, SeqBlock, Starting, Marked
  <2> QED
    BY <2>1, <2>2, <2>3 DEF Sequential!PacketAllocFails
<1>6. ASSUME FreeStore(T) PROVE Sequential!LinkTxAndFree
  <2>1. hdr[T][stream[T]] \in Ids
    BY <1>6 DEF FreeStore, ThreadsInv, CallHasHeader
  <2>2. /\ pc[T] = "store_clear" /\ pc'[T] = "idle"
        /\ reg[T] = byte[bitmap_idx(hdr[T][stream[T]])]
        /\ UNCHANGED <<rand, last_block, stream, mode, orphans>>
        /\ hdr' = [hdr EXCEPT ![T][stream[T]] = NoId]
        /\ byte' = [byte EXCEPT ![bitmap_idx(hdr[T][stream[T]])] =
                      WithoutBit(byte[bitmap_idx(hdr[T][stream[T]])], hdr[T][stream[T]])]
    BY <1>6 DEF FreeStore, RegistersFresh
  <2>3. hdr'[T] = [hdr[T] EXCEPT ![stream[T]] = NoId]
    BY <2>2
  <2>4. Marked' = Marked \ {hdr[T][stream[T]]}
    BY <2>1, <2>2, MarkedCleared
  <2>5. /\ SeqPc = "created" /\ SeqPc' = "idle" /\ SeqEntry' = SeqEntry
        /\ SeqBlock' = SeqBlock
    BY <2>2 DEF SeqPc, SeqEntry, SeqBlock, Starting
  <2> QED
    BY <2>2, <2>3, <2>4, <2>5 DEF Sequential!LinkTxAndFree, Sequential!BitmapClear
<1>7. ASSUME NEW s \in Streams, FreeHdr(T, s) PROVE Sequential!FreeHdr(s)
  <2>1. /\ pc[T] = "idle" /\ hdr[T][s] # NoId
        /\ UNCHANGED <<rand, byte, last_block, pc, stream, mode, entry>>
        /\ hdr' = [hdr EXCEPT ![T][s] = NoId]
        /\ orphans' = orphans \cup {hdr[T][s]}
    BY <1>7 DEF FreeHdr
  <2>2. hdr'[T] = [hdr[T] EXCEPT ![s] = NoId]
    BY <2>1
  <2>3. /\ SeqPc = "idle" /\ SeqPc' = "idle" /\ SeqEntry' = SeqEntry
        /\ SeqBlock' = SeqBlock /\ Marked' = Marked
    BY <2>1 DEF SeqPc, SeqEntry, SeqBlock, Starting, Marked
  <2> QED
    BY <2>1, <2>2, <2>3 DEF Sequential!FreeHdr
<1> QED
  BY <1>2, <1>3, <1>4, <1>5, <1>6, <1>7

\* The other steps are between two of IpId's.
LEMMA HiddenSteps ==
  ASSUME OneThread, ThreadsInv, RegistersFresh,
         \/ CallSrand(T) \/ CallRand(T) \/ StoreLastBlock(T)
         \/ LoadClearBit(T) \/ FreeLoad(T) \/ UNCHANGED vars
  PROVE  UNCHANGED Sequential!vars
<1>1. TypeOK /\ T \in Threads
  BY TheThread DEF ThreadsInv
<1> USE <1>1 DEF TypeOK, Here, Goto, shared, call, SeqPc, SeqEntry, SeqBlock, Starting
<1>2. UNCHANGED <<rand, byte, hdr, stream, mode, orphans>>
  BY DEF CallSrand, CallRand, StoreLastBlock, LoadClearBit, FreeLoad, vars
<1>3. Marked' = Marked
  BY <1>2 DEF Marked
<1>4. SeqBlock' = SeqBlock
  BY DEF CallSrand, CallRand, StoreLastBlock, LoadClearBit, FreeLoad, vars, RegistersFresh
<1>5. SeqEntry' = SeqEntry
  BY <1>4 DEF CallSrand, CallRand, StoreLastBlock, LoadClearBit, FreeLoad, vars, RegistersFresh
<1>6. SeqPc' = SeqPc
  BY DEF CallSrand, CallRand, StoreLastBlock, LoadClearBit, FreeLoad, vars
<1> HIDE DEF SeqPc, SeqEntry, SeqBlock
<1> QED
  BY <1>2, <1>3, <1>4, <1>5, <1>6 DEF Sequential!vars

\* A load or store of the one thread is a step of the allocator on IDs, or none.
LEMMA SequentialStep ==
  ASSUME OneThread, ThreadsInv, RegistersFresh, [Next]_vars
  PROVE  [Sequential!Next]_(Sequential!vars)
<1>1. CASE UNCHANGED vars
  BY <1>1, HiddenSteps
<1>2. ASSUME \/ \E s \in Streams, m \in {"direct", "transmit"} :
                  LoadLastBlock(T, s, m)
             \/ Library(T)
             \/ \E s \in Streams : FreeHdr(T, s)
      PROVE  [Sequential!Next]_(Sequential!vars)
  <2>1. CASE \/ CallSrand(T) \/ CallRand(T) \/ StoreLastBlock(T)
             \/ LoadClearBit(T) \/ FreeLoad(T)
    BY <2>1, HiddenSteps
  <2>2. CASE \E s \in Streams, m \in {"direct", "transmit"} : LoadLastBlock(T, s, m)
    BY <2>2, VisibleSteps DEF Sequential!Next, Sequential!Client
  <2>3. CASE LoadSetBit(T) \/ StoreSet(T) \/ PacketAllocFails(T) \/ FreeStore(T)
    BY <2>3, VisibleSteps
    DEF Sequential!Next, Sequential!Library, Sequential!Probe
  <2>4. CASE \E s \in Streams : FreeHdr(T, s)
    BY <2>4, VisibleSteps DEF Sequential!Next, Sequential!Client
  <2> QED
    BY <1>2, <2>1, <2>2, <2>3, <2>4 DEF Library, Allocate, Release
<1> QED
  BY <1>1, <1>2, TheThread DEF Next

\* The module of IpId's proofs has its own instance of IpId, the same one.
LEMMA SameSequential ==
  /\ Sequential!IInv <=> IP!IInv
  /\ Sequential!IInv' <=> IP!IInv'
  /\ Sequential!Next <=> IP!Next
  /\ UNCHANGED Sequential!vars <=> UNCHANGED IP!vars
<1> USE DEF Sequential!Ids, Sequential!vars, Sequential!libraryVars, Sequential!CRem,
            Sequential!WrapInt, Sequential!NextBlock, Sequential!StartEntry,
            Sequential!NextEntry, Sequential!BitmapGet, Sequential!BitmapSet,
            Sequential!BitmapClear, IP!Ids, IP!vars, IP!libraryVars, IP!CRem,
            IP!WrapInt, IP!NextBlock, IP!StartEntry, IP!NextEntry, IP!BitmapGet,
            IP!BitmapSet, IP!BitmapClear
<1>1. Sequential!Next <=> IP!Next
  BY DEF Sequential!IpInitialise, Sequential!IpFinalise, Sequential!CreateHdr,
         Sequential!TakeId, Sequential!MarkZero, Sequential!SkipId,
         Sequential!PacketAllocFails, Sequential!LinkTxAndFree, Sequential!FreeHdr,
         Sequential!Probe, Sequential!Library, Sequential!Client, Sequential!Next,
         IP!IpInitialise, IP!IpFinalise, IP!CreateHdr, IP!TakeId, IP!MarkZero,
         IP!SkipId, IP!PacketAllocFails, IP!LinkTxAndFree, IP!FreeHdr, IP!Probe,
         IP!Library, IP!Client, IP!Next
<1> USE DEF Sequential!TypeOK, Sequential!HeldMarked, Sequential!CallerHasHeader,
            Sequential!UniqueIds, Sequential!BitsAccounted, Sequential!HeldIds,
            Sequential!IInv, IP!TypeOK, IP!HeldMarked, IP!CallerHasHeader,
            IP!UniqueIds, IP!BitsAccounted, IP!HeldIds, IP!IInv,
            Sequential!SearchSoFar, Sequential!ProbeAt, IP!SearchSoFar, IP!ProbeAt
<1>2. Sequential!IInv <=> IP!IInv
  OBVIOUS
<1>3. Sequential!IInv' <=> IP!IInv'
  OBVIOUS
<1>4. UNCHANGED Sequential!vars <=> UNCHANGED IP!vars
  OBVIOUS
<1> QED
  BY <1>1, <1>2, <1>3, <1>4

\* IpId's assumptions hold of the memory the threads share.
LEMMA SequentialAssumptions ==
  /\ IP!IdSpaceAssumption /\ IP!BlockAssumption
  /\ IP!RandAssumption /\ IP!NoIdAssumption
BY ThreadsIdAssumption
DEF IP!IdSpaceAssumption, IP!BlockAssumption, IP!RandAssumption,
    IP!NoIdAssumption, IP!Ids, Ids

\* IpId's invariant is preserved, as IpId's proofs say.
LEMMA SequentialInvStep ==
  ASSUME Sequential!IInv, [Sequential!Next]_(Sequential!vars)
  PROVE  Sequential!IInv'
<1>1. IP!IInv /\ [IP!Next]_(IP!vars)
  BY SameSequential
<1>2. IP!IInv'
  BY <1>1, IP!NextIInv, SequentialAssumptions
<1> QED
  BY <1>2, SameSequential

\* The threads start with a bitmap that ip_initialise has cleared.
LEMMA InitSequential ==
  ASSUME OneThread, Init
  PROVE  RegistersFresh /\ Sequential!IInv
<1>1. ThreadsInv /\ T \in Threads
  BY InitThreadsInv, TheThread
<1>2. /\ pc[T] = "idle" /\ hdr[T] = [s \in Streams |-> NoId] /\ orphans = {}
      /\ Marked = {}
  BY <1>1, ByteOfId DEF Init, Marked
<1>3. SeqPc = "idle" /\ SeqEntry = 0 /\ SeqBlock = last_block
  BY <1>2 DEF SeqPc, SeqEntry, SeqBlock, Starting
<1>4. RegistersFresh
  BY <1>2 DEF RegistersFresh
<1>5. Sequential!TypeOK
  BY <1>1, <1>2, <1>3, ThreadsIdAssumption
  DEF Sequential!TypeOK, ThreadsInv, TypeOK, Sequential!Ids, Ids
<1>6. /\ Sequential!HeldMarked /\ Sequential!CallerHasHeader
      /\ Sequential!UniqueIds /\ Sequential!BitsAccounted /\ Sequential!SearchSoFar
  BY <1>2, <1>3
  DEF Sequential!HeldMarked, Sequential!CallerHasHeader, Sequential!UniqueIds,
      Sequential!BitsAccounted, Sequential!HeldIds, Sequential!SearchSoFar
<1> QED
  BY <1>4, <1>5, <1>6 DEF Sequential!IInv

\* What one thread has loaded is what the memory has, and IpId's invariant is
\* that of the bits: the loads and stores of allocate_ipv4_id and free_ipv4_id
\* (bitmap.h, ip.c:117-124) are atomic for a program of one thread.
THEOREM OneThreadInvariance ==
  ASSUME OneThread
  PROVE  Spec => []OneInv
<1>1. Init => OneInv
  BY InitThreadsInv, InitSequential DEF OneInv
<1>2. OneInv /\ [Next]_vars => OneInv'
  <2> SUFFICES ASSUME OneInv, [Next]_vars PROVE OneInv'
    OBVIOUS
  <2>1. ThreadsInv'
    BY TypeStep, HeaderStep DEF OneInv, ThreadsInv
  <2>2. RegistersFresh'
    BY RegistersStep DEF OneInv
  <2>3. Sequential!IInv'
    BY SequentialStep, SequentialInvStep DEF OneInv
  <2> QED
    BY <2>1, <2>2, <2>3 DEF OneInv
<1> QED
  BY <1>1, <1>2, PTL DEF Spec

\* The allocator on bytes implements the one on IDs, when one thread calls it.
THEOREM OneThreadIsSequential ==
  ASSUME OneThread
  PROVE  Spec => ImplementsIpId
<1>1. OneInv /\ [Next]_vars => [Sequential!Next]_(Sequential!vars)
  BY SequentialStep DEF OneInv
<1> QED
  BY <1>1, OneThreadInvariance, PTL DEF Spec, ImplementsIpId

\* The bit of a live header is set (ip.c:120) until free_ipv4_id is called for it,
\* when one thread calls the allocator.
THEOREM OneThreadKeepsMarks ==
  ASSUME OneThread
  PROVE  Spec => []HeldStayMarked
<1>1. OneInv => HeldStayMarked
  <2> SUFFICES ASSUME OneInv, NEW t \in Threads, NEW s \in Streams, hdr[t][s] # NoId
               PROVE  hdr[t][s] \in Marked
    BY DEF HeldStayMarked, Held
  <2>1. t = T
    BY TheThread
  <2> QED
    BY <2>1 DEF OneInv, Sequential!IInv, Sequential!HeldMarked
<1> QED
  BY <1>1, OneThreadInvariance, PTL

\* The comment of ip.c:135-137 is true of one thread: free_ipv4_id changes no bit
\* but that of the ID it frees.
THEOREM OneThreadFreesOneId ==
  ASSUME OneThread
  PROVE  Spec => FreeIsHarmless
<1>1. OneInv /\ [Next]_vars =>
        [\A t \in Threads : Here(t, "store_clear") /\ pc'[t] = "idle" =>
           Marked' = Marked \ {hdr[t][stream[t]]}]_vars
  <2> SUFFICES ASSUME OneInv, Next, Here(T, "store_clear"), pc'[T] = "idle"
               PROVE  Marked' = Marked \ {hdr[T][stream[T]]}
    BY TheThread
  <2>1. TypeOK /\ T \in Threads /\ hdr[T][stream[T]] \in Ids
    BY TheThread DEF OneInv, ThreadsInv, TypeOK, CallHasHeader, Here
  <2>2. FreeStore(T)
    BY TheThread
    DEF Next, Here, Library, Allocate, Release, LoadLastBlock, CallSrand, CallRand,
        StoreLastBlock, LoadSetBit, LoadClearBit, StoreSet, PacketAllocFails,
        FreeLoad, FreeHdr
  <2>3. byte' = [byte EXCEPT ![bitmap_idx(hdr[T][stream[T]])] =
                   WithoutBit(byte[bitmap_idx(hdr[T][stream[T]])], hdr[T][stream[T]])]
    BY <2>2 DEF FreeStore, Here, OneInv, RegistersFresh
  <2> QED
    BY <2>1, <2>3, MarkedCleared
<1> QED
  BY <1>1, OneThreadInvariance, PTL DEF Spec, FreeIsHarmless
=============================================================================
