---------------------------- MODULE IpIdThreads ----------------------------
(***************************************************************************)
(* The IPv4 identification allocator of src/src/ip.c on the memory it      *)
(* shares, for a client that calls it from several threads: the mutex is   *)
(* commented out (ip.c:61-62, 96-108, 126), so every load and every store  *)
(* of the code the build produces is a step of its own.                    *)
(*                                                                         *)
(* At -O2 allocate_ipv4_id loads last_block once, stores it after rand(),  *)
(* and in an iteration loads the byte of the bitmap once, tests it in a    *)
(* register and stores it with the bit set; bitmap_clear loads a byte and  *)
(* stores it with the bit clear, without a lock prefix. srand() and rand() *)
(* are atomic, and share the state of the C library between the threads.   *)
(*                                                                         *)
(* The bitmap is initialised before the threads start. With one thread the *)
(* steps implement those of IpId.                                          *)
(***************************************************************************)
EXTENDS Integers

CONSTANTS
  Threads,
  Streams,      \* the headers a thread can have at a time
  NoId,         \* a stream without a header
  IdSpace,      \* number of bits in the bitmap, 65536
  ByteBits,     \* number of bits in a byte of the bitmap, 8
  BlockSize,    \* IDs between the first IDs of neighbouring blocks, 8
  MaxBlocks,    \* max_blocks, 1024
  FirstBlocks,  \* last_block starts in 0..FirstBlocks-1, 0x1000
  IntMax,       \* the largest int, also RAND_MAX
  RandFns       \* the C library: what rand() returns first after srand(seed)

Ids == 0 .. (IdSpace - 1)
Bits == 0 .. (ByteBits - 1)

ASSUME ThreadsIdAssumption ==
  /\ IdSpace \in Nat /\ IdSpace > 3 /\ IdSpace % 3 = 1
  /\ ByteBits \in Nat \ {0} /\ IdSpace % ByteBits = 0
  /\ BlockSize \in Nat \ {0} /\ MaxBlocks \in 1 .. IdSpace
  /\ FirstBlocks \in 1 .. IdSpace
  /\ IntMax \in Nat /\ RandFns \subseteq [Ids -> 0 .. IntMax]
  /\ NoId \notin Ids

Unseeded == NoId    \* rand() was called since srand(): its next value is any

VARIABLES
  rand,        \* the C library in use
  seed,        \* the C library's state: the seed of srand(), or Unseeded
  byte,        \* byte[n]: the bits set in byte n of used_ip_id_values
  last_block,
  hdr,         \* hdr[t][s]: the ID in the live header, or NoId
  pc,          \* where each thread is
  stream,      \* the stream a thread's call is for
  mode,        \* "direct": create_ipv4_hdr; "transmit": ipv4_transmit_datagram
  entry,       \* the thread's local variable of allocate_ipv4_id
  block,       \* last_block and then current_block, in the thread's register
  reg,         \* the byte of the bitmap in the thread's register
  orphans      \* history: IDs whose header was freed with their bit set

vars == <<rand, seed, byte, last_block, hdr, pc, stream, mode, entry, block, reg, orphans>>
shared == <<seed, byte, last_block>>
call == <<stream, mode>>

-----------------------------------------------------------------------------
(* src/src/include/bitmap.h *)

bitmap_idx(i) == i \div ByteBits
bitmap_bit(i) == i % ByteBits

\* Mutant: = instead of |=.
WithBitOnly(b, i) == {bitmap_bit(i)}

WithBit(b, i) == b \cup {bitmap_bit(i)}

\* Mutant: &= without the ~.
WithOnlyBit(b, i) == b \cap {bitmap_bit(i)}

WithoutBit(b, i) == b \ {bitmap_bit(i)}

Bytes == 0 .. ((IdSpace \div ByteBits) - 1)
Marked == {i \in Ids : bitmap_bit(i) \in byte[bitmap_idx(i)]}

-----------------------------------------------------------------------------
Here(t, at) == pc[t] = at
Goto(t, at) == pc' = [pc EXCEPT ![t] = at]

CRem(a, b) == IF a >= 0 THEN a % b ELSE -((-a) % b)
WrapInt(x) == IF x > IntMax THEN x - 2 * (IntMax + 1) ELSE x

\* Mutant: the block is kept as an int.
NextBlockAsInt(last, r) == CRem(WrapInt(last + r), MaxBlocks)

\* (last_block + rand()) % max_blocks, and the first ID of a block
NextBlock(last, r) == CRem(WrapInt(last + r), MaxBlocks) % IdSpace
StartEntry(b) == (b * BlockSize) % IdSpace

Init ==
  /\ rand \in RandFns
  /\ seed = Unseeded
  /\ byte = [n \in Bytes |-> {}]
  /\ last_block \in 0 .. (FirstBlocks - 1)
  /\ hdr = [t \in Threads |-> [s \in Streams |-> NoId]]
  /\ pc = [t \in Threads |-> "idle"]
  /\ stream \in [Threads -> Streams]
  /\ mode = [t \in Threads |-> "direct"]
  /\ entry = [t \in Threads |-> 0]
  /\ block = [t \in Threads |-> 0]
  /\ reg = [t \in Threads |-> {}]
  /\ orphans = {}

\* A call that creates a header for stream s, up to the load of last_block.
LoadLastBlock(t, s, m) ==
  /\ Here(t, "idle")
  /\ hdr[t][s] = NoId
  /\ stream' = [stream EXCEPT ![t] = s]
  /\ mode' = [mode EXCEPT ![t] = m]
  /\ block' = [block EXCEPT ![t] = last_block]
  /\ Goto(t, "srand")
  /\ UNCHANGED <<rand, shared, hdr, entry, reg, orphans>>

\* srand(last_block)
CallSrand(t) ==
  /\ Here(t, "srand")
  /\ seed' = block[t]
  /\ Goto(t, "rand")
  /\ UNCHANGED <<rand, byte, last_block, hdr, call, entry, block, reg, orphans>>

\* What rand() may return: the value the seed determines, if nobody took it.
RandValues == IF seed = Unseeded THEN {rand[i] : i \in Ids} ELSE {rand[seed]}

\* current_block = (last_block + rand()) % max_blocks
CallRand(t) ==
  /\ Here(t, "rand")
  /\ \E r \in RandValues :
       block' = [block EXCEPT ![t] = NextBlock(@, r)]
  /\ seed' = Unseeded
  /\ Goto(t, "store_block")
  /\ UNCHANGED <<rand, byte, last_block, hdr, call, entry, reg, orphans>>

\* entry = current_block * 8; last_block = current_block
StoreLastBlock(t) ==
  /\ Here(t, "store_block")
  /\ last_block' = block[t]
  /\ entry' = [entry EXCEPT ![t] = StartEntry(block[t])]
  /\ Goto(t, "probe")
  /\ UNCHANGED <<rand, seed, byte, hdr, call, block, reg, orphans>>

\* The head of the loop finds the bit set: entry = (entry + 3) % 65535.
LoadSetBit(t) ==
  /\ Here(t, "probe")
  /\ bitmap_bit(entry[t]) \in byte[bitmap_idx(entry[t])]
  /\ entry' = [entry EXCEPT ![t] = (@ + 3) % (IdSpace - 1)]
  /\ UNCHANGED <<rand, shared, hdr, pc, call, block, reg, orphans>>

\* The head of the loop finds the bit clear.
LoadClearBit(t) ==
  /\ Here(t, "probe")
  /\ bitmap_bit(entry[t]) \notin byte[bitmap_idx(entry[t])]
  /\ reg' = [reg EXCEPT ![t] = byte[bitmap_idx(entry[t])]]
  /\ Goto(t, "store_set")
  /\ UNCHANGED <<rand, shared, hdr, call, entry, block, orphans>>

\* bitmap_set's store; entry 0 does not end the loop.
StoreSet(t) ==
  /\ Here(t, "store_set")
  /\ byte' = [byte EXCEPT ![bitmap_idx(entry[t])] = WithBit(reg[t], entry[t])]
  /\ IF entry[t] = 0
     THEN Goto(t, "probe") /\ UNCHANGED hdr
     ELSE /\ hdr' = [hdr EXCEPT ![t][stream[t]] = entry[t]]
          /\ Goto(t, IF mode[t] = "transmit" THEN "created" ELSE "idle")
  /\ UNCHANGED <<rand, seed, last_block, call, entry, block, reg, orphans>>

\* ipv4_transmit_datagram without memory for the packet.
PacketAllocFails(t) ==
  /\ Here(t, "created")
  /\ orphans' = orphans \cup {hdr[t][stream[t]]}
  /\ hdr' = [hdr EXCEPT ![t][stream[t]] = NoId]
  /\ Goto(t, "idle")
  /\ UNCHANGED <<rand, shared, call, entry, block, reg>>

\* free_ipv4_id after link_tx: bitmap_clear's load.
FreeLoad(t) ==
  /\ Here(t, "created")
  /\ reg' = [reg EXCEPT ![t] = byte[bitmap_idx(hdr[t][stream[t]])]]
  /\ Goto(t, "store_clear")
  /\ UNCHANGED <<rand, shared, hdr, call, entry, block, orphans>>

\* bitmap_clear's store, and free(ip_hdr).
FreeStore(t) ==
  /\ Here(t, "store_clear")
  /\ LET id == hdr[t][stream[t]] IN
       byte' = [byte EXCEPT ![bitmap_idx(id)] = WithoutBit(reg[t], id)]
  /\ hdr' = [hdr EXCEPT ![t][stream[t]] = NoId]
  /\ Goto(t, "idle")
  /\ UNCHANGED <<rand, seed, last_block, call, entry, block, reg, orphans>>

\* A client frees a header it got from create_ipv4_hdr.
FreeHdr(t, s) ==
  /\ Here(t, "idle")
  /\ hdr[t][s] # NoId
  /\ orphans' = orphans \cup {hdr[t][s]}
  /\ hdr' = [hdr EXCEPT ![t][s] = NoId]
  /\ UNCHANGED <<rand, shared, pc, call, entry, block, reg>>

Allocate(t) ==
  \/ CallSrand(t) \/ CallRand(t) \/ StoreLastBlock(t)
  \/ LoadSetBit(t) \/ LoadClearBit(t) \/ StoreSet(t)
Release(t) == PacketAllocFails(t) \/ FreeLoad(t) \/ FreeStore(t)
Library(t) == Allocate(t) \/ Release(t)

Next ==
  \E t \in Threads :
    \/ \E s \in Streams, m \in {"direct", "transmit"} : LoadLastBlock(t, s, m)
    \/ Library(t)
    \/ \E s \in Streams : FreeHdr(t, s)

Spec == Init /\ [][Next]_vars

-----------------------------------------------------------------------------
(* Properties.                                                             *)

\* The shared memory and the registers stay in the ranges C declares.
TypeOK ==
  /\ rand \in RandFns
  /\ seed \in Ids \cup {Unseeded}
  /\ byte \in [Bytes -> SUBSET Bits]
  /\ last_block \in Ids
  /\ hdr \in [Threads -> [Streams -> Ids \cup {NoId}]]
  /\ pc \in [Threads -> {"idle", "srand", "rand", "store_block", "probe",
                         "store_set", "created", "store_clear"}]
  /\ stream \in [Threads -> Streams]
  /\ mode \in [Threads -> {"direct", "transmit"}]
  /\ entry \in [Threads -> Ids]
  /\ block \in [Threads -> Ids]
  /\ reg \in [Threads -> SUBSET Bits]
  /\ orphans \subseteq Ids

Held == {hdr[t][s] : t \in Threads, s \in Streams} \ {NoId}

\* "it shouldn't matter that we're freeing this ID value whilst some other
\* process is going on to allocate a new ID" (ip.c:135-137): when free_ipv4_id
\* stores its byte, the ID it frees is the only one whose bit changes.
FreeIsHarmless ==
  [][\A t \in Threads :
       Here(t, "store_clear") /\ pc'[t] = "idle" =>
         Marked' = Marked \ {hdr[t][stream[t]]}]_vars

\* The one thread of a program like the repository's.
T == CHOOSE t \in Threads : TRUE

\* Until the thread has stored last_block its call is, for IpId, already in the
\* loop: its first entry is determined by last_block and rand().
Starting == pc[T] \in {"srand", "rand", "store_block"}

SeqBlock ==
  IF Starting THEN NextBlock(last_block, rand[last_block]) ELSE last_block

SeqEntry ==
  IF Starting THEN StartEntry(SeqBlock)
  ELSE IF pc[T] \in {"probe", "store_set"} THEN entry[T] ELSE 0

SeqPc ==
  IF Starting \/ pc[T] \in {"probe", "store_set"} THEN "probe"
  ELSE IF pc[T] \in {"created", "store_clear"} THEN "created"
  ELSE "idle"

\* IpId over the bits of the bitmap, for a program of one thread: the loads and
\* stores of the shared memory add up to IpId's steps.
Sequential ==
  INSTANCE IpId WITH
    bitmap <- "live", used <- Marked, last_block <- SeqBlock, hdr <- hdr[T],
    pc <- SeqPc, caller <- stream[T], mode <- mode[T], entry <- SeqEntry

\* allocate_ipv4_id and free_ipv4_id on bytes, steps of one thread, are those
\* of IpId on IDs; with what IpId's invariants and proofs say of them.
ImplementsIpId == [][Sequential!Next]_(Sequential!vars)

\* With one thread a header keeps its bit: what FreeIsHarmless needs of two.
HeldStayMarked == Held \subseteq Marked

-----------------------------------------------------------------------------
(* Inductive invariants.                                                   *)

\* Of any number of threads, whatever they overwrite in the bitmap: the header
\* of a running call is there when the call is past the loop, and no ID is 0.
CallHasHeader ==
  \A t \in Threads :
    pc[t] \in {"created", "store_clear"} => hdr[t][stream[t]] # NoId

NoZeroId == \A t \in Threads, s \in Streams : hdr[t][s] # 0

ThreadsInv == TypeOK /\ CallHasHeader /\ NoZeroId

OneThread == \E t : Threads = {t}

\* Of one thread: between two of its steps nothing changes what it has in its
\* registers of last_block, of the C library and of the bitmap.
RegistersFresh ==
  /\ pc[T] = "srand" => block[T] = last_block
  /\ pc[T] = "rand" => block[T] = last_block /\ seed = last_block
  /\ pc[T] = "store_block" => block[T] = SeqBlock
  /\ pc[T] = "store_set" =>
       /\ reg[T] = byte[bitmap_idx(entry[T])]
       /\ bitmap_bit(entry[T]) \notin reg[T]
  /\ pc[T] = "store_clear" => reg[T] = byte[bitmap_idx(hdr[T][stream[T]])]

\* IpId's invariant has the rest: the held IDs are marked and unique.
OneInv == ThreadsInv /\ RegistersFresh /\ Sequential!IInv
=============================================================================
