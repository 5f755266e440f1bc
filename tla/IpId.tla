-------------------------------- MODULE IpId --------------------------------
(***************************************************************************)
(* The IPv4 identification allocator of src/src/ip.c and its callers, in   *)
(* the single-threaded program the repository builds.                      *)
(*                                                                         *)
(* allocate_ipv4_id picks a block from last_block and rand(), and probes   *)
(* the bitmap of used IDs from the block's first ID in strides of 3 until  *)
(* it finds a clear bit.  Two functions create headers, and so IDs:        *)
(* ipv4_transmit_datagram, which clears the bit once the packet is on the  *)
(* link, and create_ipv4_hdr called by a client of ip.h, for whose header  *)
(* no function clears the bit: the client can only free() the header.      *)
(*                                                                         *)
(* One iteration of the probing loop is one step; everything else the      *)
(* program does between two returns to its client is one step too, since   *)
(* it has one thread.  A failed allocation of the header itself returns    *)
(* before any of this state changes and is a stuttering step.              *)
(***************************************************************************)
EXTENDS Integers

CONSTANTS
  Streams,      \* the headers a client can have at a time
  NoId,         \* a stream without a header
  IdSpace,      \* number of bits in the bitmap, 65536: uint16_t is % IdSpace
  BlockSize,    \* IDs between the first IDs of neighbouring blocks, 8
  MaxBlocks,    \* max_blocks, 1024
  FirstBlocks,  \* ip_initialise draws last_block from 0..FirstBlocks-1, 0x1000
  IntMax,       \* the largest int, also RAND_MAX
  RandFns       \* the C library: what rand() returns first after srand(seed)

Ids == 0 .. (IdSpace - 1)

ASSUME IdSpaceAssumption ==
  /\ IdSpace \in Nat
  /\ IdSpace > 3
  /\ IdSpace % 3 = 1
ASSUME BlockAssumption ==
  /\ BlockSize \in Nat \ {0}
  /\ MaxBlocks \in Nat \ {0}
  /\ FirstBlocks \in 1 .. IdSpace
  /\ MaxBlocks <= IdSpace
ASSUME RandAssumption ==
  /\ IntMax \in Nat
  /\ RandFns \subseteq [Ids -> 0 .. IntMax]
ASSUME NoIdAssumption == NoId \notin Ids

VARIABLES
  rand,        \* the C library in use, an element of RandFns
  bitmap,      \* the pointer used_ip_id_values: "null", "live" or "freed"
  used,        \* the IDs whose bit is set
  last_block,
  hdr,         \* hdr[s]: the ID in the live header of stream s, or NoId
  pc,          \* "idle": the client runs; "probe": in the loop of
               \* allocate_ipv4_id; "created": the header is complete
  caller,      \* the stream the running call is for
  mode,        \* "direct": create_ipv4_hdr; "transmit": ipv4_transmit_datagram
  entry,       \* the local variable of allocate_ipv4_id
  orphans      \* history: IDs whose header was freed with their bit set

vars == <<rand, bitmap, used, last_block, hdr, pc, caller, mode, entry, orphans>>
libraryVars == <<rand, bitmap, last_block, caller, mode>>

-----------------------------------------------------------------------------
(* The first ID of the block allocate_ipv4_id starts from.                 *)

\* The C remainder, which takes the sign of its first operand.
CRem(a, b) == IF a >= 0 THEN a % b ELSE -((-a) % b)

\* An int addition that exceeds IntMax wraps (x86-64 gcc, no -ftrapv).
WrapInt(x) == IF x > IntMax THEN x - 2 * (IntMax + 1) ELSE x

\* Mutant: the block is kept as an int.
NextBlockAsInt(last) == CRem(WrapInt(last + rand[last]), MaxBlocks)

\* (last_block + rand()) % max_blocks after srand(last_block), as a uint16_t.
NextBlock(last) == CRem(WrapInt(last + rand[last]), MaxBlocks) % IdSpace

StartEntry(block) == (block * BlockSize) % IdSpace

\* Mutant: the modulus is the size of the bitmap.
NextEntryModSize(e) == (e + 3) % IdSpace

\* Mutant: every second entry of the class is skipped.
NextEntrySkips(e) == (e + 6) % (IdSpace - 1)

\* Mutant: the entry is not advanced.
NextEntrySame(e) == e

NextEntry(e) == (e + 3) % (IdSpace - 1)

-----------------------------------------------------------------------------
(* The bitmap of src/src/include/bitmap.h, by the IDs whose bit is set.    *)

BitmapGet(i) == i \in used

\* Mutant: the bit of the block's first ID is set.
BitmapSetFirst(i) == used' = used \cup {StartEntry(last_block)}

\* Mutant: the bit is tested and not set.
BitmapSetForgotten(i) == used' = used

BitmapSet(i) == used' = used \cup {i}

\* Mutant: the bit stays set.
BitmapClearForgotten(i) == used' = used

\* Mutant: the mask has one bit too many.
BitmapClearTwo(i) == used' = used \ {i, i + 1}

BitmapClear(i) == used' = used \ {i}

-----------------------------------------------------------------------------
Init ==
  /\ rand \in RandFns
  /\ bitmap = "null"
  /\ used = {}
  /\ last_block = 0
  /\ hdr = [s \in Streams |-> NoId]
  /\ pc = "idle"
  /\ caller \in Streams
  /\ mode = "direct"
  /\ entry = 0
  /\ orphans = {}

\* ip_initialise: srand() of a load address, so any first block; a clear bitmap.
\* A client does not initialise a library that is initialised.
IpInitialise ==
  /\ pc = "idle" /\ bitmap # "live"
  /\ last_block' \in 0 .. (FirstBlocks - 1)
  /\ used' = {}
  /\ bitmap' = "live"
  /\ orphans' = {}
  /\ UNCHANGED <<rand, hdr, pc, caller, mode, entry>>

\* ip_finalise: a client calls it once its headers are gone.
IpFinalise ==
  /\ pc = "idle" /\ bitmap = "live"
  /\ \A s \in Streams : hdr[s] = NoId
  /\ bitmap' = "freed"
  /\ UNCHANGED <<rand, used, last_block, hdr, pc, caller, mode, entry, orphans>>

\* A call that creates a header for s, up to the loop of allocate_ipv4_id.
CreateHdr(s, m) ==
  /\ pc = "idle" /\ bitmap = "live"
  /\ hdr[s] = NoId
  /\ pc' = "probe"
  /\ caller' = s
  /\ mode' = m
  /\ last_block' = NextBlock(last_block)
  /\ entry' = StartEntry(NextBlock(last_block))
  /\ UNCHANGED <<rand, bitmap, used, hdr, orphans>>

\* One iteration that finds a clear bit, for an ID other than 0: iph->id = entry.
TakeId ==
  /\ pc = "probe"
  /\ ~BitmapGet(entry)
  /\ entry # 0
  /\ BitmapSet(entry)
  /\ hdr' = [hdr EXCEPT ![caller] = entry]
  /\ pc' = IF mode = "transmit" THEN "created" ELSE "idle"
  /\ entry' = 0
  /\ UNCHANGED <<libraryVars, orphans>>

\* One iteration that finds bit 0 clear: it is set, but current_id stays 0.
MarkZero ==
  /\ pc = "probe"
  /\ ~BitmapGet(entry)
  /\ entry = 0
  /\ BitmapSet(entry)
  /\ UNCHANGED <<libraryVars, hdr, pc, entry, orphans>>

\* One iteration that finds the bit set.
SkipId ==
  /\ pc = "probe"
  /\ BitmapGet(entry)
  /\ entry' = NextEntry(entry)
  /\ UNCHANGED <<libraryVars, used, hdr, pc, orphans>>

\* ipv4_transmit_datagram without memory for the packet: free(ip_hdr), return -1.
PacketAllocFails ==
  /\ pc = "created"
  /\ hdr' = [hdr EXCEPT ![caller] = NoId]
  /\ orphans' = orphans \cup {hdr[caller]}
  /\ pc' = "idle"
  /\ UNCHANGED <<libraryVars, used, entry>>

\* ipv4_transmit_datagram: link_tx, free_ipv4_id, free(ip_hdr), return.
LinkTxAndFree ==
  /\ pc = "created"
  /\ BitmapClear(hdr[caller])
  /\ hdr' = [hdr EXCEPT ![caller] = NoId]
  /\ pc' = "idle"
  /\ UNCHANGED <<libraryVars, entry, orphans>>

\* A client frees a header it got from create_ipv4_hdr.
FreeHdr(s) ==
  /\ pc = "idle"
  /\ hdr[s] # NoId
  /\ hdr' = [hdr EXCEPT ![s] = NoId]
  /\ orphans' = orphans \cup {hdr[s]}
  /\ UNCHANGED <<libraryVars, used, pc, entry>>

Probe == TakeId \/ MarkZero \/ SkipId
Library == Probe \/ PacketAllocFails \/ LinkTxAndFree

Client ==
  \/ IpInitialise
  \/ IpFinalise
  \/ \E s \in Streams, m \in {"direct", "transmit"} : CreateHdr(s, m)
  \/ \E s \in Streams : FreeHdr(s)

Next == Client \/ Library

Spec == Init /\ [][Next]_vars

\* The thread keeps running once it is inside the library; a client may stop.
FairSpec == Spec /\ WF_vars(Library)
-----------------------------------------------------------------------------
(* Properties.                                                             *)

\* The variables stay in the ranges the C declarations give them.
TypeOK ==
  /\ rand \in RandFns
  /\ bitmap \in {"null", "live", "freed"}
  /\ used \subseteq Ids
  /\ last_block \in Ids
  /\ hdr \in [Streams -> Ids \cup {NoId}]
  /\ pc \in {"idle", "probe", "created"}
  /\ caller \in Streams
  /\ mode \in {"direct", "transmit"}
  /\ entry \in Ids
  /\ orphans \subseteq Ids

\* "Select unique IPv4 ID field value" (ip.c:81): two live headers never carry
\* the same ID, and none carries 0, whichever calls overlapped their lives.
UniqueIds ==
  \A s \in Streams : hdr[s] # NoId =>
    /\ hdr[s] # 0
    /\ \A t \in Streams \ {s} : hdr[t] # hdr[s]

HeldIds == {hdr[s] : s \in Streams} \ {NoId}

\* No bit of the bitmap is lost or stale: a set bit other than bit 0 belongs to
\* a live header or to a header that was freed without free_ipv4_id, and a bit
\* of a live header is never one that was given up before.
BitsAccounted ==
  bitmap = "live" =>
    /\ used \ {0} = HeldIds \cup orphans
    /\ HeldIds \cap orphans = {}

\* The IDs the loop of allocate_ipv4_id can still reach: a stride of 3 modulo
\* IdSpace - 1, a multiple of 3, never leaves a residue class modulo 3.
Reachable(e) == ({e} \cup {i \in 0 .. (IdSpace - 2) : i % 3 = e % 3}) \ {0}

\* The loop runs and every ID it can reach is taken.
Exhausted == pc = "probe" /\ Reachable(entry) \subseteq used

\* allocate_ipv4_id with a full residue class stays in its loop for good, however
\* many IDs the other two classes have: the single thread that could free one
\* of the class is the thread in the loop.
ExhaustedIsPermanent == [][Exhausted => Exhausted']_vars

\* The k-th entry of the loop that started at entry e.
ProbeAt(e, k) == IF k = 0 THEN e ELSE (e + 3 * k) % (IdSpace - 1)

\* The loop takes the first free ID of its probing order, so it never passes a
\* free one: every entry before the one it takes was set, or is bit 0.
FirstFree ==
  [][\A s \in Streams : hdr[s] = NoId /\ hdr'[s] # NoId =>
       \E k \in 0 .. (IdSpace \div 3) :
         /\ hdr'[s] = ProbeAt(StartEntry(last_block), k)
         /\ \A j \in 0 .. (k - 1) : ProbeAt(StartEntry(last_block), j) \in used]_vars

\* A call whose residue class has a free ID leaves the loop of allocate_ipv4_id.
SearchEnds == pc = "probe" /\ ~Exhausted ~> pc # "probe"

\* The allocator as its callers see it.
Pool == INSTANCE IdPool WITH Ids <- 1 .. (IdSpace - 1), held <- hdr

\* The bitmap, the blocks and the strides give every stream an ID of its own.
ImplementsIdPool == Pool!Spec

-----------------------------------------------------------------------------
(* The inductive invariant behind UniqueIds, BitsAccounted, FirstFree and  *)
(* Pool!Spec: the IDs of the live headers are marked, so a clear bit is    *)
(* nobody's, and so are all entries the loop has left behind.              *)

HeldMarked ==
  \A s \in Streams : hdr[s] # NoId => bitmap = "live" /\ hdr[s] \in used

CallerHasHeader ==
  /\ pc # "idle" => bitmap = "live"
  /\ pc = "probe" => hdr[caller] = NoId
  /\ pc = "created" => hdr[caller] # NoId

\* After IdSpace \div 3 strides the loop comes back to the entries it has seen.
SearchSoFar ==
  pc = "probe" =>
    \E k \in 0 .. (IdSpace \div 3) :
      /\ entry = ProbeAt(StartEntry(last_block), k)
      /\ \A j \in 0 .. (k - 1) : ProbeAt(StartEntry(last_block), j) \in used

IInv ==
  /\ TypeOK /\ HeldMarked /\ CallerHasHeader /\ UniqueIds /\ BitsAccounted
  /\ SearchSoFar
=============================================================================
