-------------------------------- MODULE Memory --------------------------------
(***************************************************************************)
(* The memory manager: getmem.c, getstk.c, freemem.c, freestk() of mem.h,  *)
(* and malloc.c.  Every call runs with interrupts disabled and none        *)
(* reschedules, so each is one step.                                       *)
(*                                                                         *)
(* memlist is the free list, ordered by address.  blocks is what callers   *)
(* hold: the region that was taken off the free list (addr, len), and what *)
(* the caller knows of it: the pointer it got, from which call, and the    *)
(* size it asked for.                                                      *)
(***************************************************************************)
EXTENDS Integers, FiniteSets, SequencesExt

CONSTANTS HeapStart,    \* __malloc_heap_start, a multiple of MBLOCK
          HeapLen,      \* its length, a multiple of MBLOCK
          Sizes         \* sizes callers ask for

MBLOCK == 4             \* sizeof(struct mblock)
WORD   == 2             \* sizeof(WORD)
MaxU   == 65536         \* unsigned arithmetic is modulo 2^16

ASSUME MemAssumption ==
  /\ HeapStart \in Nat /\ HeapLen \in Nat \ {0}
  /\ HeapStart % MBLOCK = 0 /\ HeapLen % MBLOCK = 0 /\ HeapStart + HeapLen < MaxU
  /\ Sizes \subseteq 1..(MaxU - 1)

VARIABLES memlist, blocks

memVars == <<memlist, blocks>>

HeapEnd == HeapStart + HeapLen

MBlock(addr, len) == [addr |-> addr, mlen |-> len]

(* mem.h: round up to a multiple of MBLOCK, in 16 bits *)
roundmb(n) == (((n + MBLOCK - 1) % MaxU) \div MBLOCK) * MBLOCK

(* initialize.c *)
InitM ==
  /\ memlist = <<MBlock(HeapStart, HeapLen)>>
  /\ blocks = {}

------------------------------------------------------------------------------
(* A call gives its caller the region at addr and the pointer ptr. *)
Give(addr, len, ptr, call, n) ==
  blocks' = blocks \cup {[addr |-> addr, len |-> len, ptr |-> ptr,
                          call |-> call, size |-> n]}

(* Mutant: what is left over of a block is lost. *)
TakeLowWhole(i, nbytes) == memlist' = RemoveAt(memlist, i)

(* getmem.c: nbytes from the low end of the i-th free block *)
TakeLow(i, nbytes) ==
  memlist' = IF memlist[i].mlen = nbytes THEN RemoveAt(memlist, i)
             ELSE [memlist EXCEPT ![i] = MBlock(@.addr + nbytes, @.mlen - nbytes)]

(* getmem.c: the first block that is large enough.  A call that finds none  *)
(* returns SYSERR and is not a step.                                        *)
FirstFit(i, nbytes) == /\ memlist[i].mlen >= nbytes
                       /\ \A j \in 1..(i - 1) : memlist[j].mlen < nbytes

Getmem(n) ==
  \E i \in DOMAIN memlist :
    /\ FirstFit(i, roundmb(n))
    /\ TakeLow(i, roundmb(n))
    /\ Give(memlist[i].addr, roundmb(n), memlist[i].addr, "getmem", n)

(* malloc.c: the size is kept in the word in front of the pointer. *)
MallocSize(n) == (roundmb(n) + WORD) % MaxU

Malloc(n) ==
  LET nbytes == roundmb(MallocSize(n))
  IN  \E i \in DOMAIN memlist :
        /\ FirstFit(i, nbytes)
        /\ TakeLow(i, nbytes)
        /\ Give(memlist[i].addr, nbytes, memlist[i].addr + WORD, "malloc", n)

(* getstk.c: the last block that is large enough *)
LastFit(i, nbytes) == /\ memlist[i].mlen >= nbytes
                      /\ \A j \in (i + 1)..Len(memlist) : memlist[j].mlen < nbytes

(* getstk.c: nbytes from the high end of the i-th free block *)
TakeHigh(i, nbytes) ==
  memlist' = IF memlist[i].mlen = nbytes THEN RemoveAt(memlist, i)
             ELSE [memlist EXCEPT ![i].mlen = @ - nbytes]

(* The pointer is to the highest word of the stack. *)
Getstk(n) ==
  \E i \in DOMAIN memlist :
    LET end == memlist[i].addr + memlist[i].mlen
    IN  /\ LastFit(i, roundmb(n))
        /\ TakeHigh(i, roundmb(n))
        /\ Give(end - roundmb(n), roundmb(n), end - WORD, "getstk", n)

(* freemem.c: the free blocks before and after the one that is freed *)
Before(block) == Cardinality({i \in DOMAIN memlist : memlist[i].addr < block})

(* freemem.c refuses what lies outside the heap or overlaps a free block. *)
Accepts(block, size) ==
  LET i == Before(block)
  IN  /\ size # 0 /\ block \in HeapStart..HeapEnd
      /\ i > 0 => (memlist[i].addr + memlist[i].mlen) % MaxU <= block
      /\ i < Len(memlist) => (block + roundmb(size)) % MaxU <= memlist[i+1].addr

(* Mutant: a block is not joined with the one after it. *)
FreememLeftOnly(block, size) ==
  LET i    == Before(block)
      left == i > 0 /\ memlist[i].addr + memlist[i].mlen = block
  IN  /\ Accepts(block, size)
      /\ memlist' = IF left THEN [memlist EXCEPT ![i].mlen = @ + roundmb(size)]
                    ELSE InsertAt(memlist, i + 1, MBlock(block, roundmb(size)))

(* freemem.c: join the block with the free blocks it touches. *)
Freemem(block, size) ==
  LET i     == Before(block)
      left  == i > 0 /\ (memlist[i].addr + memlist[i].mlen) % MaxU = block
      q     == IF left THEN MBlock(memlist[i].addr, memlist[i].mlen + roundmb(size))
               ELSE MBlock(block, roundmb(size))
      right == i < Len(memlist) /\ (q.addr + q.mlen) % MaxU = memlist[i+1].addr
      whole == IF right THEN MBlock(q.addr, q.mlen + memlist[i+1].mlen) ELSE q
  IN  /\ Accepts(block, size)
      /\ memlist' = SubSeq(memlist, 1, IF left THEN i - 1 ELSE i) \o <<whole>>
                    \o SubSeq(memlist, IF right THEN i + 2 ELSE i + 1, Len(memlist))

(* Mutant: the stack's lowest address is one word too low. *)
FreeArgLow(b) ==
  IF b.call = "getstk"
  THEN [block |-> (b.ptr - roundmb(b.size)) % MaxU, size |-> roundmb(b.size)]
  ELSE [block |-> b.addr, size |-> b.len]

(* What freemem is called with to give b back: directly, by freestk() of    *)
(* mem.h, or by free() of malloc.c, which reads the size it finds in front. *)
FreeArg(b) ==
  CASE b.call = "getmem" -> [block |-> b.ptr, size |-> b.size]
    [] b.call = "getstk" -> [block |-> (b.ptr - roundmb(b.size) + WORD) % MaxU,
                             size |-> roundmb(b.size)]
    [] b.call = "malloc" -> [block |-> b.ptr - WORD, size |-> MallocSize(b.size)]

GiveBack(b) ==
  /\ Freemem(FreeArg(b).block, FreeArg(b).size)
  /\ blocks' = blocks \ {b}

NextM ==
  \/ \E n \in Sizes : Getmem(n) \/ Malloc(n) \/ Getstk(n)
  \/ \E b \in blocks : GiveBack(b)

SpecM == InitM /\ [][NextM]_memVars
------------------------------------------------------------------------------
Bytes(a, len)  == a..(a + len - 1)
FreeBytes      == UNION {Bytes(memlist[i].addr, memlist[i].mlen) : i \in DOMAIN memlist}

(* The free list is ordered by address, its blocks are not empty, do not    *)
(* overlap and do not even touch, and lie in the heap: freemem joins a      *)
(* block with what is free on either side of it.                            *)
FreeListSound ==
  /\ \A i \in DOMAIN memlist :
       /\ memlist[i].mlen > 0
       /\ Bytes(memlist[i].addr, memlist[i].mlen) \subseteq Bytes(HeapStart, HeapLen)
  /\ \A i, j \in DOMAIN memlist :
       i < j => memlist[i].addr + memlist[i].mlen < memlist[j].addr

(* `The routines cooperate so they never allocate overlapping regions'      *)
(* (getmem.2): each byte of the heap is free or held by one caller, and     *)
(* what is held will be taken back, wherever the caller's pointer points.   *)
HeapPartitioned ==
  /\ FreeBytes \cap UNION {Bytes(b.addr, b.len) : b \in blocks} = {}
  /\ FreeBytes \cup UNION {Bytes(b.addr, b.len) : b \in blocks}
       = Bytes(HeapStart, HeapLen)
  /\ \A b, c \in blocks : b # c => Bytes(b.addr, b.len) \cap Bytes(c.addr, c.len) = {}
  /\ \A b \in blocks : Accepts(FreeArg(b).block, FreeArg(b).size)

(* freemem refuses what is free in part or as a whole already (freemem.c:25 *)
(* looks only at the neighbours of the block): a second free of the same    *)
(* block is harmless as long as the memory has not been handed out again.   *)
FreeTwiceRefused ==
  \A block \in Bytes(HeapStart, HeapLen), size \in 1..HeapLen :
    Accepts(block, size) => Bytes(block, size) \cap FreeBytes = {}

AbstractHeap == INSTANCE Heap WITH
  free  <- FreeBytes,
  held  <- {[addr |-> b.addr, len |-> b.len] : b \in blocks},
  Sizes <- Sizes \cup {MallocSize(n) : n \in Sizes}

(* The memory manager implements the abstract heap: every call hands out    *)
(* whole units of free memory, enough for what was asked for, or takes back *)
(* exactly what was handed out.                                             *)
ImplementsHeap == AbstractHeap!HeapSpec
==============================================================================
