--------------------------------- MODULE Heap ---------------------------------
(***************************************************************************)
(* What the memory manager promises (getmem.2, freemem.2): it hands out    *)
(* contiguous regions of free memory, rounded up to whole units, that do   *)
(* not overlap, and takes them back.                                       *)
(***************************************************************************)
EXTENDS Naturals

CONSTANTS HeapStart,    \* lowest address of the heap
          HeapLen,      \* its length in bytes
          Sizes,        \* sizes the application asks for
          MBLOCK        \* sizeof(struct mblock), the unit of allocation

VARIABLES free,         \* the addresses that are free
          held          \* the regions that are in use

Units(n)       == ((n + MBLOCK - 1) \div MBLOCK) * MBLOCK
Region(a, len) == a..(a + len - 1)

HeapInit ==
  /\ free = Region(HeapStart, HeapLen)
  /\ held = {}

Allocate(n) ==
  \E a \in free :
    /\ Region(a, Units(n)) \subseteq free
    /\ free' = free \ Region(a, Units(n))
    /\ held' = held \cup {[addr |-> a, len |-> Units(n)]}

Release(b) ==
  /\ held' = held \ {b}
  /\ free' = free \cup Region(b.addr, b.len)

HeapNext == (\E n \in Sizes : Allocate(n)) \/ (\E b \in held : Release(b))

HeapSpec == HeapInit /\ [][HeapNext]_<<free, held>>
==============================================================================
