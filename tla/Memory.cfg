SPECIFICATION SpecM
CONSTANTS
  HeapStart = 256
  HeapLen = 28
  Sizes = {1, 8, 11}
INVARIANTS
  FreeListSound
  HeapPartitioned
PROPERTIES
  ImplementsHeap
