\* The allocator under a client making five calls after mm_init, with
\* requests of 8, 100 and 752 words, and room to grow the heap.
CONSTANTS
  Alignment = 16
  MaxHeapWords = 8192
  Sizes = {24, 392, 3000}
  MaxOps = 6
  MemcpyOutcomes = {"forward"}
SPECIFICATION Spec
INVARIANT TypeOK
INVARIANT ClientBlocksValid
INVARIANT HeapWellFormed
INVARIANT FreeListsExact
INVARIANT DataPreserved
PROPERTY AllocatorRefined
\* The client stops after MaxOps calls.
CHECK_DEADLOCK FALSE
