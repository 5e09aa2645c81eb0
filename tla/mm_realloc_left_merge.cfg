\* mm_realloc next to a free left neighbour and a used right one, with
\* room to grow the heap and a memcpy whose overlapping copy may run
\* either way.
CONSTANTS
  Alignment = 16
  MaxHeapWords = 8192
  Sizes = {24, 104, 392}
  MaxOps = 5
  MemcpyOutcomes = {"forward", "backward"}
SPECIFICATION Spec
PROPERTY AllocatorRefined
CHECK_DEADLOCK FALSE
