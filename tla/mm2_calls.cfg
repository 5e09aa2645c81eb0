\* The draft allocator under a client making three calls, with a request
\* that splits the first chunk (24 bytes) and one that takes all of it.
CONSTANTS
  Alignment = 16
  MIN_BLOCK_SIZE_WORDS = 8
  MaxHeapWords = 16384
  Sizes = {24, 4090}
  MaxOps = 3
  BeforeHeap = {"inuse", "zero", "other"}
  NULL = NULL
SPECIFICATION Spec
\* Every behaviour ends when a call fails or after MaxOps calls.
CHECK_DEADLOCK FALSE
INVARIANT CallsComplete
