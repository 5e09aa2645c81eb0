\* The allocator under the client of mm_safety, checking that the heap
\* grows only when no free block fits the request.
CONSTANTS
  Alignment = 16
  MaxHeapWords = 8192
  Sizes = {24, 392, 3000}
  MaxOps = 6
  MemcpyOutcomes = {"forward"}
SPECIFICATION Spec
\* The client stops after MaxOps calls.
CHECK_DEADLOCK FALSE
PROPERTY ExtendOnlyWithoutFit
