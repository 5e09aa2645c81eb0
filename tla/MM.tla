---------------------------------- MODULE MM ----------------------------------
(***************************************************************************)
(* The segregated-free-list allocator of src/malloclab/mm.c, driven by a   *)
(* client that calls mm_init, mm_malloc, mm_free and mm_realloc.           *)
(*                                                                         *)
(* Memory is word addressed (WSIZE = 4 bytes) and sparse: `tags` holds the *)
(* boundary tags written at an address, `data` the client data or free-   *)
(* list link written at a payload start.  A write of one kind overwrites  *)
(* the other at that word; words never written read as junk.  The ten     *)
(* free lists (list_size 4096, 2048, ..., 8 words) are sequences of block *)
(* addresses in list order: list.h's intrusive lists, push_back and       *)
(* list_remove.  The sizes are the code's own: blocks of at least 8       *)
(* words, the heap grown by CHUNKSIZE = 1024 words.  Each C function is   *)
(* an operator from a heap to a heap (or to [h, ret]); each client call   *)
(* is one atomic step, as the allocator is single-threaded.                *)
(***************************************************************************)
EXTENDS Integers, Sequences, FiniteSets, SequencesExt, TLC

CONSTANTS
  Alignment,       \* ALIGNMENT of config.h, in bytes
  MaxHeapWords,    \* mem_sbrk fails beyond this many words of heap
  Sizes,           \* request sizes (bytes) the client passes
  MaxOps,          \* client calls in one behaviour
  MemcpyOutcomes   \* what an overlapping memcpy does in the build

ASSUME /\ Alignment \in {8, 16}
       /\ MaxHeapWords \in Nat /\ MaxHeapWords >= 2 + 1024
       /\ Sizes \subseteq Nat \ {0}
       /\ MaxOps \in Nat
       /\ MemcpyOutcomes \subseteq {"forward", "backward"} /\ MemcpyOutcomes # {}

WSIZE == 4
MIN_BLOCK_SIZE_WORDS == 8
CHUNKSIZE == 1024
MAX_BLOCK == 4096

(* The free lists of free_blocks, in list order: largest list_size first. *)
ListSizes == [i \in 1..10 |-> 2^(13 - i)]
BinSizes == Range(ListSizes)

Tag(sz, use) == [size |-> sz, inuse |-> use]
FENCE == Tag(0, 1)
Junk == Tag(0, 0)     \* a word no tag was written to (never read in a
                      \* heap the invariants below accept)
Link == -1            \* free-list pointers stored in a free payload

max(x, y) == IF x > y THEN x ELSE y
align(size) == ((size + Alignment - 1) \div Alignment) * Alignment

-----------------------------------------------------------------------------
(* Memory.                                                                 *)

TagAt(h, a) == IF a \in DOMAIN h.tags THEN h.tags[a] ELSE Junk
blk_size(h, b) == TagAt(h, b).size
blk_free(h, b) == TagAt(h, b).inuse = 0
next_blk(h, b) == b + blk_size(h, b)
prev_blk_footer(h, b) == TagAt(h, b - 1)
prev_blk(h, b) == b - prev_blk_footer(h, b).size

Drop(f, a) == [x \in DOMAIN f \ {a} |-> f[x]]

WriteTag(h, a, t) ==
  [h EXCEPT !.tags = (a :> t) @@ @, !.data = Drop(@, a)]

WriteData(h, a, v) ==
  [h EXCEPT !.data = (a :> v) @@ @, !.tags = Drop(@, a)]

(* set_header_and_footer, mark_block_used, mark_block_free.                *)
set_header_and_footer(h, b, size, inuse) ==
  WriteTag(WriteTag(h, b, Tag(size, inuse)), b + size - 1, Tag(size, inuse))

(* memcpy(dst, src, n) on words: both kinds of content move with the      *)
(* bytes.  Overlapping regions are undefined behaviour: a forward copy    *)
(* (dst below src) gives what memmove would; a backward copy reads the    *)
(* overlapped part of the source after it was overwritten: junk.          *)
Memcpy(h, dst, src, n, how) ==
  LET k == (n + WSIZE - 1) \div WSIZE
      InSrc(a) == src <= a /\ a < src + k
      InDst(a) == dst <= a /\ a < dst + k
      Lost(a) == how = "backward" /\ dst < src /\ a < dst + k
      Move(f) ==
        LET kept == {a \in DOMAIN f : ~InDst(a)}
            moved == {a + dst - src : a \in {x \in DOMAIN f : InSrc(x) /\ ~Lost(x)}}
        IN  [a \in kept \cup moved |->
               IF a \in moved THEN f[a - dst + src] ELSE f[a]]
  IN  [h EXCEPT !.tags = Move(@), !.data = Move(@)]

-----------------------------------------------------------------------------
(* The free lists.                                                         *)

(* add_free_block: push_back onto the first list (largest first) whose    *)
(* list_size is at most the block's size; the list_elem is written into   *)
(* the payload.  A block below every list_size would be on no list.       *)
add_free_block(h, b) ==
  LET i == SelectInSeq(ListSizes, LAMBDA s : s <= blk_size(h, b))
  IN  IF i = 0 THEN h
      ELSE WriteData([h EXCEPT !.bins[ListSizes[i]] = Append(@, b)], b + 1, Link)

(* list_remove(&b->elem): unlink b from the list that holds it.           *)
list_remove(h, b) ==
  [h EXCEPT !.bins = [s \in BinSizes |-> Remove(@[s], b)]]

(* The scan inside find_fit of one list: elem1 from the back, elem2 from  *)
(* the front; after each miss elem2 advances and the scan gives up        *)
(* (returns NULL) once the two meet or are adjacent.                      *)
RECURSIVE Scan(_, _, _, _, _)
Scan(h, l, asize, i1, i2) ==
  IF i1 < 1 THEN 0
  ELSE IF blk_size(h, l[i1]) >= asize THEN l[i1]
  ELSE IF blk_size(h, l[i2]) >= asize THEN l[i2]
  ELSE IF i1 \in {i2 + 1, i2} THEN 0       \* elem2 advanced to i2 + 1
  ELSE Scan(h, l, asize, i1 - 1, i2 + 1)

(* find_fit: the first non-empty list, largest first, whose list_size is  *)
(* at least asize (list_prev(e) == list_end(...) never holds for list.h's *)
(* lists, whose head and tail sentinels differ), scanned as above; the    *)
(* later lists are not tried.                                             *)
find_fit(h, asize) ==
  LET i == SelectInSeq(ListSizes,
             LAMBDA s : h.bins[s] # <<>> /\ s >= asize)
  IN  IF i = 0 THEN 0
      ELSE LET l == h.bins[ListSizes[i]] IN Scan(h, l, asize, Len(l), 1)

-----------------------------------------------------------------------------
(* The allocator's routines.                                               *)

(* Mutant: the next block is never looked at; only a free previous     *)
(* block is merged.                                                       *)
CoalescePrevOnly(h, bp) ==
  LET size == blk_size(h, bp)
      prev == prev_blk(h, bp)
  IN  IF prev_blk_footer(h, bp).inuse = 1
        THEN [h |-> add_free_block(h, bp), ret |-> bp]
        ELSE [h |-> add_free_block(set_header_and_footer(list_remove(h, prev),
                                     prev, size + blk_size(h, prev), 0), prev),
              ret |-> prev]

(* coalesce: merge bp with a free neighbour on either side (taking that   *)
(* neighbour off its list) and put the result on a list.                  *)
coalesce(h, bp) ==
  LET prev_alloc == prev_blk_footer(h, bp).inuse = 1
      next_alloc == ~blk_free(h, next_blk(h, bp))
      size == blk_size(h, bp)
      next == next_blk(h, bp)
      prev == prev_blk(h, bp)
  IN  CASE prev_alloc /\ next_alloc ->
             [h |-> add_free_block(h, bp), ret |-> bp]
        [] prev_alloc /\ ~next_alloc ->
             [h |-> add_free_block(set_header_and_footer(list_remove(h, next),
                                     bp, size + blk_size(h, next), 0), bp),
              ret |-> bp]
        [] ~prev_alloc /\ next_alloc ->
             [h |-> add_free_block(set_header_and_footer(list_remove(h, prev),
                                     prev, size + blk_size(h, prev), 0), prev),
              ret |-> prev]
        [] OTHER ->
             [h |-> add_free_block(set_header_and_footer(
                      list_remove(list_remove(h, prev), next), prev,
                      size + blk_size(h, prev) + blk_size(h, next), 0), prev),
              ret |-> prev]

(* Mutant: the epilogue is written one word past the new block.          *)
ExtendHeapFencePastEnd(h, words) ==
  IF h.brk + words > MaxHeapWords
    THEN [h |-> [h EXCEPT !.st = "crashed"], ret |-> 0]
    ELSE LET blk == h.brk - 1
             h1 == set_header_and_footer([h EXCEPT !.brk = @ + words],
                                         blk, words, 0)
         IN  coalesce(WriteTag(h1, blk + words + 1, FENCE), blk)

(* extend_heap: mem_sbrk(words); the old epilogue becomes the header of a *)
(* free block, a new epilogue follows.  Beyond MaxHeapWords mem_sbrk      *)
(* fails, returning the all-ones pointer (void-star -1) that the test     *)
(* against NULL lets through: mark_block_free writes 4 bytes below it and *)
(* the process crashes.                                                   *)
extend_heap(h, words) ==
  IF h.brk + words > MaxHeapWords
    THEN [h |-> [h EXCEPT !.st = "crashed"], ret |-> 0]
    ELSE LET blk == h.brk - 1
             h1 == set_header_and_footer([h EXCEPT !.brk = @ + words],
                                         blk, words, 0)
         IN  coalesce(WriteTag(h1, blk + words, FENCE), blk)

(* mm_init: the ten empty lists, two fences (initial[0] is written twice, *)
(* initial[1] never), then a first chunk.                                 *)
mm_init(h) ==
  extend_heap([tags |-> (0 :> FENCE), data |-> <<>>,
               bins |-> [s \in BinSizes |-> <<>>], brk |-> 2, listp |-> 1,
               st |-> "ok"],
              CHUNKSIZE)

(* Mutant: the split case leaves the used part on its free list.         *)
PlaceNoRemoveOnSplit(h, bp, asize) ==
  LET csize == blk_size(h, bp)
  IN  IF csize < asize \/ csize - asize >= MIN_BLOCK_SIZE_WORDS
        THEN LET h1 == set_header_and_footer(h, bp, asize, 1)
                 t == bp + asize
             IN  add_free_block(set_header_and_footer(h1, t, csize - asize, 0), t)
        ELSE list_remove(set_header_and_footer(h, bp, csize, 1), bp)

(* place: split off a free remainder of at least the minimum block size, *)
(* otherwise use the whole block.  csize - asize is a size_t.              *)
place(h, bp, asize) ==
  LET csize == blk_size(h, bp)
  IN  IF csize < asize \/ csize - asize >= MIN_BLOCK_SIZE_WORDS
        THEN LET h1 == list_remove(set_header_and_footer(h, bp, asize, 1), bp)
                 t == bp + asize
             IN  add_free_block(set_header_and_footer(h1, t, csize - asize, 0), t)
        ELSE list_remove(set_header_and_footer(h, bp, csize, 1), bp)

(* mm_malloc: [h, ret] with ret the payload address or 0 (NULL, for size *)
(* 0, or after extend_heap crashed).  The size_t overflow test of line    *)
(* 240 needs a request near SIZE_MAX.                                     *)
mm_malloc(h, size) ==
  IF size = 0 THEN [h |-> h, ret |-> 0]
  ELSE LET h0 == IF h.listp = 0 THEN mm_init(h).h ELSE h
           awords == max(MIN_BLOCK_SIZE_WORDS, align(size + 2 * WSIZE) \div WSIZE)
           fit == find_fit(h0, awords)
           ext == extend_heap(h0, max(awords, CHUNKSIZE))
       IN  CASE fit # 0      -> [h |-> place(h0, fit, awords), ret |-> fit + 1]
             [] ext.ret # 0  -> [h |-> place(ext.h, ext.ret, awords),
                                 ret |-> ext.ret + 1]
             [] OTHER        -> [h |-> ext.h, ret |-> 0]

(* Mutant: mark_block_used where mark_block_free was meant.               *)
MmFreeMarkUsed(h, bp) ==
  IF bp = 0 THEN h
  ELSE LET blk == bp - 1
       IN  coalesce(set_header_and_footer(h, blk, blk_size(h, blk), 1), blk).h

(* mm_free: mark the block free and coalesce.                             *)
mm_free(h, bp) ==
  IF bp = 0 THEN h
  ELSE LET blk == bp - 1
       IN  coalesce(set_header_and_footer(h, blk, blk_size(h, blk), 0), blk).h

(* Mutant: the copy length is taken in words, not converted to bytes.    *)
CopyLenWords(words, size) == IF size < words THEN size ELSE words

(* bytesize = blk_size(b) * WSIZE, cut to size: how much realloc copies.  *)
CopyLen(words, size) ==
  IF size < words * WSIZE THEN size ELSE words * WSIZE

(* The test mm_realloc uses to keep the (possibly merged) block:          *)
(* blk_size(oldblk) >= size, a size in words against one in bytes.         *)
Fits(words, size) == words >= size

(* Mutant: the right neighbour is absorbed without checking it is free.  *)
ReallocAbsorbUsedRight(h, ptr, size, how) ==
  LET old == ptr - 1
      prev_alloc == prev_blk_footer(h, old).inuse = 1
      next_alloc == ~blk_free(h, next_blk(h, old))
      right == next_blk(h, old)
      h1 == set_header_and_footer(list_remove(h, right), old,
                                  blk_size(h, old) + blk_size(h, right), 1)
      left == prev_blk(h1, old)
      h2 == IF prev_alloc THEN h1
            ELSE set_header_and_footer(list_remove(h1, left), left,
                                       blk_size(h1, old) + blk_size(h1, left), 1)
      blk == IF prev_alloc THEN old ELSE left
      m == mm_malloc(h2, size)
      copied == Memcpy(m.h, m.ret, ptr, CopyLen(blk_size(m.h, old), size), how)
  IN  CASE size = 0   -> [h |-> mm_free(h, ptr), ret |-> 0]
        [] ptr = 0    -> mm_malloc(h, size)
        [] Fits(blk_size(h1, old), size) -> [h |-> h1, ret |-> ptr]
        [] Fits(blk_size(h2, blk), size) ->
             [h |-> Memcpy(h2, blk + 1, ptr, CopyLen(blk_size(h2, blk), size), how),
              ret |-> blk + 1]
        [] m.ret = 0  -> [h |-> m.h, ret |-> 0]
        [] OTHER      -> [h |-> mm_free(copied, blk + 1), ret |-> m.ret]

(* mm_realloc(ptr, size): [h, ret].  size 0 frees, a NULL ptr mallocs.     *)
(* Otherwise a free right neighbour is absorbed first; if the block now   *)
(* "fits" it is returned.  Else a free left neighbour is absorbed and the *)
(* data moved down into it (memcpy over overlapping regions); if that     *)
(* still does not fit, mm_malloc, copy from the old header's size, and    *)
(* free the merged block.  If mm_malloc returns NULL (here only after a   *)
(* crash), NULL is returned with the neighbours already absorbed.         *)
mm_realloc(h, ptr, size, how) ==
  LET old == ptr - 1
      prev_alloc == prev_blk_footer(h, old).inuse = 1
      next_alloc == ~blk_free(h, next_blk(h, old))
      right == next_blk(h, old)
      h1 == IF next_alloc THEN h
            ELSE set_header_and_footer(list_remove(h, right), old,
                                       blk_size(h, old) + blk_size(h, right), 1)
      left == prev_blk(h1, old)
      h2 == IF prev_alloc THEN h1
            ELSE set_header_and_footer(list_remove(h1, left), left,
                                       blk_size(h1, old) + blk_size(h1, left), 1)
      blk == IF prev_alloc THEN old ELSE left
      m == mm_malloc(h2, size)
      copied == Memcpy(m.h, m.ret, ptr, CopyLen(blk_size(m.h, old), size), how)
  IN  CASE size = 0   -> [h |-> mm_free(h, ptr), ret |-> 0]
        [] ptr = 0    -> mm_malloc(h, size)
        [] Fits(blk_size(h1, old), size) -> [h |-> h1, ret |-> ptr]
        [] Fits(blk_size(h2, blk), size) ->
             [h |-> Memcpy(h2, blk + 1, ptr, CopyLen(blk_size(h2, blk), size), how),
              ret |-> blk + 1]
        [] m.ret = 0  -> [h |-> m.h, ret |-> 0]
        [] OTHER      -> [h |-> mm_free(copied, blk + 1), ret |-> m.ret]

-----------------------------------------------------------------------------
(* The client (the trace driver): each call is one step.  A client owns   *)
(* the blocks whose payload addresses it holds in `live`, and marks the   *)
(* first and last word of what it asked for with a token of its own.      *)
(* After a crash the process is gone and no call is made.                 *)

VARIABLES
  heap,   \* [tags, data, bins, brk, listp, st]; listp = 0: heap_listp
          \* NULL; st = "crashed": a write through a failed sbrk's pointer
  live,   \* payload address -> [tok, req, offs]: the client's blocks
  ops     \* calls made so far

vars == <<heap, live, ops>>

Marks(req) == {0, (req - 1) \div WSIZE}

(* The client writes its token at the marked words of a new block.         *)
Fill(h, p, tok, offs) ==
  LET RECURSIVE F(_, _)
      F(g, S) == IF S = {} THEN g
                 ELSE LET o == CHOOSE o \in S : TRUE
                      IN  F(WriteData(g, p + o, tok), S \ {o})
  IN  F(h, offs)

Init ==
  /\ heap = [tags |-> <<>>, data |-> <<>>, bins |-> [s \in BinSizes |-> <<>>],
             brk |-> 0, listp |-> 0, st |-> "ok"]
  /\ live = <<>>
  /\ ops = 0

MmInit ==
  /\ ops < MaxOps
  /\ heap.st = "ok"
  /\ heap.listp = 0
  /\ heap' = mm_init(heap).h
  /\ ops' = ops + 1
  /\ UNCHANGED live

Malloc ==
  /\ ops < MaxOps
  /\ heap.st = "ok"
  /\ \E size \in Sizes \cup {0} :
       \E r \in {mm_malloc(heap, size)} :
           IF r.ret = 0
             THEN heap' = r.h /\ UNCHANGED live
             ELSE /\ heap' = Fill(r.h, r.ret, ops + 1, Marks(size))
                  /\ live' = (r.ret :> [tok |-> ops + 1, req |-> size,
                                        offs |-> Marks(size)]) @@ live
  /\ ops' = ops + 1

(* free(NULL) is allowed once the heap exists (mm_free asserts it does). *)
Free ==
  /\ ops < MaxOps
  /\ heap.st = "ok"
  /\ heap.listp # 0
  /\ \E p \in DOMAIN live \cup {0} :
       /\ heap' = mm_free(heap, p)
       /\ live' = Drop(live, p)
  /\ ops' = ops + 1

(* realloc: on success the client's data moves to the returned block,     *)
(* cut to the new size; on failure the client keeps the old block.        *)
Realloc ==
  /\ ops < MaxOps
  /\ heap.st = "ok"
  /\ heap.listp # 0
  /\ \E p \in DOMAIN live \cup {0}, size \in Sizes \cup {0},
        how \in MemcpyOutcomes :
       \E r \in {mm_realloc(heap, p, size, how)} :
           CASE size = 0 ->
                  heap' = r.h /\ live' = Drop(live, p)
             [] p = 0 /\ r.ret # 0 ->
                  /\ heap' = Fill(r.h, r.ret, ops + 1, Marks(size))
                  /\ live' = (r.ret :> [tok |-> ops + 1, req |-> size,
                                        offs |-> Marks(size)]) @@ live
             [] r.ret = 0 ->
                  heap' = r.h /\ UNCHANGED live
             [] OTHER ->
                  /\ heap' = r.h
                  /\ live' = (r.ret :> [live[p] EXCEPT !.req = size,
                                  !.offs = {o \in @ : o * WSIZE < size}])
                             @@ Drop(live, p)
  /\ ops' = ops + 1

Next == MmInit \/ Malloc \/ Free \/ Realloc

Spec == Init /\ [][Next]_vars

-----------------------------------------------------------------------------
(* Invariants.                                                             *)

(* The blocks from heap_listp, following the sizes in their headers.      *)
RECURSIVE Walk(_, _)
Walk(h, a) ==
  IF a >= h.brk - 1 \/ blk_size(h, a) = 0 THEN <<>>
  ELSE <<a>> \o Walk(h, a + blk_size(h, a))

Blocks == IF heap.listp = 0 THEN <<>> ELSE Walk(heap, heap.listp)
UsedBlocks == {b \in Range(Blocks) : ~blk_free(heap, b)}
FreeBlocks == {b \in Range(Blocks) : blk_free(heap, b)}
Listed == UNION {Range(heap.bins[s]) : s \in BinSizes}

TypeOK ==
  /\ heap.brk \in 0..MaxHeapWords
  /\ heap.listp \in {0, 1}
  /\ heap.st \in {"ok", "crashed"}
  /\ \A a \in DOMAIN heap.tags :
       /\ a \in 0..(heap.brk - 1)
       /\ heap.tags[a] \in [size : 0..MaxHeapWords, inuse : {0, 1}]
  /\ \A a \in DOMAIN heap.data :
       a \in 0..(heap.brk - 1) /\ heap.data[a] \in {Link} \cup 1..MaxOps
  /\ heap.bins \in [BinSizes -> Seq(1..MaxHeapWords)]
  /\ \A p \in DOMAIN live :
       live[p] \in [tok : 1..MaxOps, req : Sizes, offs : SUBSET Nat]
  /\ ops \in 0..MaxOps

(* The heap is a chain of blocks from the prologue fence to the epilogue  *)
(* at the break, each at least the minimum size with its footer equal to  *)
(* its header, and no two free blocks adjacent: every path that frees     *)
(* memory (mm_free, extend_heap, place's split, realloc's absorption and  *)
(* its final free) leaves the heap coalesced.                              *)
HeapWellFormed ==
  heap.listp # 0 =>
    LET w == Blocks
        end == IF w = <<>> THEN heap.listp
               ELSE Last(w) + blk_size(heap, Last(w))
    IN  /\ TagAt(heap, heap.listp - 1) = FENCE
        /\ end = heap.brk - 1
        /\ TagAt(heap, end) = FENCE
        /\ \A i \in DOMAIN w :
             /\ blk_size(heap, w[i]) >= MIN_BLOCK_SIZE_WORDS
             /\ TagAt(heap, w[i] + blk_size(heap, w[i]) - 1) = TagAt(heap, w[i])
        /\ \A i \in 1..(Len(w) - 1) :
             ~(blk_free(heap, w[i]) /\ blk_free(heap, w[i + 1]))

(* The free lists hold exactly the free blocks of the heap, each once and *)
(* on the list add_free_block chooses for its current size: no path      *)
(* (place, coalesce, realloc's absorption of a neighbour) leaves a block  *)
(* listed after it was used or grown, or unlisted after it was freed.     *)
FreeListsExact ==
  /\ Listed = FreeBlocks
  /\ \A s \in BinSizes : IsInjective(heap.bins[s])
  /\ \A s, t \in BinSizes :
       s # t => Range(heap.bins[s]) \cap Range(heap.bins[t]) = {}
  /\ \A s \in BinSizes : \A b \in Range(heap.bins[s]) :
       s = Max({t \in BinSizes : t <= blk_size(heap, b)})

(* The used blocks are exactly the blocks of the client's pointers, and  *)
(* each has at least the payload the client asked for: mm_malloc's size  *)
(* arithmetic and mm_realloc's in-place test (words against bytes) never *)
(* hand out too little, and a failed realloc leaves the client's block    *)
(* where it was.                                                           *)
ClientBlocksValid ==
  /\ UsedBlocks = {p - 1 : p \in DOMAIN live}
  /\ \A p \in DOMAIN live :
       blk_size(heap, p - 1) * WSIZE - 2 * WSIZE >= live[p].req

(* The client's data is where it left it: mm_realloc's copies (within the *)
(* heap, overlapping or not, with the lengths it computes) move all of    *)
(* the first min(old, new) bytes, and nothing else writes into a block    *)
(* in use.                                                                 *)
DataPreserved ==
  \A p \in DOMAIN live : \A o \in live[p].offs :
    /\ p + o \in DOMAIN heap.data
    /\ heap.data[p + o] = live[p].tok

(* mm_malloc extends the heap only in its "case 2 - there is no block in *)
(* the free list we can use": a call that grows the heap leaves no free   *)
(* block that was already at least as large as the block it hands out.    *)
(* find_fit only searches the bins whose list_size is at least the        *)
(* request, so a fitting block in the bin below it is passed over.        *)
ExtendOnlyWithoutFit ==
  [][Malloc /\ heap.listp # 0 /\ heap'.brk > heap.brk =>
       \A b \in FreeBlocks, n \in UsedBlocks' \ UsedBlocks :
         blk_size(heap, b) < blk_size(heap', n)]_vars

-----------------------------------------------------------------------------
(* Refinement: the allocator keeps the promise of the header comment.     *)

(* The word the client reads at a (junk when no data was written there).  *)
DataAt(h, a) == IF a \in DOMAIN h.data THEN h.data[a] ELSE 0

(* The used blocks of heap h, from the heap walk.                         *)
UsedIn(h) ==
  IF h.listp = 0 THEN {}
  ELSE {b \in Range(Walk(h, h.listp)) : ~blk_free(h, b)}

(* The allocated blocks are the used blocks U of the heap walk, each with *)
(* its payload words (the block less header and footer), the client's     *)
(* request and what the client reads at the words it marked.              *)
AllocFrom(h, l, U) ==
  [p \in {b + 1 : b \in U} |->
     [words |-> blk_size(h, p - 1) - 2,
      req   |-> IF p \in DOMAIN l THEN l[p].req ELSE 0,
      data  |-> IF p \in DOMAIN l
                  THEN [o \in l[p].offs |-> DataAt(h, p + o)] ELSE <<>>]]

AllocIn(h, l) == AllocFrom(h, l, UsedIn(h))

AL == INSTANCE Allocator WITH alloc <- AllocIn(heap, live), WordBytes <- WSIZE, NULL <- 0

(* Every call of mm_malloc, mm_free and mm_realloc is a step of the       *)
(* header comment's allocator: a new block is large enough and apart from *)
(* the others, a free releases only its block, a realloc keeps the data   *)
(* up to the new size or, when it returns NULL, changes nothing; no call   *)
(* resizes, moves or writes into a block it was not given.                *)
(* This is AL!Spec, with the mapped blocks of each state computed once.  *)
AllocatorRefined ==
  /\ AL!Init
  /\ [][\E h \in {heap'}, l \in {live'} :
         AL!Step(AllocIn(heap, live), AllocIn(h, l))]_vars

====
