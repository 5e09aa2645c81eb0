-------------------------------- MODULE MM2 --------------------------------
(***************************************************************************)
(* mm2.c, the draft allocator: one explicit free list kept in address      *)
(* order, first fit, boundary tags.                                        *)
(*                                                                         *)
(* Memory is counted in 4-byte words from the first byte mem_sbrk hands   *)
(* out (word 0); word -1 is the word of memlib's memory just before it.   *)
(* A word holds a boundary tag, one half of an 8-byte pointer, a client's  *)
(* data, or nothing the allocator wrote.  struct block is 24 bytes (the    *)
(* union of two pointers is 8-aligned): header at word 0, prev at word 2,  *)
(* next at word 4, payload at word 2.                                      *)
(*                                                                         *)
(* heap.st records how the last call ended: "ok"; "aborted" by an assert; *)
(* "hung" in a loop that never ends; "crashed" on a wild pointer; or       *)
(* "undefined": it read a tag or a pointer from a word that holds none,    *)
(* whose value depends on memlib's memory and on earlier traces, and the   *)
(* behaviour is not followed further.                                      *)
(***************************************************************************)
EXTENDS Integers, FiniteSets, TLC

CONSTANTS
  Alignment,            \* ALIGNMENT, from config.h
  MIN_BLOCK_SIZE_WORDS, \* used by place; not defined in mm2.c (config.h)
  MaxHeapWords,         \* memlib's MAX_HEAP, in words
  Sizes,                \* request sizes (bytes) the client passes
  MaxOps,               \* calls the client makes
  BeforeHeap,           \* what the word before the heap reads as
  NULL                  \* model value: the null pointer

ASSUME /\ Alignment \in {8, 16}
       /\ MIN_BLOCK_SIZE_WORDS \in Nat \ {0}
       /\ Sizes \subseteq Nat \ {0}
       /\ BeforeHeap \subseteq {"inuse", "zero", "other"}

DSIZE          == 8
MIN_BLOCK_SIZE == 16
CHUNKSIZE      == 4096     \* words
BlockWords     == 6        \* sizeof(struct block) / WSIZE
PrevOff        == 2        \* offsetof prev, and of payload, in words
NextOff        == 4

align(size) == ((size + Alignment - 1) \div Alignment) * Alignment
Maxi(x, y) == IF x > y THEN x ELSE y

(* Values of a word.  Raw(v): an unsigned int v stored where a            *)
(* boundary_tag is later read (inuse is bit 0, size bits 1-31).           *)
Tag(size, inuse) == [t |-> "tag", size |-> size, inuse |-> inuse]
Raw(v) == Tag(v \div 2, v % 2)
FENCE == Tag(0, 1)
Ptr(x, half) == [t |-> "ptr", to |-> x, half |-> half]
Data(tok) == [t |-> "data", tok |-> tok]

BeforeTag(b) == CASE b = "inuse" -> Tag(0, 1)
                  [] b = "zero"  -> Tag(0, 0)
                  [] b = "other" -> Tag(1, 0)

-----------------------------------------------------------------------------
(* Reading and writing words.                                              *)

IsTag(h, w) == w \in DOMAIN h.mem /\ h.mem[w].t = "tag"
SizeAt(h, w) == IF IsTag(h, w) THEN h.mem[w].size ELSE 0
IsPtr(h, w) == /\ {w, w + 1} \subseteq DOMAIN h.mem
               /\ h.mem[w].t = "ptr" /\ h.mem[w].half = 0
               /\ h.mem[w + 1] = Ptr(h.mem[w].to, 1)
PtrAt(h, w) == h.mem[w].to

PutTag(h, w, t) == [h EXCEPT !.mem = (w :> t) @@ @]
PutPtr(h, w, x) == [h EXCEPT !.mem = (w :> Ptr(x, 0)) @@ (w + 1 :> Ptr(x, 1)) @@ @]
Fail(h, st) == [h EXCEPT !.st = st]

(* The next statement runs only if the call has not already stopped.     *)
Bind(h, Op(_)) == IF h.st = "ok" THEN Op(h) ELSE h

set_header_and_footer(h, blk, size, inuse) ==
  PutTag(PutTag(h, blk, Tag(size, inuse)), blk + size - 1, Tag(size, inuse))
prev_blk_footer(bp) == bp - 1
prev_blk(h, bp) == bp - SizeAt(h, prev_blk_footer(bp))
next_blk(h, bp) == bp + SizeAt(h, bp)

mark_block_used(h, blk, size) == set_header_and_footer(h, blk, size, 1)
mark_block_free(h, blk, size) == set_header_and_footer(h, blk, size, 0)

-----------------------------------------------------------------------------
(* The free list.                                                          *)

(* The while loop of insert_free_block: stop at the first block at or    *)
(* above bp.  Coming back to a block already passed is a loop that never *)
(* ends.                                                                   *)
RECURSIVE InsertPos(_, _, _, _, _)
InsertPos(h, bp, prev, next, seen) ==
  IF next = NULL THEN [st |-> "ok", prev |-> prev, next |-> next]
  ELSE IF ~(bp > next) THEN [st |-> "ok", prev |-> prev, next |-> next]
  ELSE IF next \in seen THEN [st |-> "hung", prev |-> prev, next |-> next]
  ELSE IF ~IsPtr(h, next + NextOff)
    THEN [st |-> "undefined", prev |-> prev, next |-> next]
  ELSE InsertPos(h, bp, next, PtrAt(h, next + NextOff), seen \cup {next})

insert_free_block(h, bp) ==
  LET w  == InsertPos(h, bp, NULL, h.flp, {})
      h1 == IF w.prev = NULL THEN [h EXCEPT !.flp = bp]
            ELSE PutPtr(h, w.prev + NextOff, bp)
      h2 == PutPtr(PutPtr(h1, bp + PrevOff, w.prev), bp + NextOff, w.next)
  IN  IF w.st # "ok" THEN Fail(h, w.st)
      ELSE IF w.next = NULL THEN h2
      ELSE PutPtr(h2, w.next + PrevOff, bp)

remove_free_block(h, bp) ==
  LET prev == PtrAt(h, bp + PrevOff)
      next == PtrAt(h, bp + NextOff)
      h1 == IF prev = NULL THEN [h EXCEPT !.flp = next]
            ELSE PutPtr(h, prev + NextOff, next)
  IN  IF ~IsPtr(h, bp + PrevOff) \/ ~IsPtr(h, bp + NextOff)
        THEN Fail(h, "undefined")
      ELSE IF next = NULL THEN h1
      ELSE PutPtr(h1, next + PrevOff, prev)

(* First fit along the next pointers from free_listp.                     *)
RECURSIVE FitFrom(_, _, _, _)
FitFrom(h, bp, asize, seen) ==
  IF bp = NULL THEN [st |-> "ok", ret |-> NULL]
  ELSE IF bp \in seen THEN [st |-> "hung", ret |-> NULL]
  ELSE IF ~IsTag(h, bp) THEN [st |-> "undefined", ret |-> NULL]
  ELSE IF SizeAt(h, bp) >= asize THEN [st |-> "ok", ret |-> bp]
  ELSE IF ~IsPtr(h, bp + NextOff) THEN [st |-> "undefined", ret |-> NULL]
  ELSE FitFrom(h, PtrAt(h, bp + NextOff), asize, seen \cup {bp})

find_fit(h, asize) == FitFrom(h, h.flp, asize, {})

-----------------------------------------------------------------------------
(* The routines.  coalesce and extend_heap return [h, ret].                *)

(* The four cases of coalesce on the tags around bp.  prev_blk and        *)
(* next_blk assert that the tag they follow has a non-zero size.  Every   *)
(* case ends by inserting the result into the free list, whether or not   *)
(* bp was on it already.                                                  *)
coalesce(h, bp) ==
  LET pf   == prev_blk_footer(bp)
      size == SizeAt(h, bp)
      nb   == next_blk(h, bp)
      pb   == prev_blk(h, bp)
      prev_alloc == h.mem[pf].inuse = 1
      next_alloc == h.mem[nb].inuse = 1
      Merge(g, base, total) ==
        IF ~IsTag(g, base) THEN Fail(g, "undefined")
        ELSE insert_free_block(mark_block_free(g, base, total), base)
  IN  IF ~IsTag(h, pf) \/ ~IsTag(h, bp) THEN [h |-> Fail(h, "undefined"), ret |-> NULL]
      ELSE IF size = 0 THEN [h |-> Fail(h, "aborted"), ret |-> NULL]
      ELSE IF ~IsTag(h, nb) THEN [h |-> Fail(h, "undefined"), ret |-> NULL]
      ELSE IF ~prev_alloc /\ SizeAt(h, pf) = 0
        THEN [h |-> Fail(h, "aborted"), ret |-> NULL]
      ELSE CASE prev_alloc /\ next_alloc ->
                  [h |-> insert_free_block(h, bp), ret |-> bp]
             [] prev_alloc /\ ~next_alloc ->
                  [h |-> Bind(remove_free_block(h, nb),
                              LAMBDA g : Merge(g, bp, size + SizeAt(g, nb))),
                   ret |-> bp]
             [] ~prev_alloc /\ next_alloc ->
                  [h |-> Bind(remove_free_block(h, pb),
                              LAMBDA g : Merge(g, pb, size + SizeAt(g, pb))),
                   ret |-> pb]
             [] OTHER ->
                  [h |-> Bind(Bind(remove_free_block(h, nb),
                                   LAMBDA g : remove_free_block(g, pb)),
                              LAMBDA g : Merge(g, pb, size + SizeAt(g, nb)
                                                      + SizeAt(g, pb))),
                   ret |-> pb]

(* bp = mem_sbrk(words * WSIZE); the block starts at bp + 8 bytes minus   *)
(* sizeof(struct block), 4 words before bp.  mem_sbrk fails with          *)
(* (void * )-1, not the NULL the code checks for: the writes crash.       *)
extend_heap(h, words) ==
  LET blk == h.brk + PrevOff - BlockWords
      h1  == mark_block_free([h EXCEPT !.brk = @ + words], blk, words)
      h2  == PutTag(PutTag(h1, blk + words, FENCE), h.epi, Tag(0, 1))
  IN  IF h.brk + words > MaxHeapWords THEN [h |-> Fail(h, "crashed"), ret |-> NULL]
      ELSE coalesce(insert_free_block(h2, blk), blk)

(* mem_sbrk(4 * WSIZE), then the padding, prologue and epilogue words,    *)
(* written at heap_listp + k where heap_listp is a struct block *: k       *)
(* blocks of 24 bytes on.  heap_listp ends 8 blocks on.                    *)
mm_init(h) ==
  LET H  == h.brk
      h1 == [h EXCEPT !.brk = @ + 4, !.epi = H + 3 * 4 * BlockWords,
                      !.listp = H + 2 * 4 * BlockWords, !.flp = NULL]
      h2 == PutTag(PutTag(PutTag(PutTag(h1, H, Raw(0)),
                                  H + 1 * 4 * BlockWords, Raw(DSIZE + 1)),
                           H + 2 * 4 * BlockWords, Raw(DSIZE + 1)),
                    H + 3 * 4 * BlockWords, Raw(1))
  IN  extend_heap(h2, CHUNKSIZE).h

(* Split when the remainder is at least MIN_BLOCK_SIZE_WORDS.             *)
place(h, bp, asize) ==
  LET csize == SizeAt(h, bp)
  IN  IF ~IsTag(h, bp) THEN Fail(h, "undefined")
      ELSE IF csize - asize >= MIN_BLOCK_SIZE_WORDS
        THEN Bind(remove_free_block(h, bp),
                  LAMBDA g : insert_free_block(
                               mark_block_free(mark_block_used(g, bp, asize),
                                               bp + asize, csize - asize),
                               bp + asize))
      ELSE Bind(remove_free_block(h, bp), LAMBDA g : mark_block_used(g, bp, csize))

(* asize is a byte count (MIN_BLOCK_SIZE or align(size)) that find_fit,  *)
(* extend_heap and place take as words.                                    *)
mm_malloc(h, size) ==
  LET h0    == IF h.listp = NULL THEN mm_init(h) ELSE h
      asize == IF size <= DSIZE THEN MIN_BLOCK_SIZE ELSE align(size)
      f     == find_fit(h0, asize)
      e     == extend_heap(h0, Maxi(asize, CHUNKSIZE))
  IN  IF h0.st # "ok" \/ size = 0 THEN [h |-> h0, ret |-> NULL]
      ELSE IF f.st # "ok" THEN [h |-> Fail(h0, f.st), ret |-> NULL]
      ELSE IF f.ret # NULL
        THEN [h |-> place(h0, f.ret, asize), ret |-> f.ret + PrevOff]
      ELSE [h |-> Bind(e.h, LAMBDA g : place(g, e.ret, asize)),
            ret |-> IF e.ret = NULL THEN NULL ELSE e.ret + PrevOff]

(* The header update is commented out: the payload pointer itself is      *)
(* passed to coalesce as if it were the block.                            *)
mm_free(h, bp) ==
  IF bp = NULL \/ h.listp = NULL THEN h ELSE coalesce(h, bp).h

-----------------------------------------------------------------------------
(* A client (the trace driver) calling the allocator.  It writes its token *)
(* into the first and last word of each payload it is given.              *)

VARIABLES heap, live, ops
vars == <<heap, live, ops>>

Words(size) == (size + 3) \div 4
Fill(h, p, size, tok) ==
  [h EXCEPT !.mem = (p :> Data(tok)) @@ (p + Words(size) - 1 :> Data(tok)) @@ @]

Init ==
  /\ \E b \in BeforeHeap :
       heap = [mem |-> (-1 :> BeforeTag(b)), brk |-> 0, flp |-> NULL,
               listp |-> NULL, epi |-> NULL, st |-> "ok"]
  /\ live = {}
  /\ ops = 0

Call == ops < MaxOps /\ heap.st = "ok" /\ ops' = ops + 1

(* The driver calls mm_init once, before anything else.                   *)
MmInit ==
  /\ Call
  /\ ops = 0
  /\ heap' = mm_init(heap)
  /\ UNCHANGED live

Malloc ==
  /\ Call
  /\ \E size \in Sizes \cup {0} :
       \E r \in {mm_malloc(heap, size)} :
         IF r.ret = NULL \/ r.h.st # "ok"
           THEN heap' = r.h /\ UNCHANGED live
           ELSE /\ heap' = Fill(r.h, r.ret, size, ops + 1)
                /\ live' = live \cup {[ptr |-> r.ret, req |-> size, tok |-> ops + 1]}

Free ==
  /\ Call
  /\ \E c \in live :
       /\ heap' = mm_free(heap, c.ptr)
       /\ live' = live \ {c}

(* mm_realloc has an empty body: what it returns is indeterminate.        *)
Realloc ==
  /\ Call
  /\ live # {}
  /\ heap' = Fail(heap, "indeterminate")
  /\ UNCHANGED live

Next == MmInit \/ Malloc \/ Free \/ Realloc

Spec == Init /\ [][Next]_vars

-----------------------------------------------------------------------------
(* Properties.                                                             *)

TypeOK ==
  /\ heap.st \in {"ok", "aborted", "hung", "crashed", "undefined",
                  "indeterminate"}
  /\ heap.brk \in 0..MaxHeapWords
  /\ live \subseteq [ptr : Int, req : Sizes, tok : 1..MaxOps]
  /\ ops \in 0..MaxOps

(* Every call returns to the client with defined behaviour: the loops of *)
(* insert_free_block and find_fit end (the free list stays acyclic), no   *)
(* assertion of coalesce fails, every word read as a tag or a list        *)
(* pointer holds one, nothing is written past what mem_sbrk handed out,   *)
(* and mm_realloc returns a value.                                        *)
CallsComplete == heap.st = "ok"

====
