------------------------------ MODULE Allocator ------------------------------
(***************************************************************************)
(* What the header comment of src/malloclab/mm.c promises a client of      *)
(* mm_malloc, mm_free and mm_realloc, with no heap layout, lists or tags.  *)
(*                                                                         *)
(* The state is the set of allocated blocks: for each payload address the *)
(* payload's size in words, the request (bytes) it was handed out for, and *)
(* the client's data in it (word offset -> value).  An allocation adds a  *)
(* block at least as large as its request and overlapping no other; a free *)
(* removes one block; a reallocation replaces one block by another that   *)
(* keeps the data up to the new size, or fails and changes nothing.  No   *)
(* call touches a block it was not given.                                 *)
(***************************************************************************)
EXTENDS Integers, Functions, TLC

CONSTANTS
  WordBytes,   \* bytes per word
  NULL         \* the pointer no block has

VARIABLE alloc   \* payload address -> [words, req, data]

(* A block is its payload's words, between its header and footer; a block *)
(* never shares a word with another.                                      *)
Separate(a) ==
  \A p, q \in DOMAIN a : p < q => p + a[p].words <= q

(* A block holds the request it was handed out for.                       *)
Holds(r) == r.words * WordBytes >= r.req

(* The data a reallocation to size bytes keeps.                           *)
Kept(d, size) == Restrict(d, {o \in DOMAIN d : o * WordBytes < size})

Init == alloc = <<>>

(* From a to b one block p is added to the blocks of `rest`: new, large   *)
(* enough and apart from the others, which stay exactly as they were.     *)
GrantedOver(b, rest, p) ==
  /\ b = (p :> b[p]) @@ rest
  /\ Holds(b[p])
  /\ Separate(b)

(* Allocation: a block large enough for the request is found or the heap  *)
(* is extended for one; when neither works the call returns NULL.         *)
Allocate(a, b) ==
  \/ b = a
  \/ \E p \in DOMAIN b \ DOMAIN a : GrantedOver(b, a, p)

(* Freeing: the block is released (free(NULL) does nothing).              *)
Release(a, b, p) ==
  b = Restrict(a, DOMAIN a \ {p})

(* Reallocation: the block is resized, in place or by a new block the     *)
(* data is copied to; on failure the old block stays as it was.           *)
Reallocate(a, b, p) ==
  \/ b = a
  \/ \E q \in DOMAIN b \ (DOMAIN a \ {p}) :
       /\ GrantedOver(b, Restrict(a, DOMAIN a \ {p}), q)
       /\ b[q].data = Kept(a[p].data, b[q].req)

(* Each step from blocks a to blocks b is one call.                      *)
Step(a, b) ==
  \/ Allocate(a, b)
  \/ \E p \in DOMAIN a \cup {NULL} : Release(a, b, p)
  \/ \E p \in DOMAIN a : Reallocate(a, b, p)

Next == Step(alloc, alloc')

Spec == Init /\ [][Next]_alloc

=============================================================================
