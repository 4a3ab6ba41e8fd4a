--------------------------------- MODULE Heap ---------------------------------
(***************************************************************************)
(* The heap, src/heap.cpp: a chain of blocks in the order of their         *)
(* addresses, some of which are on a list of free ones.  An address counts *)
(* bytes from the start of the heap.  The word before a block's links      *)
(* (head) is its size and, in bit 0, whether it is in use: only sizes that *)
(* are multiples of 4 leave that bit alone.                                *)
(*                                                                         *)
(* One caller at a time: neither kmalloc nor kfree takes a lock.           *)
(***************************************************************************)
EXTENDS Integers, SequencesExt, FiniteSets

CONSTANTS HeapSize,      \* heap->size
          Requests,      \* the sizes clients ask for
          MinSplitDelta, \* MIN_SPLIT_DELTA
          Null

Header  == 12  \* sizeof(block) - 2 * sizeof(void *)
MinAlloc == 8   \* MIN_ALLOC_SIZE

\* MIN_SPLIT_DELTA, 512, leaves room for a block when a size is rounded.
ASSUME HeapAssumption ==
  /\ HeapSize \in Nat /\ Requests \subseteq Nat
  /\ MinSplitDelta \in Nat /\ MinSplitDelta >= Header + 3
  /\ Null \notin Nat

VARIABLES
  alloc,  \* heap->alloc
  head,   \* the head words, by address; the chain is in address order
  chain,  \* the addresses of the blocks from heap->f to heap->l
  ff,     \* the addresses on the free list, from heap->ff
  lf,     \* heap->lf
  held    \* what clients have: [at |-> what malloc returned, size |-> asked for]

vars == <<alloc, head, chain, ff, lf, held>>

\* Mutant: sizes are not rounded.
WordUnaligned(n) == n
Word(n) == ((n + 3) \div 4) * 4

Used(h, b)  == h[b] % 2 = 1
Size(h, b)  == h[b] - (h[b] % 2)
Mark(h, b)  == [h EXCEPT ![b] = @ + 1 - (@ % 2)]
Clear(h, b) == [h EXCEPT ![b] = @ - (@ % 2)]

Data(b)     == b + Header
BlockOf(p)  == p - Header

\* Where b is in the chain.
Position(b) == CHOOSE i \in DOMAIN chain : chain[i] = b

Init ==
  /\ alloc = 0
  /\ head = <<>> /\ chain = <<>>
  /\ ff = <<>> /\ lf = Null
  /\ held = {}

-----------------------------------------------------------------------------
(* The list of free blocks, as a pair of its nodes and of heap->lf.        *)

List == [nodes |-> ff, last |-> lf]

\* detach
Detach(list, b) ==
  LET i == CHOOSE k \in DOMAIN list.nodes : list.nodes[k] = b
  IN  [nodes |-> RemoveAt(list.nodes, i),
       last  |-> IF i < Len(list.nodes) THEN list.last
                 ELSE IF i = 1 THEN Null ELSE list.nodes[i - 1]]

\* mark_as_free, the list: after the last block from heap->lf backwards that
\* is smaller.  With heap->lf NULL, which it stays, that is at the front.
Insert(list, h, b) ==
  LET smaller == {k \in DOMAIN list.nodes : Size(h, list.nodes[k]) < Size(h, b)}
      at == IF list.last = Null \/ smaller = {} THEN 0
            ELSE CHOOSE k \in smaller : \A j \in smaller : j <= k
  IN  [nodes |-> InsertAt(list.nodes, at + 1, b),
       last  |-> IF at > 0 /\ at = Len(list.nodes) THEN b ELSE list.last]

SetList(list) == ff' = list.nodes /\ lf' = list.last

-----------------------------------------------------------------------------
(* heap_malloc.                                                            *)

\* find_block: the first one on the list that is large enough.  Mutant: its
\* size is not looked at.
FittingAny(n) == DOMAIN ff

Fitting(n) == {k \in DOMAIN ff : Size(head, ff[k]) >= n}
FindBlock(n) == ff[CHOOSE k \in Fitting(n) : \A j \in Fitting(n) : k <= j]

\* extend_heap with heap_sbrk
Extend(n) ==
  /\ alloc + Word(n + Header) <= HeapSize
  /\ alloc' = alloc + Word(n + Header)
  /\ chain' = Append(chain, alloc)
  /\ head' = Mark([b \in DOMAIN head \cup {alloc} |->
                     IF b = alloc THEN Word(n + Header) - Header ELSE head[b]], alloc)
  /\ UNCHANGED <<ff, lf>>

\* split: b keeps n bytes of data, and what is left is a free block.
Split(b, n) ==
  LET other == b + Header + Word(n)
      h == [x \in DOMAIN head \cup {other} |->
              CASE x = b -> Word(n)
                [] x = other -> head[b] - Word(n) - Header
                [] OTHER -> head[x]]
  IN  /\ head' = Mark(h, b)
      /\ chain' = InsertAt(chain, Position(b) + 1, other)
      /\ SetList(Insert(Detach(List, b), h, other))

Take(b) ==
  /\ SetList(Detach(List, b))
  /\ head' = Mark(head, b)
  /\ UNCHANGED chain

\* heap_malloc with get_block; NULL, and nothing changes, when the heap
\* cannot be extended.
Malloc(size) ==
  LET n == IF size < MinAlloc THEN MinAlloc ELSE size
      Return(b) == held' = held \cup {[at |-> Data(b), size |-> size]}
  IN  \/ Fitting(n) = {} /\ Extend(n) /\ Return(alloc)
      \/ /\ Fitting(n) # {}
         /\ LET b == FindBlock(n)
            IN  /\ IF Size(head, b) >= MinSplitDelta + n THEN Split(b, n) ELSE Take(b)
                /\ Return(b)
         /\ UNCHANGED alloc

-----------------------------------------------------------------------------
(* heap_free.                                                              *)

\* mark_as_free
MarkAsFree(list, h, b) ==
  /\ head' = Clear(h, b)
  /\ SetList(Insert(list, Clear(h, b), b))

\* merge of a free block with the ith, after it.  The used bit of the latter
\* is added to the size and cleared.
Join(i) ==
  LET left == chain[i - 1]
      b == chain[i]
      h == [x \in DOMAIN head \ {b} |->
              IF x = left THEN head[left] + Header + head[b] ELSE head[x]]
  IN  /\ MarkAsFree(Detach(List, left), h, left)
      /\ chain' = RemoveAt(chain, i)

\* With a free block on its left only, that block is marked as free again and
\* the one the client gave back stays in use; a free block on its right is
\* never merged with it.
Free(r) ==
  LET b == BlockOf(r.at)
      i == Position(b)
      leftFree  == i > 1 /\ ~Used(head, chain[i - 1])
      rightFree == i < Len(chain) /\ ~Used(head, chain[i + 1])
  IN  /\ held' = held \ {r}
      /\ UNCHANGED alloc
      /\ \/ leftFree /\ rightFree /\ Join(i)
         \/ /\ leftFree /\ ~rightFree
            /\ MarkAsFree(Detach(List, chain[i - 1]), head, chain[i - 1])
            /\ UNCHANGED chain
         \/ /\ ~leftFree
            /\ MarkAsFree(List, head, b)
            /\ UNCHANGED chain

-----------------------------------------------------------------------------

Next == (\E size \in Requests : Malloc(size)) \/ (\E r \in held : Free(r))

Spec == Init /\ [][Next]_vars

-----------------------------------------------------------------------------
(* Properties.                                                             *)

\* After any sequence of allocations and frees, the blocks of the chain cover
\* the heap up to heap->alloc without a gap or an overlap, and the free list
\* holds each block that is not in use once, heap->lf being its last if set.
BlocksTile ==
  /\ chain = <<>> => alloc = 0
  /\ chain # <<>> => chain[1] = 0
  /\ \A i \in DOMAIN chain :
       chain[i] + Header + Size(head, chain[i]) =
         (IF i = Len(chain) THEN alloc ELSE chain[i + 1])
  /\ ToSet(ff) = {b \in ToSet(chain) : ~Used(head, b)}
  /\ IsInjective(ff)
  /\ lf # Null => lf = Last(ff)

\* The arena the heap stands for: a client gets bytes that no other client
\* has, inside the heap, and no call for another range changes that.
Arena == INSTANCE Allocator WITH ArenaSize <- HeapSize, lent <- held

ImplementsAllocator == Arena!Spec

=============================================================================
