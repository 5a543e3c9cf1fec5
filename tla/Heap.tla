-------------------------------- MODULE Heap --------------------------------
(***************************************************************************)
(* The size-class heap of kernel/memory/heap.c on top of the page          *)
(* allocator, beside other kernel code that takes pages directly.  Every   *)
(* entry point masks interrupts, so each call is one step.  A block is     *)
(* named by its page and its index in the page's block area.               *)
(***************************************************************************)
EXTENDS PageAlloc, Sequences, SequencesExt, FiniteSetsExt

CONSTANTS
  heap_class_sizes,   \* sequence of block sizes, ascending
  BlockAreaBytes,     \* bytes of a page behind its heap header
  Sizes               \* sizes passed to kmalloc()

ASSUME HeapAssumption ==
  /\ BlockAreaBytes \in Nat /\ Sizes \subseteq Nat
  /\ heap_class_sizes \in Seq(1 .. BlockAreaBytes)
  /\ NULL \notin Page \X Nat

Class == DOMAIN heap_class_sizes
NoClass == 0

VARIABLES
  heap_pools,     \* per class: its pages, the newest first
  class_index,    \* per page: the class in its heap header, NoClass without magic
  free_list,      \* per page: its free blocks, as the linked list has them
  free_count,     \* per page
  allocated,      \* per page: the blocks whose bitmap bit is set
  heap_pages, heap_free_blocks_bytes, heap_allocated_blocks_bytes,
  heap_result,    \* what the last kmalloc() returned
  heap_panicked,
  raw             \* pages other kernel code has from page_alloc()

heapvars == <<heap_pools, class_index, free_list, free_count, allocated, heap_pages,
              heap_free_blocks_bytes, heap_allocated_blocks_bytes, heap_result, heap_panicked>>
allvars  == <<pagevars, heapvars, raw>>

BlockCount(c) == BlockAreaBytes \div heap_class_sizes[c]
Block(c) == 0 .. BlockCount(c) - 1

(* heap_init() *)
HeapInit ==
  /\ PageInit
  /\ heap_pools = [c \in Class |-> <<>>]
  /\ class_index = [p \in Page |-> NoClass]
  /\ free_list = [p \in Page |-> <<>>]
  /\ free_count = [p \in Page |-> 0]
  /\ allocated = [p \in Page |-> {}]
  /\ heap_pages = 0 /\ heap_free_blocks_bytes = 0 /\ heap_allocated_blocks_bytes = 0
  /\ heap_result = NULL /\ heap_panicked = FALSE
  /\ raw = {}

(* class_index_for_size(): 0 and sizes above the largest class have none. *)
class_index_for_size(size) ==
  LET fits == {c \in Class : size > 0 /\ size <= heap_class_sizes[c]}
  IN  IF fits = {} THEN NoClass ELSE Min(fits)

(* The page kmalloc() takes a block from without growing the pool, if any. *)
PageWithBlock(c) ==
  LET pool == heap_pools[c]
      free == {i \in DOMAIN pool : free_count[pool[i]] # 0}
  IN  IF free = {} THEN NULL ELSE pool[Min(free)]

(* heap_alloc_block() on page p of class c, whose free list is fl, with     *)
(* count free blocks; grown is the number of bytes the pool just grew by.   *)
heap_alloc_block(p, c, fl, count, grown) ==
  LET b == Head(fl)
  IN  IF fl = <<>> \/ count = 0 \/ b \notin Block(c) \/ b \in allocated[p]
      THEN /\ heap_panicked' = TRUE
           /\ UNCHANGED <<free_list, free_count, allocated, heap_free_blocks_bytes,
                          heap_allocated_blocks_bytes, heap_result>>
      ELSE /\ free_list' = [free_list EXCEPT ![p] = Tail(fl)]
           /\ free_count' = [free_count EXCEPT ![p] = count - 1]
           /\ allocated' = [allocated EXCEPT ![p] = @ \cup {b}]
           /\ heap_free_blocks_bytes' =
                heap_free_blocks_bytes + grown - heap_class_sizes[c]
           /\ heap_allocated_blocks_bytes' =
                heap_allocated_blocks_bytes + heap_class_sizes[c]
           /\ heap_result' = <<p, b>>
           /\ UNCHANGED heap_panicked

(* heap_grow_pool() builds the free list block by block, the last one first. *)
NewFreeList(c) == [i \in 1 .. BlockCount(c) |-> BlockCount(c) - i]

kmalloc_none(size) ==
  /\ class_index_for_size(size) = NoClass
  /\ heap_result' = NULL
  /\ UNCHANGED <<pagevars, heap_pools, class_index, free_list, free_count, allocated,
                 heap_pages, heap_free_blocks_bytes, heap_allocated_blocks_bytes, heap_panicked>>

kmalloc_reuse(size) ==
  LET c == class_index_for_size(size)
      p == PageWithBlock(c)
  IN  /\ c # NoClass /\ p # NULL
      /\ heap_alloc_block(p, c, free_list[p], free_count[p], 0)
      /\ UNCHANGED <<pagevars, heap_pools, class_index, heap_pages>>

kmalloc_grow(size) ==
  LET c == class_index_for_size(size)
      p == page_result'
  IN  /\ c # NoClass /\ PageWithBlock(c) = NULL
      /\ page_alloc
      /\ IF p = NULL
         THEN /\ heap_result' = NULL
              /\ UNCHANGED <<heap_pools, class_index, free_list, free_count, allocated, heap_pages,
                             heap_free_blocks_bytes, heap_allocated_blocks_bytes, heap_panicked>>
         ELSE /\ heap_pools' = [heap_pools EXCEPT ![c] = <<p>> \o @]
              /\ class_index' = [class_index EXCEPT ![p] = c]
              /\ heap_pages' = heap_pages + 1
              /\ heap_alloc_block(p, c, NewFreeList(c), BlockCount(c),
                                  BlockCount(c) * heap_class_sizes[c])

kmalloc(size) ==
  /\ ~heap_panicked /\ UNCHANGED raw
  /\ kmalloc_none(size) \/ kmalloc_reuse(size) \/ kmalloc_grow(size)

kfree_NoBitmap(p, b) ==
  LET c == class_index[p]
  IN  /\ ~heap_panicked /\ b \in allocated[p]
      /\ free_list' = [free_list EXCEPT ![p] = <<b>> \o @]
      /\ free_count' = [free_count EXCEPT ![p] = @ + 1]
      /\ heap_free_blocks_bytes' = heap_free_blocks_bytes + heap_class_sizes[c]
      /\ heap_allocated_blocks_bytes' = heap_allocated_blocks_bytes - heap_class_sizes[c]
      /\ UNCHANGED <<pagevars, heap_pools, class_index, heap_pages, heap_result, heap_panicked, raw, allocated>>

(* kfree() of a block somebody has; of any other pointer it is a PANIC. *)
kfree(p, b) ==
  LET c == class_index[p]
  IN  /\ ~heap_panicked /\ b \in allocated[p]
      /\ allocated' = [allocated EXCEPT ![p] = @ \ {b}]
      /\ free_list' = [free_list EXCEPT ![p] = <<b>> \o @]
      /\ free_count' = [free_count EXCEPT ![p] = @ + 1]
      /\ heap_free_blocks_bytes' = heap_free_blocks_bytes + heap_class_sizes[c]
      /\ heap_allocated_blocks_bytes' = heap_allocated_blocks_bytes - heap_class_sizes[c]
      /\ UNCHANGED <<pagevars, heap_pools, class_index, heap_pages, heap_result, heap_panicked, raw>>

(* Other kernel code: page tables, descriptors, bounce buffers. *)
TakeRawPage ==
  /\ ~heap_panicked
  /\ page_alloc
  /\ raw' = IF page_result' = NULL THEN raw ELSE raw \cup {page_result'}
  /\ UNCHANGED heapvars

FreeRawPage(p) ==
  /\ ~heap_panicked /\ p \in raw
  /\ page_free(p)
  /\ raw' = raw \ {p}
  /\ UNCHANGED heapvars

HeapNext ==
  \/ \E size \in Sizes : kmalloc(size)
  \/ \E p \in Page : \E b \in allocated[p] : kfree(p, b)
  \/ TakeRawPage
  \/ \E p \in Page : FreeRawPage(p)

HeapSpec == HeapInit /\ [][HeapNext]_allvars

-----------------------------------------------------------------------------
HeapPages(c) == ToSet(heap_pools[c])

(* The sum of the values a function gives to the pages. *)
PrefixSum(w) ==
  LET sum[n \in 0 .. total_pages] == IF n = 0 THEN 0 ELSE sum[n - 1] + w[n - 1]
  IN  sum
Total(w) == PrefixSum(w)[total_pages]

(* The bytes of as many blocks of each heap page as count says. *)
Bytes(count) ==
  Total([p \in Page |-> IF class_index[p] = NoClass THEN 0
                        ELSE count[p] * heap_class_sizes[class_index[p]]])

(* No interleaving of kmalloc() and kfree() over all the classes corrupts    *)
(* the heap so that heap_alloc_block() hits its PANICs.                      *)
NoHeapPanic == ~heap_panicked

(* In every heap page the free list and the bitmap are complementary: each   *)
(* block is on the free list once or allocated, never both, and free_count   *)
(* counts the list.                                                          *)
BlocksPartitioned ==
  \A p \in Page : class_index[p] # NoClass =>
    /\ ToSet(free_list[p]) = Block(class_index[p]) \ allocated[p]
    /\ Len(free_list[p]) = Cardinality(ToSet(free_list[p]))
    /\ free_count[p] = Len(free_list[p])

(* Every allocated page has one owner: one pool, or the code that took it.   *)
PagesHaveOneOwner ==
  /\ Taken = raw \cup UNION {HeapPages(c) : c \in Class}
  /\ \A c \in Class : /\ HeapPages(c) \cap raw = {}
                      /\ \A p \in HeapPages(c) : class_index[p] = c
                      /\ IsInjective(heap_pools[c])

(* The byte counters heap_free_bytes() and heap_allocated_bytes() report     *)
(* are those of the blocks.                                                  *)
BytesExact ==
  /\ heap_free_blocks_bytes = Bytes(free_count)
  /\ heap_allocated_blocks_bytes = Bytes([p \in Page |-> Cardinality(allocated[p])])

(* What the heap keeps in several places agrees after every sequence of      *)
(* calls, and so none of its PANICs is reached.                              *)
HeapInv == NoHeapPanic /\ BlocksPartitioned /\ BytesExact

(* kmalloc() of a supported size fails only when its class has no free block *)
(* and the page allocator has no page, and never gives out a block that      *)
(* somebody still has.                                                       *)
KmallocHonest ==
  [][\A size \in Sizes :
       kmalloc(size) /\ class_index_for_size(size) # NoClass =>
         LET c == class_index_for_size(size)
         IN  IF heap_result' = NULL
             THEN free_pages = 0 /\ \A p \in HeapPages(c) : free_list[p] = <<>>
             ELSE heap_result'[2] \notin allocated[heap_result'[1]]]_allvars
=============================================================================
