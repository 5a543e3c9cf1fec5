------------------------------- MODULE MCHeap -------------------------------
(* Bounded instances of the heap for TLC. *)
EXTENDS Heap

(* Two classes whose pages hold two blocks and one block, scaled down from *)
(* 4 KiB pages and classes of 32 to 2048 bytes.                              *)
ClassSizes == <<2, 4>>
=============================================================================
