----------------------------- MODULE PageAlloc -----------------------------
(***************************************************************************)
(* The bitmap page allocator of kernel/memory/page_alloc.c.  Every entry   *)
(* point masks interrupts, so each call is one step.  Pages are named by   *)
(* their index in the managed range.                                       *)
(***************************************************************************)
EXTENDS Integers, FiniteSets

CONSTANTS
  total_pages,    \* pages in the managed range
  NULL

ASSUME PagesAssumption == total_pages \in Nat \ {0} /\ NULL \notin Nat

Page == 0 .. total_pages - 1

VARIABLES
  page_bitmap,     \* per page: is it allocated?
  free_pages,
  next_free_hint,
  page_result      \* what the last page_alloc() returned

pagevars == <<page_bitmap, free_pages, next_free_hint, page_result>>

(* page_init() *)
PageInit ==
  /\ page_bitmap = [p \in Page |-> FALSE]
  /\ free_pages = total_pages
  /\ next_free_hint = 0
  /\ page_result = NULL

(* The scan: its number of iterations, and the page iteration offset tests. *)
ScanLength_OneShort == total_pages - 1
ScanLength == total_pages
Probe(offset) == (next_free_hint + offset) % total_pages

TakePage_NoBitmapSet(offset) ==
  LET i == Probe(offset)
  IN  /\ ~page_bitmap[i]
      /\ \A o \in 0 .. offset - 1 : page_bitmap[Probe(o)]
      /\ free_pages' = free_pages - 1
      /\ next_free_hint' = (i + 1) % total_pages
      /\ page_result' = i
      /\ UNCHANGED page_bitmap

(* The scan finds a page: the first free one from the hint on, wrapping. *)
TakePage(offset) ==
  LET i == Probe(offset)
  IN  /\ ~page_bitmap[i]
      /\ \A o \in 0 .. offset - 1 : page_bitmap[Probe(o)]
      /\ page_bitmap' = [page_bitmap EXCEPT ![i] = TRUE]
      /\ free_pages' = free_pages - 1
      /\ next_free_hint' = (i + 1) % total_pages
      /\ page_result' = i

(* The scan ends without one. *)
NoPageFound ==
  /\ \A o \in 0 .. ScanLength - 1 : page_bitmap[Probe(o)]
  /\ page_result' = NULL
  /\ UNCHANGED <<page_bitmap, free_pages, next_free_hint>>

page_alloc == NoPageFound \/ \E offset \in 0 .. ScanLength - 1 : TakePage(offset)

page_free_KeepsCount(p) ==
  /\ page_bitmap[p]
  /\ page_bitmap' = [page_bitmap EXCEPT ![p] = FALSE]
  /\ next_free_hint' = IF p < next_free_hint THEN p ELSE next_free_hint
  /\ UNCHANGED <<free_pages, page_result>>

(* page_free() of an allocated page; of any other address it is a PANIC. *)
page_free(p) ==
  /\ page_bitmap[p]
  /\ page_bitmap' = [page_bitmap EXCEPT ![p] = FALSE]
  /\ free_pages' = free_pages + 1
  /\ next_free_hint' = IF p < next_free_hint THEN p ELSE next_free_hint
  /\ UNCHANGED page_result

PageNext == page_alloc \/ \E p \in Page : page_free(p)
PageSpec == PageInit /\ [][PageNext]_pagevars

-----------------------------------------------------------------------------
Taken == {p \in Page : page_bitmap[p]}

(* Type invariant of the allocator. *)
PageTypeOK ==
  /\ page_bitmap \in [Page -> BOOLEAN]
  /\ free_pages \in 0 .. total_pages
  /\ next_free_hint \in Page
  /\ page_result \in Page \cup {NULL}

(* page_free_count() is exact, through exhaustion and every order of frees. *)
FreeCountExact == free_pages = Cardinality({p \in Page : ~page_bitmap[p]})

(* The hint is sound: no page below it is free, whatever the order of frees, *)
(* so page_alloc() always returns the lowest free page and its scan never    *)
(* has to wrap around to find one.                                           *)
HintSound == \A p \in Page : p < next_free_hint => page_bitmap[p]

(* The allocator implements the page pool: it never hands out a page twice,  *)
(* and the scan from the hint refuses only when no page is left.             *)
Pool == INSTANCE PagePool WITH Pages <- Page, NoPage <- NULL, taken <- Taken, answer <- page_result
ImplementsPool == Pool!Spec
=============================================================================
