-------------------------- MODULE PageAllocProofs --------------------------
(***************************************************************************)
(* The page allocator is correct for every number of pages: its count is   *)
(* exact, its hint is sound, and it implements the page pool.              *)
(***************************************************************************)
EXTENDS PageAlloc, FiniteSetTheorems, WellFoundedInduction, TLAPS

(* A non-empty set of naturals has a least element.                        *)
LEMMA LeastNatural ==
  ASSUME NEW T, T \subseteq Nat, T # {}
  PROVE  \E x \in T : \A y \in T : x <= y
<1> DEFINE R == {ss \in Nat \X Nat : ss[1] < ss[2]}
<1>1. OpToRel(<, Nat) = R
  BY DEF OpToRel
<1>2. IsWellFoundedOn(R, Nat)
  BY <1>1, NatLessThanWellFounded, Zenon
<1> HIDE DEF R
<1>3. PICK x \in T : \A y \in T : ~ (<<y, x>> \in R)
  BY <1>2, WFMin
<1>4. \A y \in T : ~(y < x)
  BY <1>3 DEF R
<1> QED  BY <1>4

(* Remainders of the numbers the scan meets.                               *)
LEMMA SmallMod ==
  ASSUME NEW x \in Page
  PROVE  x % total_pages = x
BY PagesAssumption DEF Page

(* One turn around the range is undone by the remainder. *)
LEMMA WrappedMod ==
  ASSUME NEW x \in Page
  PROVE  (x + total_pages) % total_pages = x
BY PagesAssumption DEF Page

(* The hint after the last page is the first page. *)
LEMMA NextMod ==
  ASSUME NEW x \in Page
  PROVE  (x + 1) % total_pages = IF x + 1 = total_pages THEN 0 ELSE x + 1
<1>1. CASE x + 1 = total_pages
  <2>1. 0 \in Page /\ x + 1 = 0 + total_pages
    BY <1>1, PagesAssumption DEF Page
  <2> QED  BY <1>1, <2>1, WrappedMod
<1>2. CASE x + 1 # total_pages
  <2>1. x + 1 \in Page
    BY <1>2, PagesAssumption DEF Page
  <2> QED  BY <1>2, <2>1, SmallMod
<1> QED  BY <1>1, <1>2

(* The scan looks at managed pages only, and at every one of them.         *)
LEMMA ProbeIsPage ==
  ASSUME next_free_hint \in Page, NEW o \in Page
  PROVE  /\ Probe(o) \in Page
         /\ next_free_hint + o < total_pages => Probe(o) = next_free_hint + o
         /\ next_free_hint + o >= total_pages => Probe(o) = next_free_hint + o - total_pages
<1> DEFINE s == next_free_hint + o
<1>1. CASE s < total_pages
  <2>1. s \in Page
    BY <1>1, PagesAssumption DEF Page
  <2>2. s % total_pages = s
    BY <2>1, SmallMod
  <2> QED  BY <1>1, <2>1, <2>2, PagesAssumption DEF Probe, Page
<1>2. CASE s >= total_pages
  <2>1. s - total_pages \in Page /\ s = (s - total_pages) + total_pages
    BY <1>2, PagesAssumption DEF Page
  <2>2. s % total_pages = s - total_pages
    BY <2>1, WrappedMod
  <2> QED  BY <1>2, <2>1, <2>2, PagesAssumption DEF Probe, Page
<1> QED  BY <1>1, <1>2, PagesAssumption DEF Page

(* Every page is tested by some iteration of the scan. *)
LEMMA ProbeReachesAll ==
  ASSUME next_free_hint \in Page, NEW p \in Page
  PROVE  \E o \in Page : Probe(o) = p
<1>1. CASE p >= next_free_hint
  <2>1. p - next_free_hint \in Page /\ next_free_hint + (p - next_free_hint) = p
    BY <1>1, PagesAssumption DEF Page
  <2> QED  BY <2>1, SmallMod DEF Probe
<1>2. CASE p < next_free_hint
  <2>1. /\ p - next_free_hint + total_pages \in Page
        /\ next_free_hint + (p - next_free_hint + total_pages) = p + total_pages
    BY <1>2, PagesAssumption DEF Page
  <2> QED  BY <2>1, WrappedMod DEF Probe
<1> QED  BY <1>1, <1>2, PagesAssumption DEF Page

-----------------------------------------------------------------------------
Untaken == {p \in Page : ~page_bitmap[p]}

(* The inductive invariant: the fields that every operation relies on, the *)
(* exact count and the sound hint, which need each other.                  *)
PageInv ==
  /\ page_bitmap \in [Page -> BOOLEAN]
  /\ next_free_hint \in Page
  /\ page_result \in Page \cup {NULL}
  /\ free_pages = Cardinality(Untaken)
  /\ HintSound

(* The managed range is finite. *)
LEMMA PagesFinite == IsFiniteSet(Page) /\ Cardinality(Page) = total_pages
<1>1. 0 \in Int /\ total_pages - 1 \in Int /\ total_pages \in Nat \ {0}
  BY PagesAssumption
<1>2. IsFiniteSet(0 .. total_pages - 1)
      /\ Cardinality(0 .. total_pages - 1) = IF 0 > total_pages - 1 THEN 0 ELSE (total_pages - 1) - 0 + 1
  BY <1>1, FS_Interval
<1> QED  BY <1>1, <1>2 DEF Page

(* The count stays within its bounds, so the type invariant follows.       *)
LEMMA PageInvImpliesTypeOK == PageInv => PageTypeOK /\ FreeCountExact /\ HintSound
<1> SUFFICES ASSUME PageInv PROVE PageTypeOK /\ FreeCountExact /\ HintSound
  OBVIOUS
<1>1. Untaken \subseteq Page
  BY DEF Untaken
<1>2. Cardinality(Untaken) \in Nat /\ Cardinality(Untaken) <= total_pages
  BY <1>1, PagesFinite, FS_Subset, FS_CardinalityType
<1> QED  BY <1>2, PagesAssumption DEF PageInv, PageTypeOK, FreeCountExact, Untaken

(* page_init() establishes the invariant. *)
LEMMA PageInitInv == PageInit => PageInv
<1> SUFFICES ASSUME PageInit PROVE PageInv
  OBVIOUS
<1>1. Untaken = Page
  BY DEF PageInit, Untaken
<1>2. 0 \in Page
  BY PagesAssumption DEF Page
<1> QED  BY <1>1, <1>2, PagesFinite, PagesAssumption DEF PageInit, PageInv, HintSound, Page

(* A successful page_alloc() keeps it. *)
LEMMA TakePageInv ==
  ASSUME PageInv, NEW offset \in Page, TakePage(offset)
  PROVE  PageInv'
<1> DEFINE i == Probe(offset)
<1>1. i \in Page /\ ~page_bitmap[i] /\ i \in Untaken
  BY ProbeIsPage DEF PageInv, TakePage, Untaken
<1>2. page_bitmap' = [page_bitmap EXCEPT ![i] = TRUE]
  BY DEF TakePage
<1>3. next_free_hint' = IF i + 1 = total_pages THEN 0 ELSE i + 1
  BY <1>1, NextMod DEF TakePage
<1>4. page_bitmap' \in [Page -> BOOLEAN]
  BY <1>1, <1>2 DEF PageInv
<1>5. next_free_hint' \in Page
  BY <1>1, <1>3, PagesAssumption DEF Page
<1>6. page_result' \in Page \cup {NULL}
  BY <1>1 DEF TakePage
<1>7. free_pages' = Cardinality(Untaken')
  <2>1. Untaken' = Untaken \ {i}
    BY <1>1, <1>2 DEF Untaken, PageInv
  <2>2. IsFiniteSet(Untaken)
    BY PagesFinite, FS_Subset DEF Untaken
  <2>3. Cardinality(Untaken \ {i}) = Cardinality(Untaken) - 1
    BY <1>1, <2>2, FS_RemoveElement
  <2> QED  BY <2>1, <2>3 DEF TakePage, PageInv
<1>8. HintSound'
  <2> SUFFICES ASSUME NEW p \in Page, p < next_free_hint' PROVE page_bitmap'[p]
    BY DEF HintSound
  <2>1. p <= i
    BY <1>1, <1>3, PagesAssumption DEF Page
  <2>2. CASE p = i
    BY <1>1, <1>2, <2>2 DEF PageInv
  <2>3. CASE p # i
    <3>1. page_bitmap'[p] = page_bitmap[p]
      BY <1>2, <2>3 DEF PageInv
    <3>2. CASE p < next_free_hint
      BY <3>1, <3>2 DEF PageInv, HintSound
    <3>3. CASE p >= next_free_hint
      <4>1. p - next_free_hint \in Page /\ next_free_hint + (p - next_free_hint) = p
        BY <3>3, PagesAssumption DEF PageInv, Page
      <4>2. Probe(p - next_free_hint) = p
        BY <4>1, SmallMod DEF Probe
      <4>3. p < i
        BY <2>1, <2>3, <1>1 DEF Page
      <4>4. p - next_free_hint < offset
        <5>1. next_free_hint \in Page
          BY DEF PageInv
        <5>2. i = next_free_hint + offset \/ i = next_free_hint + offset - total_pages
          BY <5>1, ProbeIsPage, PagesAssumption DEF Page
        <5> HIDE DEF i
        <5> QED  BY <4>3, <5>1, <5>2, <1>1, PagesAssumption DEF Page
      <4>5. p - next_free_hint \in 0 .. offset - 1
        BY <4>1, <4>4, PagesAssumption DEF Page
      <4> QED  BY <3>1, <4>2, <4>5 DEF TakePage
    <3> QED  BY <3>2, <3>3, PagesAssumption DEF PageInv, Page
  <2> QED  BY <2>2, <2>3
<1> QED  BY <1>4, <1>5, <1>6, <1>7, <1>8 DEF PageInv

(* page_free() keeps it. *)
LEMMA PageFreeInv ==
  ASSUME PageInv, NEW p \in Page, page_free(p)
  PROVE  PageInv'
<1>1. page_bitmap' = [page_bitmap EXCEPT ![p] = FALSE] /\ page_bitmap[p]
  BY DEF page_free
<1>2. next_free_hint' \in Page
  BY DEF page_free, PageInv
<1>3. free_pages' = Cardinality(Untaken')
  <2>1. Untaken' = Untaken \cup {p} /\ p \notin Untaken
    BY <1>1 DEF Untaken, PageInv
  <2>2. IsFiniteSet(Untaken)
    BY PagesFinite, FS_Subset DEF Untaken
  <2>3. Cardinality(Untaken \cup {p}) = Cardinality(Untaken) + 1
    BY <2>1, <2>2, FS_AddElement
  <2> QED  BY <2>1, <2>3 DEF page_free, PageInv
<1>4. HintSound'
  <2> SUFFICES ASSUME NEW q \in Page, q < next_free_hint' PROVE page_bitmap'[q]
    BY DEF HintSound
  <2>1. q # p /\ q < next_free_hint
    BY PagesAssumption DEF page_free, PageInv, Page
  <2> QED  BY <1>1, <2>1 DEF PageInv, HintSound
<1> QED  BY <1>1, <1>2, <1>3, <1>4 DEF PageInv, page_free

(* Every step of the allocator keeps it. *)
LEMMA PageStepInv == PageInv /\ [PageNext]_pagevars => PageInv'
<1> SUFFICES ASSUME PageInv, [PageNext]_pagevars PROVE PageInv'
  OBVIOUS
<1>1. CASE NoPageFound
  BY <1>1 DEF NoPageFound, PageInv, HintSound, Untaken
<1>2. ASSUME NEW offset \in 0 .. ScanLength - 1, TakePage(offset) PROVE PageInv'
  BY <1>2, TakePageInv DEF ScanLength, Page
<1>3. ASSUME NEW p \in Page, page_free(p) PROVE PageInv'
  BY <1>3, PageFreeInv
<1>4. CASE UNCHANGED pagevars
  BY <1>4 DEF pagevars, PageInv, HintSound, Untaken
<1> QED  BY <1>1, <1>2, <1>3, <1>4 DEF PageNext, page_alloc

(* The invariant holds in every reachable state. *)
LEMMA PageInvariant == PageSpec => []PageInv
BY PageInitInv, PageStepInv, PTL DEF PageSpec

(* The type invariant of page_alloc.c, for every number of pages.          *)
THEOREM PageTypeCorrect == PageSpec => []PageTypeOK
BY PageInvariant, PageInvImpliesTypeOK, PTL

(* page_free_count() always reports the number of free pages.              *)
THEOREM PageCountCorrect == PageSpec => []FreeCountExact
BY PageInvariant, PageInvImpliesTypeOK, PTL

(* No page below next_free_hint is ever free: page_alloc() is first-fit.   *)
THEOREM PageHintCorrect == PageSpec => []HintSound
BY PageInvariant, PageInvImpliesTypeOK, PTL

-----------------------------------------------------------------------------
(* Every step of the allocator is a step of the page pool.                 *)
LEMMA PageStepSimulates ==
  ASSUME PageInv, [PageNext]_pagevars
  PROVE  [Pool!Next]_<<Taken, page_result>>
<1>1. CASE NoPageFound
  <2>1. \A p \in Page : page_bitmap[p]
    BY <1>1, ProbeReachesAll DEF NoPageFound, ScanLength, Page, PageInv
  <2>2. Taken = Page /\ Taken' = Taken
    BY <1>1, <2>1 DEF Taken, NoPageFound
  <2> QED  BY <1>1, <2>2 DEF Pool!Next, Pool!Refuse, NoPageFound
<1>2. ASSUME NEW offset \in 0 .. ScanLength - 1, TakePage(offset) PROVE Pool!Next
  <2>1. Probe(offset) \in Page
    BY ProbeIsPage DEF PageInv, ScanLength, Page
  <2>2. /\ Probe(offset) \in Page \ Taken
        /\ Taken' = Taken \cup {Probe(offset)}
        /\ page_result' = Probe(offset)
    BY <1>2, <2>1 DEF TakePage, Taken, PageInv
  <2> QED  BY <2>2 DEF Pool!Next, Pool!Grant
<1>3. ASSUME NEW p \in Page, page_free(p) PROVE Pool!Next
  <2>1. p \in Taken /\ Taken' = Taken \ {p} /\ UNCHANGED page_result
    BY <1>3 DEF page_free, Taken, PageInv
  <2> QED  BY <2>1 DEF Pool!Next, Pool!GiveBack
<1>4. CASE UNCHANGED pagevars
  BY <1>4 DEF pagevars, Taken
<1> QED  BY <1>1, <1>2, <1>3, <1>4 DEF PageNext, page_alloc

(* page_alloc.c implements the page pool: a page is never handed out twice *)
(* and an allocation is refused only when no page is left.                 *)
THEOREM PageAllocImplementsPool == PageSpec => ImplementsPool
<1>1. PageInit => Pool!Init
  BY DEF PageInit, Pool!Init, Taken
<1>2. PageInv /\ [PageNext]_pagevars => [Pool!Next]_<<Taken, page_result>>
  BY PageStepSimulates
<1> QED  BY <1>1, <1>2, PageInvariant, PTL DEF PageSpec, ImplementsPool, Pool!Spec
=============================================================================
