----------------------------- MODULE HeapProofs -----------------------------
(***************************************************************************)
(* The heap is correct for every number of pages and every table of size   *)
(* classes: no PANIC, no block given out twice, one owner per page, exact  *)
(* byte counters.                                                          *)
(***************************************************************************)
EXTENDS Heap, TidQueue, PageAllocProofs

(* Taking the head removes exactly that entry. *)
LEMMA TailSet ==
  ASSUME NEW S, NEW s \in Seq(S), s # <<>>
  PROVE  /\ Tail(s) \in Seq(S) /\ Head(s) \in S /\ Head(s) \in ToSet(s)
         /\ HasNoDuplicates(s) =>
              HasNoDuplicates(Tail(s)) /\ ToSet(Tail(s)) = ToSet(s) \ {Head(s)}
<1>1. /\ Len(s) \in Nat /\ Len(s) > 0 /\ DOMAIN s = 1 .. Len(s)
      /\ Tail(s) \in Seq(S) /\ Len(Tail(s)) = Len(s) - 1 /\ DOMAIN Tail(s) = 1 .. Len(s) - 1
      /\ \A k \in 1 .. Len(s) - 1 : Tail(s)[k] = s[k + 1]
      /\ Head(s) = s[1] /\ Head(s) \in S
  OBVIOUS
<1>2. Head(s) \in ToSet(s)
  BY <1>1 DEF ToSet
<1>3. ASSUME HasNoDuplicates(s)
      PROVE  HasNoDuplicates(Tail(s)) /\ ToSet(Tail(s)) = ToSet(s) \ {Head(s)}
  <2>1. HasNoDuplicates(Tail(s))
    <3> SUFFICES ASSUME NEW k \in 1 .. Len(s) - 1, NEW j \in 1 .. Len(s) - 1, Tail(s)[k] = Tail(s)[j]
                 PROVE  k = j
      BY <1>1 DEF HasNoDuplicates
    <3>1. k + 1 \in DOMAIN s /\ j + 1 \in DOMAIN s /\ s[k + 1] = s[j + 1]
      BY <1>1
    <3>2. k + 1 = j + 1
      BY <3>1, <1>3 DEF HasNoDuplicates
    <3> QED  BY <3>2, <1>1
  <2>2. ASSUME NEW x \in ToSet(s), x # Head(s) PROVE x \in ToSet(Tail(s))
    <3>1. PICK k \in 1 .. Len(s) : s[k] = x
      BY <1>1 DEF ToSet
    <3>2. k - 1 \in 1 .. Len(s) - 1 /\ Tail(s)[k - 1] = x
      BY <1>1, <2>2, <3>1
    <3> QED  BY <1>1, <3>2 DEF ToSet
  <2>3. ASSUME NEW x \in ToSet(Tail(s)) PROVE x \in ToSet(s) /\ x # Head(s)
    <3>1. PICK k \in 1 .. Len(s) - 1 : Tail(s)[k] = x
      BY <1>1 DEF ToSet
    <3>2. k + 1 \in DOMAIN s /\ 1 \in DOMAIN s /\ s[k + 1] = x /\ k + 1 # 1
      BY <1>1, <3>1
    <3> QED  BY <1>1, <1>3, <3>2 DEF ToSet, HasNoDuplicates
  <2> QED  BY <2>1, <2>2, <2>3
<1> QED  BY <1>1, <1>2, <1>3

(* Sums over the pages.  f holds the sums of w over the first 0 .. k pages. *)
Sums(f, w, k) ==
  /\ f \in [0 .. k -> Int] /\ f[0] = 0
  /\ \A n \in 1 .. k : f[n] = f[n - 1] + w[n - 1]

(* There are such sums, for every prefix of the pages. *)
LEMMA SumsExist ==
  ASSUME NEW w \in [Page -> Int]
  PROVE  \A k \in 0 .. total_pages : \E f : Sums(f, w, k)
<1> DEFINE T == {k \in 0 .. total_pages : ~\E f : Sums(f, w, k)}
<1>1. SUFFICES ASSUME T # {} PROVE FALSE
  OBVIOUS
<1>2. PICK k \in T : \A j \in T : k <= j
  <2>1. T \subseteq Nat
    BY PagesAssumption
  <2> QED  BY <1>1, <2>1, LeastNatural
<1>3. k \in 0 .. total_pages /\ ~\E f : Sums(f, w, k)
  OBVIOUS
<1>4. k # 0
  <2>1. Sums([n \in 0 .. 0 |-> 0], w, 0)
    BY DEF Sums
  <2> QED  BY <1>3, <2>1
<1>5. k - 1 \in 0 .. total_pages /\ k - 1 \notin T /\ k \in Nat \ {0} /\ k - 1 \in Page
  BY <1>2, <1>3, <1>4, PagesAssumption DEF Page
<1>6. PICK f : Sums(f, w, k - 1)
  BY <1>5
<1> DEFINE g == [n \in 0 .. k |-> IF n < k THEN f[n] ELSE f[k - 1] + w[k - 1]]
<1>7. g \in [0 .. k -> Int] /\ g[0] = 0
  <2>1. \A n \in 0 .. k - 1 : f[n] \in Int
    BY <1>6 DEF Sums
  <2>2. w[k - 1] \in Int /\ f[k - 1] \in Int
    BY <1>5, <2>1
  <2>3. f[0] = 0
    BY <1>6 DEF Sums
  <2>4. \A n \in 0 .. k : (IF n < k THEN f[n] ELSE f[k - 1] + w[k - 1]) \in Int
    BY <1>5, <2>1, <2>2
  <2> QED  BY <1>5, <2>3, <2>4
<1>8. \A n \in 1 .. k : g[n] = g[n - 1] + w[n - 1]
  <2>1. ASSUME NEW n \in 1 .. k, n < k PROVE g[n] = g[n - 1] + w[n - 1]
    BY <1>5, <1>6, <2>1 DEF Sums
  <2>2. g[k] = g[k - 1] + w[k - 1]
    BY <1>5
  <2>3. \A n \in 1 .. k : n < k \/ n = k
    BY <1>5
  <2> HIDE DEF g
  <2> QED  BY <2>1, <2>2, <2>3
<1> QED  BY <1>3, <1>7, <1>8 DEF Sums

(* PrefixSum(w) holds the sums of w. *)
LEMMA PrefixSumFacts ==
  ASSUME NEW w \in [Page -> Int]
  PROVE  Sums(PrefixSum(w), w, total_pages)
<1> DEFINE D == 0 .. total_pages
           E(f) == [n \in D |-> IF n = 0 THEN 0 ELSE f[n - 1] + w[n - 1]]
<1>1. total_pages \in Nat /\ total_pages \in D
  BY PagesAssumption
<1>2. PICK g : Sums(g, w, total_pages)
  BY <1>1, SumsExist
<1>3. g = E(g)
  BY <1>1, <1>2 DEF Sums
<1>4. PrefixSum(w) = CHOOSE f : f = E(f)
  BY DEF PrefixSum
<1>5. PrefixSum(w) = E(PrefixSum(w))
  BY <1>3, <1>4
<1> DEFINE f == PrefixSum(w)
           T == {n \in D : f[n] \notin Int}
<1>6. f = E(f)
  BY <1>5
<1> HIDE DEF f
<1>7. f[0] = 0 /\ \A n \in 1 .. total_pages : f[n] = f[n - 1] + w[n - 1]
  BY <1>1, <1>6
<1>8. T = {}
  <2>1. SUFFICES ASSUME T # {} PROVE FALSE
    OBVIOUS
  <2>2. PICK n \in T : \A j \in T : n <= j
    <3>1. T \subseteq Nat
      BY PagesAssumption
    <3> QED  BY <2>1, <3>1, LeastNatural
  <2>3. n \in 1 .. total_pages /\ n - 1 \in D /\ n - 1 \notin T /\ n - 1 \in Page
    BY <1>1, <1>7, <2>2 DEF Page
  <2>4. f[n - 1] \in Int /\ w[n - 1] \in Int
    BY <2>3
  <2> QED  BY <1>7, <2>2, <2>3, <2>4
<1>9. f \in [D -> Int]
  <2>1. f = [n \in D |-> f[n]]
    BY <1>6
  <2> QED  BY <1>8, <2>1
<1> QED  BY <1>7, <1>9 DEF Sums, f

(* The total after one page's value has changed. *)
LEMMA TotalChange ==
  ASSUME NEW w \in [Page -> Int], NEW v \in [Page -> Int], NEW p \in Page,
         \A q \in Page : q # p => v[q] = w[q]
  PROVE  Total(v) = Total(w) - w[p] + v[p] /\ Total(w) \in Int /\ Total(v) \in Int
<1> DEFINE f == PrefixSum(w)
           g == PrefixSum(v)
           d == v[p] - w[p]
           D == 0 .. total_pages
           T == {n \in D : g[n] # IF n <= p THEN f[n] ELSE f[n] + d}
<1>1. Sums(f, w, total_pages) /\ Sums(g, v, total_pages)
  BY PrefixSumFacts
<1>2. total_pages \in Nat \ {0} /\ total_pages \in D /\ d \in Int /\ p \in 0 .. total_pages - 1
  BY PagesAssumption DEF Page
<1> HIDE DEF f, g
<1>3. T = {}
  <2>1. SUFFICES ASSUME T # {} PROVE FALSE
    OBVIOUS
  <2>2. PICK n \in T : \A j \in T : n <= j
    <3>1. T \subseteq Nat
      BY <1>2
    <3> QED  BY <2>1, <3>1, LeastNatural
  <2>3. n # 0
    BY <1>1, <1>2, <2>2 DEF Sums
  <2>4. n \in 1 .. total_pages /\ n - 1 \in D /\ n - 1 \notin T /\ n - 1 \in Page
    BY <1>2, <2>2, <2>3 DEF Page
  <2>5. /\ f[n] = f[n - 1] + w[n - 1] /\ g[n] = g[n - 1] + v[n - 1]
        /\ f[n - 1] \in Int /\ g[n - 1] \in Int /\ w[n - 1] \in Int /\ v[n - 1] \in Int
    BY <1>1, <2>4 DEF Sums
  <2>6. g[n - 1] = IF n - 1 <= p THEN f[n - 1] ELSE f[n - 1] + d
    BY <2>4
  <2>7. v[n - 1] = IF n - 1 = p THEN w[n - 1] + d ELSE w[n - 1]
    BY <1>2, <2>4
  <2>8. g[n] = IF n <= p THEN f[n] ELSE f[n] + d
    <3> HIDE DEF d
    <3> QED  BY <1>2, <2>4, <2>5, <2>6, <2>7
  <2> QED  BY <2>2, <2>8
<1>4. g[total_pages] = f[total_pages] + d
  BY <1>2, <1>3
<1>5. f[total_pages] \in Int /\ g[total_pages] \in Int
  BY <1>1, <1>2 DEF Sums
<1>6. w[p] \in Int /\ v[p] \in Int
  OBVIOUS
<1> QED  BY <1>4, <1>5, <1>6 DEF Total, f, g

(* The total of nothing. *)
LEMMA TotalZero ==
  ASSUME NEW w \in [Page -> Int], \A p \in Page : w[p] = 0
  PROVE  Total(w) = 0
<1> DEFINE f == PrefixSum(w)
           D == 0 .. total_pages
           T == {n \in D : f[n] # 0}
<1>1. Sums(f, w, total_pages)
  BY PrefixSumFacts
<1>2. total_pages \in Nat \ {0} /\ total_pages \in D
  BY PagesAssumption
<1> HIDE DEF f
<1>3. T = {}
  <2>1. SUFFICES ASSUME T # {} PROVE FALSE
    OBVIOUS
  <2>2. PICK n \in T : \A j \in T : n <= j
    <3>1. T \subseteq Nat
      BY <1>2
    <3> QED  BY <2>1, <3>1, LeastNatural
  <2>3. n \in 1 .. total_pages /\ n - 1 \in D /\ n - 1 \notin T /\ n - 1 \in Page
    BY <1>1, <1>2, <2>2 DEF Page, Sums
  <2>4. f[n] = f[n - 1] + w[n - 1] /\ w[n - 1] = 0 /\ f[n - 1] = 0
    BY <1>1, <2>3 DEF Sums
  <2> QED  BY <2>2, <2>4
<1> QED  BY <1>2, <1>3 DEF Total, f

-----------------------------------------------------------------------------
(* The size classes: a page holds at least one block of each. *)
LEMMA ClassFacts ==
  /\ Class \subseteq Nat \ {0} /\ NoClass \notin Class
  /\ \A c \in Class : /\ heap_class_sizes[c] \in Nat \ {0} /\ BlockCount(c) \in Nat \ {0}
                      /\ Block(c) \subseteq Nat /\ IsFiniteSet(Block(c))
<1>1. /\ BlockAreaBytes \in Nat /\ heap_class_sizes \in Seq(1 .. BlockAreaBytes)
      /\ Class = 1 .. Len(heap_class_sizes) /\ Len(heap_class_sizes) \in Nat
  BY HeapAssumption DEF Class
<1>2. Class \subseteq Nat \ {0} /\ NoClass \notin Class
  BY <1>1 DEF NoClass
<1>3. ASSUME NEW c \in Class
      PROVE  /\ heap_class_sizes[c] \in Nat \ {0} /\ BlockCount(c) \in Nat \ {0}
             /\ Block(c) \subseteq Nat /\ IsFiniteSet(Block(c))
  <2>1. heap_class_sizes[c] \in 1 .. BlockAreaBytes
    BY <1>1
  <2> DEFINE s == heap_class_sizes[c]
             a == BlockAreaBytes
  <2>2. s \in Nat \ {0} /\ a \in Nat /\ s <= a
    BY <1>1, <2>1
  <2> HIDE DEF s, a
  <2>3. a \div s \in Nat \ {0}
    BY <2>2
  <2>4. BlockCount(c) \in Nat \ {0}
    BY <2>3 DEF BlockCount, s, a
  <2>5. Block(c) \subseteq Nat
    BY <2>4 DEF Block
  <2>6. IsFiniteSet(Block(c))
    BY <2>4, FS_Interval DEF Block
  <2> QED  BY <2>2, <2>4, <2>5, <2>6 DEF s
<1> QED  BY <1>2, <1>3

(* The free list fl of count blocks and the set alloc of allocated blocks   *)
(* share out the blocks of a page of class c.                               *)
Partition(c, fl, count, alloc) ==
  /\ fl \in Seq(Nat) /\ HasNoDuplicates(fl) /\ count = Len(fl)
  /\ alloc \subseteq Block(c) /\ ToSet(fl) = Block(c) \ alloc

(* heap_alloc_block() takes a block that nobody has. *)
LEMMA TakeBlock ==
  ASSUME NEW c \in Class, NEW fl, NEW count, NEW alloc, Partition(c, fl, count, alloc), fl # <<>>
  PROVE  /\ Partition(c, Tail(fl), count - 1, alloc \cup {Head(fl)})
         /\ Head(fl) \in Block(c) \ alloc /\ count # 0
         /\ Cardinality(alloc \cup {Head(fl)}) = Cardinality(alloc) + 1
<1>1. /\ Tail(fl) \in Seq(Nat) /\ Head(fl) \in ToSet(fl) /\ HasNoDuplicates(Tail(fl))
      /\ ToSet(Tail(fl)) = ToSet(fl) \ {Head(fl)}
  BY TailSet DEF Partition
<1>2. Len(fl) \in Nat \ {0} /\ Len(Tail(fl)) = Len(fl) - 1
  BY DEF Partition
<1>3. Head(fl) \in Block(c) \ alloc
  BY <1>1 DEF Partition
<1>4. IsFiniteSet(alloc)
  BY ClassFacts, FS_Subset DEF Partition
<1>5. Cardinality(alloc \cup {Head(fl)}) = Cardinality(alloc) + 1
  BY <1>3, <1>4, FS_AddElement
<1> QED  BY <1>1, <1>2, <1>3, <1>5 DEF Partition

(* kfree() puts a block back at the head of the list. *)
LEMMA GiveBlock ==
  ASSUME NEW c \in Class, NEW fl, NEW count, NEW alloc, Partition(c, fl, count, alloc),
         NEW b \in alloc
  PROVE  /\ Partition(c, <<b>> \o fl, count + 1, alloc \ {b})
         /\ Cardinality(alloc \ {b}) = Cardinality(alloc) - 1
<1> DEFINE l == <<b>> \o fl
<1>1. b \in Nat /\ b \notin ToSet(fl) /\ fl \in Seq(Nat) /\ b \in Block(c)
  BY ClassFacts DEF Partition
<1>2. /\ l \in Seq(Nat) /\ Len(l) = Len(fl) + 1 /\ Len(fl) \in Nat /\ l[1] = b
      /\ \A i \in 2 .. Len(fl) + 1 : l[i] = fl[i - 1]
  BY <1>1
<1>3. \A i \in 1 .. Len(fl) : fl[i] \in ToSet(fl)
  BY DEF ToSet
<1> HIDE DEF l
<1>4. DOMAIN l = 1 .. Len(fl) + 1 /\ DOMAIN fl = 1 .. Len(fl)
  BY <1>1, <1>2
<1>5. HasNoDuplicates(l)
  <2>1. ASSUME NEW i \in DOMAIN l, NEW j \in DOMAIN l, l[i] = l[j] PROVE i = j
    <3>1. CASE i = 1
      BY <1>1, <1>2, <1>3, <1>4, <2>1, <3>1
    <3>2. CASE j = 1
      BY <1>1, <1>2, <1>3, <1>4, <2>1, <3>2
    <3>3. CASE i # 1 /\ j # 1
      <4>1. i - 1 \in DOMAIN fl /\ j - 1 \in DOMAIN fl /\ fl[i - 1] = fl[j - 1]
        BY <1>2, <1>4, <2>1, <3>3
      <4>2. i - 1 = j - 1
        BY <4>1 DEF Partition, HasNoDuplicates
      <4> QED  BY <1>4, <4>2
    <3> QED  BY <3>1, <3>2, <3>3
  <2> QED  BY <2>1 DEF HasNoDuplicates
<1>6. ToSet(l) = ToSet(fl) \cup {b}
  <2>1. ASSUME NEW x \in ToSet(l) PROVE x \in ToSet(fl) \cup {b}
    <3>1. PICK i \in 1 .. Len(fl) + 1 : x = l[i]
      BY <1>4 DEF ToSet
    <3>2. i # 1 => i - 1 \in 1 .. Len(fl) /\ l[i] = fl[i - 1]
      BY <1>2
    <3> QED  BY <1>2, <1>3, <3>1, <3>2
  <2>2. b \in ToSet(l)
    BY <1>2, <1>4 DEF ToSet
  <2>3. ASSUME NEW x \in ToSet(fl) PROVE x \in ToSet(l)
    <3>1. PICK i \in 1 .. Len(fl) : x = fl[i]
      BY <1>4 DEF ToSet
    <3>2. i + 1 \in 1 .. Len(fl) + 1 /\ l[i + 1] = x
      BY <1>2, <3>1
    <3> QED  BY <1>4, <3>2 DEF ToSet
  <2> QED  BY <2>1, <2>2, <2>3
<1>7. IsFiniteSet(alloc)
  BY ClassFacts, FS_Subset DEF Partition
<1>8. Cardinality(alloc \ {b}) = Cardinality(alloc) - 1
  BY <1>7, FS_RemoveElement
<1>9. Partition(c, l, count + 1, alloc \ {b})
  BY <1>1, <1>2, <1>5, <1>6 DEF Partition
<1> QED  BY <1>8, <1>9 DEF l

(* The page heap_grow_pool() prepares. *)
LEMMA FreshBlocks ==
  ASSUME NEW c \in Class
  PROVE  Partition(c, NewFreeList(c), BlockCount(c), {}) /\ NewFreeList(c) # <<>>
<1> DEFINE n == BlockCount(c)
           l == NewFreeList(c)
<1>1. n \in Nat \ {0} /\ Block(c) = 0 .. n - 1
  BY ClassFacts DEF Block
<1>2. l = [i \in 1 .. n |-> n - i]
  BY DEF NewFreeList
<1> HIDE DEF n, l
<1>3. l \in Seq(Nat) /\ Len(l) = n /\ DOMAIN l = 1 .. n
  <2>1. l \in [1 .. n -> Nat]
    BY <1>1, <1>2
  <2> QED  BY <1>1, <2>1
<1>4. HasNoDuplicates(l)
  BY <1>1, <1>2, <1>3 DEF HasNoDuplicates
<1>5. ToSet(l) = 0 .. n - 1
  <2>1. ASSUME NEW b \in 0 .. n - 1 PROVE b \in ToSet(l)
    <3>1. n - b \in 1 .. n /\ l[n - b] = b
      BY <1>1, <1>2
    <3> QED  BY <1>3, <3>1 DEF ToSet
  <2>2. ASSUME NEW b \in ToSet(l) PROVE b \in 0 .. n - 1
    BY <1>1, <1>2, <1>3 DEF ToSet
  <2> QED  BY <2>1, <2>2
<1>6. l # <<>>
  BY <1>1, <1>3
<1> QED  BY <1>1, <1>3, <1>4, <1>5, <1>6 DEF Partition, n, l

-----------------------------------------------------------------------------
(* The bytes of cnt[p] blocks of every page p of the classes ci. *)
Weights(ci, cnt) ==
  [p \in Page |-> IF ci[p] = NoClass THEN 0 ELSE cnt[p] * heap_class_sizes[ci[p]]]

(* The counts n2 of the classes ci2 differ from n of ci in page p only. *)
OnePage(ci, n, ci2, n2, p) ==
  /\ ci \in [Page -> Class \cup {NoClass}] /\ ci2 \in [Page -> Class \cup {NoClass}]
  /\ n \in [Page -> Nat] /\ n2 \in [Page -> Nat]
  /\ \A q \in Page : q # p => ci2[q] = ci[q] /\ n2[q] = n[q]

(* One block more in page p of class c; and page p new in class c. *)
OneMore(ci, n, ci2, n2, p, c) ==
  OnePage(ci, n, ci2, n2, p) /\ ci[p] = c /\ ci2[p] = c /\ n2[p] = n[p] + 1
NewPage(ci, n, ci2, n2, p, c) ==
  OnePage(ci, n, ci2, n2, p) /\ ci[p] = NoClass /\ ci2[p] = c

(* The bytes after a block of page p has been added, *)
LEMMA BytesUp ==
  ASSUME NEW ci, NEW n, NEW ci2, NEW n2, NEW p \in Page, NEW c \in Class,
         OneMore(ci, n, ci2, n2, p, c)
  PROVE  /\ Total(Weights(ci2, n2)) = Total(Weights(ci, n)) + heap_class_sizes[c]
         /\ Total(Weights(ci, n)) \in Int
<1> DEFINE w == Weights(ci, n)
           v == Weights(ci2, n2)
           s == heap_class_sizes[c]
<1>1. w \in [Page -> Int] /\ v \in [Page -> Int]
  <2>1. \A k \in Class, i \in Nat : i * heap_class_sizes[k] \in Int
    BY ClassFacts
  <2> QED  BY <2>1 DEF Weights, OnePage, OneMore
<1>2. \A q \in Page : q # p => v[q] = w[q]
  BY DEF Weights, OnePage, OneMore
<1>3. v[p] = n2[p] * s /\ w[p] = n[p] * s
  BY ClassFacts DEF Weights, OneMore
<1>4. n[p] \in Nat /\ s \in Nat
  BY ClassFacts DEF OnePage, OneMore
<1> HIDE DEF w, v, s
<1>5. v[p] = w[p] + s
  <2>1. \A m \in Nat : (m + 1) * s = m * s + s
    BY <1>4
  <2>2. n2[p] = n[p] + 1
    BY DEF OneMore
  <2> QED  BY <1>3, <1>4, <2>1, <2>2
<1>6. Total(v) = Total(w) - w[p] + v[p] /\ Total(w) \in Int
  BY <1>1, <1>2, TotalChange
<1>7. w[p] \in Int
  BY <1>1
<1> QED  BY <1>4, <1>5, <1>6, <1>7 DEF w, v, s

(* and after page p has been added with n2[p] blocks. *)
LEMMA BytesNew ==
  ASSUME NEW ci, NEW n, NEW ci2, NEW n2, NEW p \in Page, NEW c \in Class,
         NewPage(ci, n, ci2, n2, p, c)
  PROVE  /\ Total(Weights(ci2, n2)) = Total(Weights(ci, n)) + n2[p] * heap_class_sizes[c]
         /\ Total(Weights(ci, n)) \in Int
<1> DEFINE w == Weights(ci, n)
           v == Weights(ci2, n2)
<1>1. w \in [Page -> Int] /\ v \in [Page -> Int]
  <2>1. \A k \in Class, i \in Nat : i * heap_class_sizes[k] \in Int
    BY ClassFacts
  <2> QED  BY <2>1 DEF Weights, OnePage, NewPage
<1>2. \A q \in Page : q # p => v[q] = w[q]
  BY DEF Weights, OnePage, NewPage
<1>3. v[p] = n2[p] * heap_class_sizes[c] /\ w[p] = 0
  BY ClassFacts DEF Weights, NewPage
<1> HIDE DEF w, v
<1>4. Total(v) = Total(w) - w[p] + v[p] /\ Total(w) \in Int
  BY <1>1, <1>2, TotalChange
<1>5. v[p] \in Int
  BY <1>1
<1>6. Total(v) = Total(w) + v[p]
  BY <1>3, <1>4, <1>5
<1> QED  BY <1>3, <1>4, <1>6 DEF w, v

(***************************************************************************)
(* The inductive invariant: the page allocator's, and per page which owner *)
(* it has and how its blocks are shared out.                               *)
(***************************************************************************)
HeapTyped ==
  /\ heap_pools \in [Class -> Seq(Page)] /\ class_index \in [Page -> Class \cup {NoClass}]
  /\ DOMAIN free_list = Page /\ free_count \in [Page -> Nat] /\ DOMAIN allocated = Page
  /\ raw \subseteq Page
  /\ \A c \in Class : HasNoDuplicates(heap_pools[c])

OwnerAgrees(p) ==
  /\ page_bitmap[p] <=> p \in raw \/ class_index[p] # NoClass
  /\ p \in raw => class_index[p] = NoClass
  /\ \A c \in Class : p \in ToSet(heap_pools[c]) <=> class_index[p] = c

BlocksAgree(p) ==
  /\ class_index[p] # NoClass => Partition(class_index[p], free_list[p], free_count[p], allocated[p])
  /\ class_index[p] = NoClass => allocated[p] = {}

HeapIInv ==
  /\ PageInv /\ HeapTyped /\ heap_panicked = FALSE
  /\ \A p \in Page : OwnerAgrees(p) /\ BlocksAgree(p)
  /\ BytesExact

(* The invariant says what the properties of the heap say. *)
LEMMA HeapIInvImplies == HeapIInv => HeapInv /\ PagesHaveOneOwner
<1> SUFFICES ASSUME HeapIInv PROVE HeapInv /\ PagesHaveOneOwner
  OBVIOUS
<1>1. NoHeapPanic /\ BytesExact
  BY DEF HeapIInv, NoHeapPanic
<1>2. BlocksPartitioned
  <2>1. ASSUME NEW p \in Page, class_index[p] # NoClass
        PROVE  /\ ToSet(free_list[p]) = Block(class_index[p]) \ allocated[p]
               /\ Len(free_list[p]) = Cardinality(ToSet(free_list[p]))
               /\ free_count[p] = Len(free_list[p])
    <3> DEFINE fl == free_list[p]
    <3>1. /\ fl \in Seq(Nat) /\ HasNoDuplicates(fl) /\ free_count[p] = Len(fl)
          /\ ToSet(fl) = Block(class_index[p]) \ allocated[p]
      BY <2>1 DEF HeapIInv, BlocksAgree, Partition
    <3> HIDE DEF fl
    <3>2. Len(fl) \in Nat /\ DOMAIN fl = 1 .. Len(fl)
      BY <3>1
    <3>3. fl \in Surjection(1 .. Len(fl), ToSet(fl)) /\ fl \in Injection(1 .. Len(fl), ToSet(fl))
      BY <3>1, <3>2 DEF Surjection, Injection, IsInjective, ToSet, HasNoDuplicates
    <3>4. IsFiniteSet(1 .. Len(fl)) /\ Cardinality(1 .. Len(fl)) = Len(fl)
      <4>1. /\ IsFiniteSet(1 .. Len(fl))
            /\ Cardinality(1 .. Len(fl)) = IF 1 > Len(fl) THEN 0 ELSE Len(fl) - 1 + 1
        BY <3>2, FS_Interval
      <4> QED  BY <3>2, <4>1
    <3>5. Cardinality(ToSet(fl)) = Cardinality(1 .. Len(fl))
      BY <3>3, <3>4, FS_Surjection
    <3> QED  BY <3>1, <3>4, <3>5 DEF fl
  <2> QED  BY <2>1 DEF BlocksPartitioned
<1>3. PagesHaveOneOwner
  <2>1. \A c \in Class : HeapPages(c) \subseteq Page
    BY DEF HeapIInv, HeapTyped, HeapPages, ToSet
  <2>2. Taken = raw \cup UNION {HeapPages(c) : c \in Class}
    <3>1. ASSUME NEW p \in Page
          PROVE  page_bitmap[p] <=> p \in raw \cup UNION {HeapPages(c) : c \in Class}
      <4>1. OwnerAgrees(p) /\ class_index[p] \in Class \cup {NoClass}
        BY DEF HeapIInv, HeapTyped
      <4> QED  BY <4>1, ClassFacts DEF OwnerAgrees, HeapPages
    <3>2. raw \subseteq Page
      BY DEF HeapIInv, HeapTyped
    <3> QED  BY <2>1, <3>1, <3>2 DEF Taken
  <2>3. ASSUME NEW c \in Class
        PROVE  /\ HeapPages(c) \cap raw = {} /\ \A p \in HeapPages(c) : class_index[p] = c
               /\ IsInjective(heap_pools[c])
    <3>1. ASSUME NEW p \in HeapPages(c) PROVE class_index[p] = c /\ p \notin raw
      <4>1. p \in Page /\ OwnerAgrees(p)
        BY <2>1 DEF HeapIInv
      <4> QED  BY <4>1, ClassFacts DEF OwnerAgrees, HeapPages
    <3>2. IsInjective(heap_pools[c])
      BY DEF HeapIInv, HeapTyped, IsInjective, HasNoDuplicates
    <3> QED  BY <3>1, <3>2
  <2> QED  BY <2>2, <2>3 DEF PagesHaveOneOwner
<1> QED  BY <1>1, <1>2, <1>3 DEF HeapInv

(* heap_init() establishes the invariant. *)
LEMMA HeapInitHolds == HeapInit => HeapIInv
<1> SUFFICES ASSUME HeapInit PROVE HeapIInv
  OBVIOUS
<1>1. PageInv
  BY PageInitInv DEF HeapInit
<1>2. HeapTyped /\ heap_panicked = FALSE
  BY DEF HeapInit, HeapTyped, HasNoDuplicates
<1>3. \A p \in Page : OwnerAgrees(p) /\ BlocksAgree(p)
  <2>1. ASSUME NEW p \in Page PROVE OwnerAgrees(p) /\ BlocksAgree(p)
    <3>1. /\ class_index[p] = NoClass /\ ~page_bitmap[p] /\ allocated[p] = {} /\ raw = {}
          /\ \A c \in Class : heap_pools[c] = <<>>
      BY DEF HeapInit, PageInit
    <3>2. ToSet(<<>>) = {}
      BY DEF ToSet
    <3> QED  BY <3>1, <3>2, ClassFacts DEF OwnerAgrees, BlocksAgree
  <2> QED  BY <2>1
<1>4. BytesExact
  <2>1. ASSUME NEW n PROVE Bytes(n) = 0
    <3> DEFINE w == [p \in Page |-> IF class_index[p] = NoClass THEN 0
                                    ELSE n[p] * heap_class_sizes[class_index[p]]]
    <3>1. w \in [Page -> Int] /\ \A p \in Page : w[p] = 0
      BY DEF HeapInit
    <3> HIDE DEF w
    <3>2. Total(w) = 0
      BY <3>1, TotalZero
    <3> QED  BY <3>2 DEF Bytes, w
  <2> QED  BY <2>1 DEF BytesExact, HeapInit
<1> QED  BY <1>1, <1>2, <1>3, <1>4 DEF HeapIInv

(* The number of blocks somebody has, per page. *)
Counts(alloc) == [p \in Page |-> Cardinality(alloc[p])]

(* Allocated sets are finite. *)
LEMMA CountsTyped ==
  ASSUME HeapIInv
  PROVE  Counts(allocated) \in [Page -> Nat] /\ \A p \in Page : IsFiniteSet(allocated[p])
<1>1. ASSUME NEW p \in Page PROVE IsFiniteSet(allocated[p])
  <2>1. BlocksAgree(p) /\ class_index[p] \in Class \cup {NoClass}
    BY DEF HeapIInv, HeapTyped
  <2>2. CASE class_index[p] = NoClass
    BY <2>1, <2>2, FS_EmptySet DEF BlocksAgree
  <2>3. CASE class_index[p] # NoClass
    BY <2>1, <2>3, ClassFacts, FS_Subset DEF BlocksAgree, Partition
  <2> QED  BY <2>2, <2>3
<1> QED  BY <1>1, FS_CardinalityType DEF Counts

(***************************************************************************)
(* heap_alloc_block() on page p of class c, which is in the pool already   *)
(* or has just been added to it: no PANIC, and everything about the blocks *)
(* agrees again.                                                           *)
(***************************************************************************)
LEMMA AllocBlockKeeps ==
  ASSUME HeapIInv, NEW p \in Page, NEW c \in Class, NEW fl, NEW count, NEW grown,
         heap_alloc_block(p, c, fl, count, grown),
         Partition(c, fl, count, allocated[p]), fl # <<>>,
         class_index' = [class_index EXCEPT ![p] = c],
         \/ class_index[p] = c /\ count = free_count[p] /\ grown = 0
         \/ class_index[p] = NoClass /\ grown = count * heap_class_sizes[c]
  PROVE  /\ heap_panicked' = FALSE /\ BytesExact' /\ \A q \in Page : BlocksAgree(q)'
         /\ class_index' \in [Page -> Class \cup {NoClass}]
         /\ DOMAIN free_list' = Page /\ free_count' \in [Page -> Nat] /\ DOMAIN allocated' = Page
         /\ heap_result' = <<p, Head(fl)>> /\ Head(fl) \notin allocated[p]
<1> DEFINE b == Head(fl)
           s == heap_class_sizes[c]
<1>1. /\ Partition(c, Tail(fl), count - 1, allocated[p] \cup {b})
      /\ b \in Block(c) \ allocated[p] /\ count # 0
      /\ Cardinality(allocated[p] \cup {b}) = Cardinality(allocated[p]) + 1
  BY TakeBlock
<1>2. /\ free_list' = [free_list EXCEPT ![p] = Tail(fl)]
      /\ free_count' = [free_count EXCEPT ![p] = count - 1]
      /\ allocated' = [allocated EXCEPT ![p] = allocated[p] \cup {b}]
      /\ heap_free_blocks_bytes' = heap_free_blocks_bytes + grown - s
      /\ heap_allocated_blocks_bytes' = heap_allocated_blocks_bytes + s
      /\ heap_result' = <<p, b>> /\ heap_panicked' = heap_panicked
  BY <1>1 DEF heap_alloc_block
<1> HIDE DEF b
<1>3. /\ class_index \in [Page -> Class \cup {NoClass}] /\ free_count \in [Page -> Nat]
      /\ DOMAIN free_list = Page /\ DOMAIN allocated = Page /\ heap_panicked = FALSE
      /\ heap_free_blocks_bytes = Total(Weights(class_index, free_count))
      /\ heap_allocated_blocks_bytes = Total(Weights(class_index, Counts(allocated)))
  BY DEF HeapIInv, HeapTyped, BytesExact, Bytes, Weights, Counts
<1>4. count \in Nat \ {0} /\ count - 1 \in Nat /\ s \in Nat \ {0}
  <2>1. count \in Nat
    BY DEF Partition
  <2> QED  BY <1>1, <2>1, ClassFacts
<1>5. /\ class_index' \in [Page -> Class \cup {NoClass}] /\ class_index'[p] = c
      /\ free_count' \in [Page -> Nat] /\ free_count'[p] = count - 1
      /\ \A q \in Page : q # p => /\ class_index'[q] = class_index[q]
                                  /\ free_count'[q] = free_count[q]
  BY <1>2, <1>3, <1>4
<1>6. /\ DOMAIN free_list' = Page /\ free_list'[p] = Tail(fl)
      /\ DOMAIN allocated' = Page /\ allocated'[p] = allocated[p] \cup {b}
      /\ \A q \in Page : q # p => free_list'[q] = free_list[q] /\ allocated'[q] = allocated[q]
  BY <1>2, <1>3
<1>7. \A q \in Page : BlocksAgree(q)'
  <2>1. ASSUME NEW q \in Page, q # p PROVE BlocksAgree(q)'
    <3>1. BlocksAgree(q)
      BY DEF HeapIInv
    <3> QED  BY <1>5, <1>6, <2>1, <3>1 DEF BlocksAgree
  <2>2. BlocksAgree(p)'
    BY <1>1, <1>5, <1>6, ClassFacts DEF BlocksAgree
  <2> QED  BY <2>1, <2>2
<1>8. /\ Counts(allocated) \in [Page -> Nat] /\ IsFiniteSet(allocated[p])
      /\ Counts(allocated)[p] = Cardinality(allocated[p]) /\ Counts(allocated)[p] \in Nat
  BY CountsTyped DEF Counts
<1>9. /\ Counts(allocated') \in [Page -> Nat] /\ Counts(allocated')[p] = Counts(allocated)[p] + 1
      /\ \A q \in Page : q # p => Counts(allocated')[q] = Counts(allocated)[q]
  <2>1. \A q \in Page : q # p => Counts(allocated')[q] = Counts(allocated)[q]
    BY <1>6 DEF Counts
  <2>2. Counts(allocated')[p] = Counts(allocated)[p] + 1
    BY <1>1, <1>6 DEF Counts
  <2>3. \A q \in Page : Counts(allocated')[q] \in Nat
    BY <1>8, <2>1, <2>2
  <2>4. Counts(allocated') = [q \in Page |-> Counts(allocated')[q]]
    BY DEF Counts
  <2> QED  BY <2>1, <2>2, <2>3, <2>4
<1>rigid. PICK ci, ci2, n, n2, m, m2 :
            /\ ci = class_index /\ ci2 = class_index' /\ n = Counts(allocated)
            /\ n2 = Counts(allocated') /\ m = free_count /\ m2 = free_count'
  OBVIOUS
<1>10. OnePage(ci, m, ci2, m2, p) /\ OnePage(ci, n, ci2, n2, p)
  BY <1>3, <1>5, <1>8, <1>9, <1>rigid DEF OnePage
<1> HIDE DEF s
<1>11. /\ heap_free_blocks_bytes' = Total(Weights(ci2, m2))
       /\ heap_allocated_blocks_bytes' = Total(Weights(ci2, n2))
  <2>1. CASE class_index[p] = c /\ count = free_count[p] /\ grown = 0
    <3>1. OneMore(ci, n, ci2, n2, p, c)
      BY <1>5, <1>9, <1>10, <1>rigid, <2>1 DEF OneMore
    <3>2. /\ Total(Weights(ci2, n2)) = Total(Weights(ci, n)) + heap_class_sizes[c]
          /\ Total(Weights(ci, n)) \in Int
      BY <3>1, BytesUp, Zenon
    <3>3. OneMore(ci2, m2, ci, m, p, c)
      <4>1. OnePage(ci2, m2, ci, m, p)
        BY <1>10 DEF OnePage
      <4> QED  BY <1>4, <1>5, <1>rigid, <2>1, <4>1 DEF OneMore
    <3> DEFINE x == Total(Weights(ci, m))
               y == Total(Weights(ci2, m2))
    <3>4. x = y + heap_class_sizes[c] /\ y \in Int
      BY <3>3, BytesUp, Zenon
    <3> HIDE DEF x, y
    <3>5. x + 0 - s = y
      BY <1>4, <3>4 DEF s
    <3> QED  BY <1>2, <1>3, <2>1, <3>2, <3>5, <1>rigid DEF x, y, s
  <2>2. CASE class_index[p] = NoClass /\ grown = count * s
    <3>1. /\ NewPage(ci, n, ci2, n2, p, c)
          /\ NewPage(ci, m, ci2, m2, p, c)
      BY <1>5, <1>10, <1>rigid, <2>2 DEF NewPage
    <3>2. /\ Total(Weights(ci2, n2)) = Total(Weights(ci, n)) + n2[p] * heap_class_sizes[c]
          /\ Total(Weights(ci, n)) \in Int
      BY <3>1, BytesNew, Zenon
    <3>3. /\ Total(Weights(ci2, m2)) =
               Total(Weights(ci, m)) + m2[p] * heap_class_sizes[c]
          /\ Total(Weights(ci, m)) \in Int
      BY <3>1, BytesNew, Zenon
    <3>4. n2[p] * s = s
      <4>1. allocated[p] = {}
        BY <2>2 DEF HeapIInv, BlocksAgree
      <4>2. n2[p] = 1
        BY <1>8, <1>9, <1>rigid, <4>1, FS_EmptySet
      <4> QED  BY <1>4, <4>2
    <3>5. heap_free_blocks_bytes + (count - 1) * s = heap_free_blocks_bytes + grown - s
      <4>1. \A i \in Nat, t \in Nat : (i - 1) * t = i * t - t /\ i * t \in Int
        OBVIOUS
      <4>2. grown \in Int /\ (count - 1) * s = grown - s /\ heap_free_blocks_bytes \in Int /\ s \in Int
        BY <1>3, <1>4, <1>rigid, <2>2, <3>3, <4>1
      <4> QED  BY <4>2
    <3>6. m2[p] = count - 1
      BY <1>5, <1>rigid
    <3>7. heap_allocated_blocks_bytes' = Total(Weights(ci2, n2))
      BY <1>2, <1>3, <3>2, <3>4, <1>rigid DEF s
    <3>8. heap_free_blocks_bytes' = Total(Weights(ci2, m2))
      BY <1>2, <1>3, <3>3, <3>5, <3>6, <1>rigid DEF s
    <3> QED  BY <3>7, <3>8
  <2>3. grown = count * heap_class_sizes[c] <=> grown = count * s
    BY DEF s
  <2> QED  BY <2>1, <2>2, <2>3
<1>12. BytesExact'
  BY <1>11, <1>rigid DEF BytesExact, Bytes, Weights, Counts
<1> QED  BY <1>1, <1>2, <1>3, <1>5, <1>6, <1>7, <1>12 DEF b

-----------------------------------------------------------------------------
(* What page_alloc() hands to the heap: a free page, or NULL when there is  *)
(* none.                                                                    *)
LEMMA PageAllocGives ==
  ASSUME PageInv, page_alloc
  PROVE  /\ PageInv'
         /\ \/ /\ page_result' = NULL /\ page_bitmap' = page_bitmap
               /\ \A p \in Page : page_bitmap[p]
            \/ /\ page_result' \in Page /\ page_result' # NULL /\ page_bitmap[page_result'] = FALSE
               /\ page_bitmap' = [page_bitmap EXCEPT ![page_result'] = TRUE]
<1>1. PageInv'
  BY PageStepInv DEF PageNext
<1>2. CASE NoPageFound
  <2>1. \A p \in Page : page_bitmap[p]
    BY <1>2, ProbeReachesAll DEF NoPageFound, ScanLength, Page, PageInv
  <2> QED  BY <1>1, <1>2, <2>1 DEF NoPageFound
<1>3. ASSUME NEW offset \in 0 .. ScanLength - 1, TakePage(offset)
      PROVE  /\ page_result' \in Page /\ page_result' # NULL /\ page_bitmap[page_result'] = FALSE
             /\ page_bitmap' = [page_bitmap EXCEPT ![page_result'] = TRUE]
  <2>1. Probe(offset) \in Page
    BY ProbeIsPage DEF PageInv, ScanLength, Page
  <2>2. Probe(offset) # NULL
    BY <2>1, PagesAssumption DEF Page
  <2>3. page_result' = Probe(offset) /\ ~page_bitmap[Probe(offset)]
    BY <1>3 DEF TakePage
  <2>4. page_bitmap[Probe(offset)] \in BOOLEAN
    BY <2>1 DEF PageInv
  <2>5. page_bitmap' = [page_bitmap EXCEPT ![Probe(offset)] = TRUE]
    BY <1>3 DEF TakePage
  <2> QED  BY <2>1, <2>2, <2>3, <2>4, <2>5
<1> QED  BY <1>1, <1>2, <1>3 DEF page_alloc

(* class_index_for_size() yields a class or none. *)
LEMMA SizeHasClass ==
  ASSUME NEW size
  PROVE  class_index_for_size(size) \in Class \cup {NoClass}
<1> DEFINE fits == {c \in Class : size > 0 /\ size <= heap_class_sizes[c]}
<1>1. CASE fits = {}
  BY <1>1 DEF class_index_for_size
<1>2. CASE fits # {}
  <2>1. fits \subseteq Nat
    BY ClassFacts
  <2>2. PICK x \in fits : \A y \in fits : x <= y
    BY <1>2, <2>1, LeastNatural
  <2>3. Min(fits) \in fits
    BY <2>2 DEF Min
  <2> QED  BY <1>2, <2>3 DEF class_index_for_size
<1> QED  BY <1>1, <1>2

(* The page kmalloc() finds in the pool has a free block, and when it finds *)
(* none the class has no free block at all.                                 *)
LEMMA PoolSearch ==
  ASSUME HeapIInv, NEW c \in Class
  PROVE  /\ PageWithBlock(c) # NULL =>
              /\ PageWithBlock(c) \in Page /\ class_index[PageWithBlock(c)] = c
              /\ free_list[PageWithBlock(c)] # <<>>
         /\ PageWithBlock(c) = NULL => \A p \in HeapPages(c) : free_list[p] = <<>>
<1> DEFINE pool == heap_pools[c]
           free == {i \in DOMAIN pool : free_count[pool[i]] # 0}
<1>1. pool \in Seq(Page)
  BY DEF HeapIInv, HeapTyped
<1>2. ASSUME NEW p \in ToSet(pool)
      PROVE  /\ p \in Page /\ p # NULL /\ class_index[p] = c
             /\ free_list[p] \in Seq(Nat) /\ free_count[p] = Len(free_list[p])
  <2>1. p \in Page
    BY <1>1 DEF ToSet
  <2>2. p # NULL
    BY <2>1, PagesAssumption DEF Page
  <2>3. class_index[p] = c
    BY <2>1 DEF HeapIInv, OwnerAgrees
  <2>4. Partition(c, free_list[p], free_count[p], allocated[p])
    BY <2>1, <2>3, ClassFacts DEF HeapIInv, BlocksAgree
  <2> QED  BY <2>1, <2>2, <2>3, <2>4 DEF Partition
<1>3. \A i \in DOMAIN pool : pool[i] \in ToSet(pool)
  BY DEF ToSet
<1>4. CASE free = {}
  <2>1. PageWithBlock(c) = NULL
    BY <1>4 DEF PageWithBlock
  <2>2. ASSUME NEW p \in ToSet(pool) PROVE free_list[p] = <<>>
    <3>1. free_count[p] = 0
      BY <1>4 DEF ToSet
    <3> QED  BY <1>2, <3>1
  <2> QED  BY <2>1, <2>2 DEF HeapPages
<1>5. CASE free # {}
  <2>1. free \subseteq Nat
    BY <1>1
  <2>2. PICK x \in free : \A y \in free : x <= y
    BY <1>5, <2>1, LeastNatural
  <2>3. Min(free) \in free
    BY <2>2 DEF Min
  <2> DEFINE p == pool[Min(free)]
  <2>4. PageWithBlock(c) = p
    BY <1>5 DEF PageWithBlock
  <2>5. p \in ToSet(pool) /\ free_count[p] # 0
    BY <1>3, <2>3
  <2> HIDE DEF p
  <2>6. p \in Page /\ p # NULL /\ class_index[p] = c /\ free_list[p] # <<>>
    BY <1>2, <2>5
  <2> QED  BY <2>4, <2>6
<1> QED  BY <1>4, <1>5

(* The parts of the invariant that kmalloc() and kfree() rebuild. *)
LEMMA HeapIInvParts ==
  ASSUME PageInv', HeapTyped', heap_panicked' = FALSE, BytesExact',
         \A p \in Page : OwnerAgrees(p)', \A p \in Page : BlocksAgree(p)'
  PROVE  HeapIInv'
BY DEF HeapIInv

(* A step that leaves the heap's own state alone keeps its byte counters    *)
(* and blocks.                                                              *)
LEMMA BlocksUnchanged ==
  ASSUME HeapIInv,
         UNCHANGED <<heap_pools, class_index, free_list, free_count, allocated,
                     heap_free_blocks_bytes, heap_allocated_blocks_bytes, heap_panicked>>
  PROVE  /\ BytesExact' /\ (\A p \in Page : BlocksAgree(p)') /\ heap_panicked' = FALSE
         /\ raw' \subseteq Page => HeapTyped'
<1>1. BytesExact'
  BY DEF HeapIInv, BytesExact, Bytes
<1>2. \A p \in Page : BlocksAgree(p)'
  BY DEF HeapIInv, BlocksAgree
<1>3. raw' \subseteq Page => HeapTyped'
  BY DEF HeapIInv, HeapTyped
<1> QED  BY <1>1, <1>2, <1>3 DEF HeapIInv

(* kmalloc() from a page of the pool keeps the invariant, and gives out a   *)
(* block nobody has.                                                        *)
LEMMA ReuseKeeps ==
  ASSUME HeapIInv, NEW size \in Sizes, kmalloc_reuse(size), UNCHANGED raw
  PROVE  HeapIInv' /\ \E p \in Page : \E b \in Nat : heap_result' = <<p, b>> /\ b \notin allocated[p]
<1> DEFINE c == class_index_for_size(size)
           p == PageWithBlock(c)
           fl == free_list[p]
<1>1. /\ c # NoClass /\ p # NULL /\ heap_alloc_block(p, c, fl, free_count[p], 0)
      /\ UNCHANGED <<pagevars, heap_pools, class_index, heap_pages>>
  BY DEF kmalloc_reuse
<1>2. c \in Class
  BY <1>1, SizeHasClass
<1> HIDE DEF c
<1>3. p \in Page /\ class_index[p] = c /\ fl # <<>>
  BY <1>1, <1>2, PoolSearch
<1> HIDE DEF p
<1>4. Partition(c, fl, free_count[p], allocated[p])
  BY <1>2, <1>3, ClassFacts DEF HeapIInv, BlocksAgree
<1>5. class_index' = [class_index EXCEPT ![p] = c]
  BY <1>1, <1>3 DEF HeapIInv, HeapTyped
<1>6. /\ heap_panicked' = FALSE /\ BytesExact' /\ \A q \in Page : BlocksAgree(q)'
      /\ DOMAIN free_list' = Page /\ free_count' \in [Page -> Nat] /\ DOMAIN allocated' = Page
      /\ heap_result' = <<p, Head(fl)>> /\ Head(fl) \notin allocated[p]
  BY <1>1, <1>2, <1>3, <1>4, <1>5, AllocBlockKeeps
<1>7. Head(fl) \in Nat
  BY <1>3, <1>4 DEF Partition
<1>8. PageInv'
  BY <1>1, PageStepInv DEF HeapIInv
<1>9. HeapTyped'
  BY <1>1, <1>6 DEF HeapIInv, HeapTyped
<1>10. \A q \in Page : OwnerAgrees(q)'
  BY <1>1 DEF HeapIInv, OwnerAgrees, pagevars
<1>11. HeapIInv'
  BY <1>6, <1>8, <1>9, <1>10, HeapIInvParts
<1> QED  BY <1>3, <1>6, <1>7, <1>11

(* A pool with a new page in front. *)
LEMMA NewPool ==
  ASSUME NEW pool \in Seq(Page), HasNoDuplicates(pool), NEW p \in Page, p \notin ToSet(pool)
  PROVE  /\ <<p>> \o pool \in Seq(Page) /\ HasNoDuplicates(<<p>> \o pool)
         /\ ToSet(<<p>> \o pool) = ToSet(pool) \cup {p}
<1> DEFINE l == <<p>> \o pool
<1>1. /\ l \in Seq(Page) /\ Len(l) = Len(pool) + 1 /\ Len(pool) \in Nat /\ l[1] = p
      /\ \A i \in 2 .. Len(pool) + 1 : l[i] = pool[i - 1]
  OBVIOUS
<1>2. \A i \in 1 .. Len(pool) : pool[i] \in ToSet(pool)
  BY DEF ToSet
<1> HIDE DEF l
<1>3. DOMAIN l = 1 .. Len(pool) + 1 /\ DOMAIN pool = 1 .. Len(pool)
  BY <1>1
<1>4. HasNoDuplicates(l)
  <2>1. ASSUME NEW i \in DOMAIN l, NEW j \in DOMAIN l, l[i] = l[j] PROVE i = j
    <3>1. CASE i = 1 \/ j = 1
      BY <1>1, <1>2, <1>3, <2>1, <3>1
    <3>2. CASE i # 1 /\ j # 1
      <4>1. i - 1 \in DOMAIN pool /\ j - 1 \in DOMAIN pool /\ pool[i - 1] = pool[j - 1]
        BY <1>1, <1>3, <2>1, <3>2
      <4>2. i - 1 = j - 1
        BY <4>1 DEF HasNoDuplicates
      <4> QED  BY <1>3, <4>2
    <3> QED  BY <3>1, <3>2
  <2> QED  BY <2>1 DEF HasNoDuplicates
<1>5. ToSet(l) = ToSet(pool) \cup {p}
  <2>1. ASSUME NEW x \in ToSet(l) PROVE x \in ToSet(pool) \cup {p}
    <3>1. PICK i \in 1 .. Len(pool) + 1 : x = l[i]
      BY <1>3 DEF ToSet
    <3>2. i # 1 => i - 1 \in 1 .. Len(pool) /\ l[i] = pool[i - 1]
      BY <1>1
    <3> QED  BY <1>1, <1>2, <3>1, <3>2
  <2>2. p \in ToSet(l)
    BY <1>1, <1>3 DEF ToSet
  <2>3. ASSUME NEW x \in ToSet(pool) PROVE x \in ToSet(l)
    <3>1. PICK i \in 1 .. Len(pool) : x = pool[i]
      BY <1>3 DEF ToSet
    <3>2. i + 1 \in 1 .. Len(pool) + 1 /\ l[i + 1] = x
      BY <1>1, <3>1
    <3> QED  BY <1>3, <3>2 DEF ToSet
  <2> QED  BY <2>1, <2>2, <2>3
<1> QED  BY <1>1, <1>4, <1>5 DEF l

(* kmalloc() that asks the page allocator for a page keeps the invariant;   *)
(* it answers NULL only when no page is free, and a block of a new page     *)
(* otherwise.                                                               *)
LEMMA GrowKeeps ==
  ASSUME HeapIInv, NEW size \in Sizes, kmalloc_grow(size), UNCHANGED raw
  PROVE  /\ HeapIInv'
         /\ \/ heap_result' = NULL /\ \A p \in Page : page_bitmap[p]
            \/ \E p \in Page : \E b \in Nat : heap_result' = <<p, b>> /\ b \notin allocated[p]
<1> DEFINE c == class_index_for_size(size)
<1>1. c # NoClass /\ page_alloc
  BY DEF kmalloc_grow
<1>2. c \in Class
  BY <1>1, SizeHasClass
<1>3. PageInv /\ HeapTyped /\ \A q \in Page : OwnerAgrees(q) /\ BlocksAgree(q)
  BY DEF HeapIInv
<1>4. PageInv'
  BY <1>1, <1>3, PageAllocGives
<1>5. CASE page_result' = NULL /\ page_bitmap' = page_bitmap /\ \A p \in Page : page_bitmap[p]
  <2>1. /\ UNCHANGED <<heap_pools, class_index, free_list, free_count, allocated,
                       heap_free_blocks_bytes, heap_allocated_blocks_bytes, heap_panicked>>
        /\ heap_result' = NULL
    BY <1>5 DEF kmalloc_grow
  <2>2. BytesExact' /\ (\A p \in Page : BlocksAgree(p)') /\ heap_panicked' = FALSE /\ HeapTyped'
    BY <1>3, <2>1, BlocksUnchanged DEF HeapTyped
  <2>3. \A q \in Page : OwnerAgrees(q)'
    BY <1>3, <1>5, <2>1 DEF OwnerAgrees
  <2> QED  BY <1>4, <1>5, <2>1, <2>2, <2>3, HeapIInvParts
<1>6. CASE /\ page_result' \in Page /\ page_result' # NULL /\ page_bitmap[page_result'] = FALSE
           /\ page_bitmap' = [page_bitmap EXCEPT ![page_result'] = TRUE]
  <2>1. PICK p \in Page : p = page_result'
    BY <1>6
  <2>2. /\ heap_pools' = [heap_pools EXCEPT ![c] = <<p>> \o heap_pools[c]]
        /\ class_index' = [class_index EXCEPT ![p] = c]
        /\ heap_alloc_block(p, c, NewFreeList(c), BlockCount(c), BlockCount(c) * heap_class_sizes[c])
        /\ ~page_bitmap[p] /\ page_bitmap' = [page_bitmap EXCEPT ![p] = TRUE]
    BY <1>6, <2>1 DEF kmalloc_grow
  <2> HIDE DEF c
  <2>3. class_index[p] = NoClass /\ p \notin raw /\ p \notin ToSet(heap_pools[c]) /\ allocated[p] = {}
    BY <1>2, <1>3, <2>2, ClassFacts DEF OwnerAgrees, BlocksAgree
  <2>4. Partition(c, NewFreeList(c), BlockCount(c), allocated[p]) /\ NewFreeList(c) # <<>>
    BY <1>2, <2>3, FreshBlocks
  <2> DEFINE fl == NewFreeList(c)
  <2>5. /\ heap_panicked' = FALSE /\ BytesExact' /\ \A q \in Page : BlocksAgree(q)'
        /\ class_index' \in [Page -> Class \cup {NoClass}]
        /\ DOMAIN free_list' = Page /\ free_count' \in [Page -> Nat] /\ DOMAIN allocated' = Page
        /\ heap_result' = <<p, Head(fl)>> /\ Head(fl) \notin allocated[p]
    BY <1>2, <2>2, <2>3, <2>4, AllocBlockKeeps
  <2>6. Head(fl) \in Nat
    BY <2>4 DEF Partition
  <2>7. /\ heap_pools[c] \in Seq(Page) /\ HasNoDuplicates(heap_pools[c])
        /\ heap_pools \in [Class -> Seq(Page)] /\ raw \subseteq Page
        /\ class_index \in [Page -> Class \cup {NoClass}] /\ page_bitmap \in [Page -> BOOLEAN]
    BY <1>2, <1>3 DEF HeapTyped, PageInv
  <2> DEFINE l == <<p>> \o heap_pools[c]
  <2>8. l \in Seq(Page) /\ HasNoDuplicates(l) /\ ToSet(l) = ToSet(heap_pools[c]) \cup {p}
    BY <2>3, <2>7, NewPool
  <2> HIDE DEF l, fl
  <2>9. /\ heap_pools' \in [Class -> Seq(Page)] /\ heap_pools'[c] = l
        /\ \A k \in Class : k # c => heap_pools'[k] = heap_pools[k]
    BY <1>2, <2>2, <2>7, <2>8 DEF l
  <2>10. HeapTyped'
    BY <1>3, <2>5, <2>7, <2>8, <2>9 DEF HeapTyped
  <2>11. ASSUME NEW q \in Page PROVE OwnerAgrees(q)'
    <3>1. OwnerAgrees(q)
      BY <1>3
    <3>2. CASE q = p
      <4>1. class_index'[p] = c /\ page_bitmap'[p] = TRUE
        BY <2>2, <2>7
      <4>2. \A k \in Class : p \in ToSet(heap_pools'[k]) <=> k = c
        BY <1>2, <1>3, <2>3, <2>8, <2>9, ClassFacts DEF OwnerAgrees
      <4> QED  BY <1>2, <2>3, <3>2, <4>1, <4>2, ClassFacts DEF OwnerAgrees
    <3>3. CASE q # p
      <4>1. class_index'[q] = class_index[q] /\ page_bitmap'[q] = page_bitmap[q]
        BY <2>2, <2>7, <3>3
      <4>2. \A k \in Class : q \in ToSet(heap_pools'[k]) <=> q \in ToSet(heap_pools[k])
        BY <2>8, <2>9, <3>3
      <4> QED  BY <3>1, <4>1, <4>2 DEF OwnerAgrees
    <3> QED  BY <3>2, <3>3
  <2>12. HeapIInv'
    BY <1>4, <2>5, <2>10, <2>11, HeapIInvParts
  <2> QED  BY <2>5, <2>6, <2>12
<1> QED  BY <1>1, <1>3, <1>5, <1>6, PageAllocGives

(* kfree() keeps the invariant. *)
LEMMA KfreeKeeps ==
  ASSUME HeapIInv, NEW p \in Page, NEW b \in allocated[p], kfree(p, b)
  PROVE  HeapIInv'
<1> DEFINE c == class_index[p]
           s == heap_class_sizes[c]
           fl == free_list[p]
<1>1. /\ allocated' = [allocated EXCEPT ![p] = allocated[p] \ {b}]
      /\ free_list' = [free_list EXCEPT ![p] = <<b>> \o fl]
      /\ free_count' = [free_count EXCEPT ![p] = free_count[p] + 1]
      /\ heap_free_blocks_bytes' = heap_free_blocks_bytes + s
      /\ heap_allocated_blocks_bytes' = heap_allocated_blocks_bytes - s
      /\ UNCHANGED <<pagevars, heap_pools, class_index, heap_panicked, raw>>
  BY DEF kfree
<1>2. /\ class_index \in [Page -> Class \cup {NoClass}] /\ free_count \in [Page -> Nat]
      /\ DOMAIN free_list = Page /\ DOMAIN allocated = Page /\ heap_panicked = FALSE
      /\ heap_free_blocks_bytes = Total(Weights(class_index, free_count))
      /\ heap_allocated_blocks_bytes = Total(Weights(class_index, Counts(allocated)))
      /\ PageInv /\ HeapTyped /\ \A q \in Page : OwnerAgrees(q) /\ BlocksAgree(q)
  BY DEF HeapIInv, HeapTyped, BytesExact, Bytes, Weights, Counts
<1>3. c \in Class /\ Partition(c, fl, free_count[p], allocated[p])
  BY <1>2 DEF BlocksAgree
<1> HIDE DEF c
<1>4. /\ Partition(c, <<b>> \o fl, free_count[p] + 1, allocated[p] \ {b})
      /\ Cardinality(allocated[p] \ {b}) = Cardinality(allocated[p]) - 1
  BY <1>3, GiveBlock
<1>5. /\ DOMAIN free_list' = Page /\ free_list'[p] = <<b>> \o fl
      /\ DOMAIN allocated' = Page /\ allocated'[p] = allocated[p] \ {b}
      /\ free_count' \in [Page -> Nat] /\ free_count'[p] = free_count[p] + 1
      /\ \A q \in Page : q # p => /\ free_list'[q] = free_list[q] /\ allocated'[q] = allocated[q]
                                  /\ free_count'[q] = free_count[q]
  BY <1>1, <1>2
<1>6. \A q \in Page : BlocksAgree(q)'
  <2>1. ASSUME NEW q \in Page, q # p PROVE BlocksAgree(q)'
    BY <1>1, <1>2, <1>5, <2>1 DEF BlocksAgree
  <2>2. BlocksAgree(p)'
    BY <1>1, <1>3, <1>4, <1>5, ClassFacts DEF BlocksAgree, c
  <2> QED  BY <2>1, <2>2
<1>7. /\ Counts(allocated) \in [Page -> Nat] /\ IsFiniteSet(allocated[p])
      /\ Counts(allocated)[p] = Cardinality(allocated[p]) /\ Counts(allocated)[p] \in Nat
  BY CountsTyped DEF Counts
<1>8. /\ Counts(allocated') \in [Page -> Nat] /\ Counts(allocated)[p] = Counts(allocated')[p] + 1
      /\ \A q \in Page : q # p => Counts(allocated')[q] = Counts(allocated)[q]
  <2>1. \A q \in Page : q # p => Counts(allocated')[q] = Counts(allocated)[q]
    BY <1>5 DEF Counts
  <2>2. Counts(allocated')[p] = Counts(allocated)[p] - 1
    BY <1>4, <1>5 DEF Counts
  <2>3. Counts(allocated')[p] \in Nat
    <3>1. IsFiniteSet(allocated[p] \ {b})
      BY <1>7, FS_Subset
    <3> QED  BY <1>5, <3>1, FS_CardinalityType DEF Counts
  <2>4. \A q \in Page : Counts(allocated')[q] \in Nat
    BY <1>7, <2>1, <2>3
  <2>5. Counts(allocated') = [q \in Page |-> Counts(allocated')[q]]
    BY DEF Counts
  <2> QED  BY <1>7, <2>1, <2>2, <2>4, <2>5
<1>rigid. PICK ci, n, n2, m, m2 :
            /\ ci = class_index /\ n = Counts(allocated) /\ n2 = Counts(allocated')
            /\ m = free_count /\ m2 = free_count'
  OBVIOUS
<1>9. OneMore(ci, m, ci, m2, p, c) /\ OneMore(ci, n2, ci, n, p, c)
  BY <1>2, <1>5, <1>7, <1>8, <1>rigid DEF OneMore, OnePage, c
<1>10. /\ Total(Weights(ci, m2)) = Total(Weights(ci, m)) + heap_class_sizes[c]
       /\ Total(Weights(ci, m)) \in Int
  BY <1>3, <1>9, BytesUp, Zenon
<1> DEFINE x == Total(Weights(ci, n))
           y == Total(Weights(ci, n2))
<1>11. x = y + heap_class_sizes[c] /\ y \in Int
  BY <1>3, <1>9, BytesUp, Zenon
<1>12. s \in Int
  BY <1>3, ClassFacts
<1> HIDE DEF x, y, s
<1>13. x - s = y
  <2>1. x = y + s
    BY <1>11 DEF s
  <2> QED  BY <1>11, <1>12, <2>1
<1>14. heap_free_blocks_bytes' = Total(Weights(class_index', free_count'))
  BY <1>1, <1>2, <1>10, <1>rigid DEF s
<1>15. heap_allocated_blocks_bytes' = Total(Weights(class_index', Counts(allocated')))
  BY <1>1, <1>2, <1>13, <1>rigid DEF x, y
<1>16. BytesExact'
  BY <1>14, <1>15 DEF BytesExact, Bytes, Weights, Counts
<1>17. HeapTyped'
  BY <1>1, <1>2, <1>5 DEF HeapTyped
<1>18. \A q \in Page : OwnerAgrees(q)'
  BY <1>1, <1>2 DEF OwnerAgrees, pagevars
<1>19. PageInv' /\ heap_panicked' = FALSE
  BY <1>1, <1>2, PageStepInv
<1> QED  BY <1>6, <1>16, <1>17, <1>18, <1>19, HeapIInvParts

(* Other kernel code taking a page keeps it, *)
LEMMA TakeRawKeeps ==
  ASSUME HeapIInv, TakeRawPage
  PROVE  HeapIInv'
<1>1. /\ PageInv /\ HeapTyped /\ \A q \in Page : OwnerAgrees(q)
      /\ page_alloc /\ raw' = (IF page_result' = NULL THEN raw ELSE raw \cup {page_result'})
      /\ UNCHANGED heapvars
  BY DEF HeapIInv, TakeRawPage
<1>2. /\ BytesExact' /\ (\A p \in Page : BlocksAgree(p)') /\ heap_panicked' = FALSE
      /\ raw' \subseteq Page => HeapTyped'
  BY <1>1, BlocksUnchanged DEF heapvars
<1>3. PageInv'
  BY <1>1, PageAllocGives
<1>4. CASE page_result' = NULL /\ page_bitmap' = page_bitmap
  <2>1. raw' = raw /\ raw \subseteq Page
    BY <1>1, <1>4 DEF HeapTyped
  <2>2. \A q \in Page : OwnerAgrees(q)'
    BY <1>1, <1>4, <2>1 DEF OwnerAgrees, heapvars
  <2> QED  BY <1>2, <1>3, <2>1, <2>2, HeapIInvParts
<1>5. CASE /\ page_result' \in Page /\ page_result' # NULL /\ page_bitmap[page_result'] = FALSE
           /\ page_bitmap' = [page_bitmap EXCEPT ![page_result'] = TRUE]
  <2>1. PICK p \in Page : p = page_result'
    BY <1>5
  <2>2. raw' = raw \cup {p} /\ raw' \subseteq Page
    BY <1>1, <1>5, <2>1 DEF HeapTyped
  <2>3. page_bitmap' = [page_bitmap EXCEPT ![p] = TRUE] /\ ~page_bitmap[p]
    BY <1>5, <2>1
  <2>4. ASSUME NEW q \in Page PROVE OwnerAgrees(q)'
    <3>1. OwnerAgrees(q) /\ class_index' = class_index /\ heap_pools' = heap_pools
      BY <1>1 DEF heapvars
    <3>2. page_bitmap'[q] = IF q = p THEN TRUE ELSE page_bitmap[q]
      BY <1>1, <2>3 DEF PageInv
    <3>3. CASE q = p
      BY <2>2, <2>3, <3>1, <3>2, <3>3, Zenon DEF OwnerAgrees
    <3>4. CASE q # p
      BY <2>2, <3>1, <3>2, <3>4 DEF OwnerAgrees
    <3> QED  BY <3>3, <3>4
  <2> QED  BY <1>2, <1>3, <2>2, <2>4, HeapIInvParts
<1> QED  BY <1>1, <1>4, <1>5, PageAllocGives

(* and so does giving one back. *)
LEMMA FreeRawKeeps ==
  ASSUME HeapIInv, NEW p \in Page, FreeRawPage(p)
  PROVE  HeapIInv'
<1>1. /\ PageInv /\ HeapTyped /\ \A q \in Page : OwnerAgrees(q)
      /\ page_free(p) /\ raw' = raw \ {p} /\ p \in raw
      /\ UNCHANGED heapvars
  BY DEF HeapIInv, FreeRawPage
<1>2. raw' \subseteq Page
  BY <1>1 DEF HeapTyped
<1>3. BytesExact' /\ (\A q \in Page : BlocksAgree(q)') /\ heap_panicked' = FALSE /\ HeapTyped'
  BY <1>1, <1>2, BlocksUnchanged DEF heapvars
<1>4. PageInv'
  BY <1>1, PageFreeInv
<1>5. ASSUME NEW q \in Page PROVE OwnerAgrees(q)'
  <2>1. OwnerAgrees(q) /\ class_index' = class_index /\ heap_pools' = heap_pools
    BY <1>1 DEF heapvars
  <2>2. page_bitmap'[q] = IF q = p THEN FALSE ELSE page_bitmap[q]
    BY <1>1 DEF PageInv, page_free
  <2>3. CASE q = p
    BY <1>1, <2>1, <2>2, <2>3, Zenon DEF OwnerAgrees
  <2>4. CASE q # p
    BY <1>1, <2>1, <2>2, <2>4 DEF OwnerAgrees
  <2> QED  BY <2>3, <2>4
<1> QED  BY <1>3, <1>4, <1>5, HeapIInvParts

(* Every step of the heap keeps the invariant. *)
LEMMA HeapStepKeeps == HeapIInv /\ [HeapNext]_allvars => HeapIInv'
<1> SUFFICES ASSUME HeapIInv, [HeapNext]_allvars PROVE HeapIInv'
  OBVIOUS
<1>1. ASSUME NEW size \in Sizes, kmalloc(size) PROVE HeapIInv'
  <2>1. CASE kmalloc_none(size)
    <3>1. BytesExact' /\ (\A q \in Page : BlocksAgree(q)') /\ heap_panicked' = FALSE /\ HeapTyped'
      BY <1>1, <2>1, BlocksUnchanged DEF kmalloc, kmalloc_none, HeapIInv, HeapTyped
    <3>2. PageInv'
      BY <2>1, PageStepInv DEF kmalloc_none, HeapIInv
    <3>3. \A q \in Page : OwnerAgrees(q)'
      BY <1>1, <2>1 DEF kmalloc, kmalloc_none, HeapIInv, OwnerAgrees, pagevars
    <3> QED  BY <3>1, <3>2, <3>3, HeapIInvParts
  <2> QED  BY <1>1, <2>1, ReuseKeeps, GrowKeeps DEF kmalloc
<1>2. CASE UNCHANGED allvars
  <2>1. BytesExact' /\ (\A q \in Page : BlocksAgree(q)') /\ heap_panicked' = FALSE /\ HeapTyped'
    BY <1>2, BlocksUnchanged DEF allvars, heapvars, HeapIInv, HeapTyped
  <2>2. PageInv'
    BY <1>2, PageStepInv DEF allvars, HeapIInv
  <2>3. \A q \in Page : OwnerAgrees(q)'
    BY <1>2 DEF allvars, heapvars, HeapIInv, OwnerAgrees, pagevars
  <2> QED  BY <2>1, <2>2, <2>3, HeapIInvParts
<1> QED  BY <1>1, <1>2, KfreeKeeps, TakeRawKeeps, FreeRawKeeps DEF HeapNext

(***************************************************************************)
(* The inductive invariant holds in every state the heap reaches.          *)
(***************************************************************************)
THEOREM HeapInvariant == HeapSpec => []HeapIInv
BY HeapInitHolds, HeapStepKeeps, PTL DEF HeapSpec

(* heap.c never reaches its PANICs, its free lists and bitmaps share out    *)
(* every page's blocks, and its byte counters are exact.                    *)
THEOREM HeapNeverCorrupt == HeapSpec => []HeapInv
BY HeapInvariant, HeapIInvImplies, PTL

(* Every allocated page belongs to one pool or to the code that took it.    *)
THEOREM PagesOwnedOnce == HeapSpec => []PagesHaveOneOwner
BY HeapInvariant, HeapIInvImplies, PTL

-----------------------------------------------------------------------------
(* A supported kmalloc() answers NULL only when it really has nothing.      *)
LEMMA KmallocAnswers ==
  ASSUME HeapIInv, NEW size \in Sizes, kmalloc(size), class_index_for_size(size) # NoClass
  PROVE  IF heap_result' = NULL
         THEN free_pages = 0 /\ \A p \in HeapPages(class_index_for_size(size)) : free_list[p] = <<>>
         ELSE heap_result'[2] \notin allocated[heap_result'[1]]
<1> DEFINE c == class_index_for_size(size)
<1>1. c \in Class /\ UNCHANGED raw
  BY SizeHasClass DEF kmalloc
<1>2. ASSUME \E p \in Page : \E b \in Nat : heap_result' = <<p, b>> /\ b \notin allocated[p]
      PROVE  heap_result' # NULL /\ heap_result'[2] \notin allocated[heap_result'[1]]
  <2>1. PICK p \in Page, b \in Nat : heap_result' = <<p, b>> /\ b \notin allocated[p]
    BY <1>2
  <2>2. <<p, b>> \in Page \X Nat
    OBVIOUS
  <2>3. <<p, b>> # NULL
    BY <2>2, HeapAssumption
  <2> QED  BY <2>1, <2>3
<1>3. CASE kmalloc_reuse(size)
  BY <1>1, <1>2, <1>3, ReuseKeeps
<1>4. CASE kmalloc_grow(size)
  <2>1. PageWithBlock(c) = NULL
    BY <1>4 DEF kmalloc_grow
  <2>2. \A p \in HeapPages(c) : free_list[p] = <<>>
    BY <1>1, <2>1, PoolSearch
  <2>3. ASSUME \A p \in Page : page_bitmap[p] PROVE free_pages = 0
    <3>1. Untaken = {}
      BY <2>3 DEF Untaken
    <3> QED  BY <3>1, FS_EmptySet DEF HeapIInv, PageInv
  <2> QED  BY <1>1, <1>2, <1>4, <2>2, <2>3, GrowKeeps
<1> QED  BY <1>3, <1>4 DEF kmalloc, kmalloc_none

(* kmalloc() fails only when memory is exhausted, and never gives out a     *)
(* block that somebody still has.                                           *)
THEOREM KmallocIsHonest == HeapSpec => KmallocHonest
<1> DEFINE A == \A size \in Sizes :
                  kmalloc(size) /\ class_index_for_size(size) # NoClass =>
                    LET c == class_index_for_size(size)
                    IN  IF heap_result' = NULL
                        THEN free_pages = 0 /\ \A p \in HeapPages(c) : free_list[p] = <<>>
                        ELSE heap_result'[2] \notin allocated[heap_result'[1]]
<1>1. HeapIInv => A
  BY KmallocAnswers
<1>2. HeapIInv /\ [HeapNext]_allvars => [A]_allvars
  BY <1>1
<1> QED  BY <1>2, HeapInvariant, PTL DEF HeapSpec, KmallocHonest
=============================================================================
