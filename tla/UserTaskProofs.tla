--------------------------- MODULE UserTaskProofs ---------------------------
(***************************************************************************)
(* The memory of user tasks is accounted for in every state, for every     *)
(* number of pages, tasks and table entries: no page is leaked, shared or  *)
(* freed twice, a ready task is mapped completely, no mapping outlives its *)
(* page, and a failed vm_map_page() leaves nothing behind.                 *)
(*                                                                         *)
(* The proof gives every page one owner.  That the tables of a task form a *)
(* tree, and that no page is in two places, then follows from the owner of *)
(* a page being a function of the page.                                    *)
(***************************************************************************)
EXTENDS UserTask, PageAllocProofs

(* The contents of table entries. *)
Pte     == [leaf : BOOLEAN, pa : Page \cup {NULL, Trampoline}]
Link(p) == [leaf |-> FALSE, pa |-> p]
Leaf(p) == [leaf |-> TRUE, pa |-> p]

(* Who has a page: nobody, other kernel code, or a task, as the root table, *)
(* as the table below entry i of the root, as the table below entry j of    *)
(* that, or as one of its three pages.                                      *)
Role(kind, t, i, j) == [kind |-> kind, task |-> t, i |-> i, j |-> j]
Free            == Role("free", NULL, 0, 0)
Kept            == Role("kept", NULL, 0, 0)
Raw             == Role("raw", NULL, 0, 0)
RootOf(t)       == Role("root", t, 0, 0)
DirOf(t, i)     == Role("dir", t, i, 0)
LastOf(t, i, j) == Role("last", t, i, j)
PageOf(t, n)    == Role("page", t, n, 0)
TableRole(r) == \E t \in Spaces : \/ r = RootOf(t)
                                  \/ \E i \in Index : r = DirOf(t, i) \/ \E j \in Index : r = LastOf(t, i, j)
PageRole(r) == \E t \in Spaces, n \in 1 .. 3 : r = PageOf(t, n)
Fields == [kind : {"free", "kept", "raw", "root", "dir", "last", "page"},
           task : Spaces \cup {NULL}, i : Nat, j : Nat]
Roles == {r \in Fields : r \in {Free, Kept, Raw} \/ TableRole(r) \/ PageRole(r)}

(* The owners agree with the tables tb and the roots rt: what a link leads  *)
(* to is owned accordingly, what is owned is linked, and the two upper      *)
(* levels hold nothing but links.                                           *)
Typed(own, tb, rt) ==
  own \in [Page -> Roles] /\ tb \in [Page -> [Index -> Pte]] /\ rt \in [Spaces -> Page \cup {NULL}]
Roots(own, rt) == \A t \in Spaces, p \in Page : own[p] = RootOf(t) <=> rt[t] = p
RootLinks(own, tb) ==
  \A t \in Spaces, i \in Index, p, c \in Page :
    own[p] = RootOf(t) /\ tb[p][i] = Link(c) => own[c] = DirOf(t, i)
DirLinks(own, tb) ==
  \A t \in Spaces, i, j \in Index, p, c \in Page :
    own[p] = DirOf(t, i) /\ tb[p][j] = Link(c) => own[c] = LastOf(t, i, j)
DirLinked(own, tb, rt) ==
  \A t \in Spaces, i \in Index, c \in Page :
    own[c] = DirOf(t, i) => rt[t] \in Page /\ tb[rt[t]][i] = Link(c)
LastLinked(own, tb) ==
  \A t \in Spaces, i, j \in Index, c \in Page :
    own[c] = LastOf(t, i, j) => \E d \in Page : own[d] = DirOf(t, i) /\ tb[d][j] = Link(c)
EmptyOrLink(e) == e = NoPte \/ \E c \in Page : e = Link(c)
OnlyLinks(own, tb) ==
  \A t \in Spaces, i, j \in Index, p \in Page :
    own[p] = RootOf(t) \/ own[p] = DirOf(t, i) => EmptyOrLink(tb[p][j])
Forest(own, tb, rt) ==
  /\ Typed(own, tb, rt) /\ Roots(own, rt) /\ OnlyLinks(own, tb)
  /\ RootLinks(own, tb) /\ DirLinks(own, tb) /\ DirLinked(own, tb, rt) /\ LastLinked(own, tb)

(* The leaves of the tables are the mappings mp, mp[t][n] being what the    *)
(* n-th address of task t is mapped to, or NULL.                            *)
OnlyMapped(own, tb, mp) ==
  \A t \in Spaces, i, j, k \in Index, p \in Page : own[p] = LastOf(t, i, j) =>
    \/ tb[p][k] = NoPte
    \/ \E n \in 1 .. 4 : /\ UserVa[n][1] = i /\ UserVa[n][2] = j /\ UserVa[n][3] = k
                         /\ mp[t][n] # NULL /\ tb[p][k] = Leaf(mp[t][n])
AllMapped(own, tb, mp) ==
  \A t \in Spaces, n \in 1 .. 4 : mp[t][n] # NULL =>
    \E p \in Page : own[p] = LastOf(t, UserVa[n][1], UserVa[n][2]) /\ tb[p][UserVa[n][3]] = Leaf(mp[t][n])
Maps(own, tb, mp) ==
  /\ mp \in [Spaces -> [1 .. 4 -> Page \cup {NULL, Trampoline}]]
  /\ OnlyMapped(own, tb, mp) /\ AllMapped(own, tb, mp)

-----------------------------------------------------------------------------
(* NULL is neither a page nor the trampoline. *)
LEMMA NullFacts == NULL \notin Page /\ Trampoline \notin Page /\ Trampoline # NULL /\ Page \subseteq Nat
BY PagesAssumption, VmAssumption DEF Page

(* A role is known by its fields. *)
LEMMA RoleFields ==
  \A k, t, i, j : LET r == Role(k, t, i, j) IN r.kind = k /\ r.task = t /\ r.i = i /\ r.j = j
BY DEF Role

(* Every owner used here is a role. *)
LEMMA RolesOf ==
  /\ Free \in Roles /\ Kept \in Roles /\ Raw \in Roles
  /\ \A t \in Spaces : RootOf(t) \in Roles
  /\ \A t \in Spaces, i \in Index : DirOf(t, i) \in Roles
  /\ \A t \in Spaces, i \in 1 .. 3 : PageOf(t, i) \in Roles
  /\ \A t \in Spaces, i, j \in Index : LastOf(t, i, j) \in Roles
<1>1. /\ Free \in Fields /\ Kept \in Fields /\ Raw \in Fields
      /\ \A t \in Spaces : RootOf(t) \in Fields
      /\ \A t \in Spaces, i \in Nat : DirOf(t, i) \in Fields /\ PageOf(t, i) \in Fields
      /\ \A t \in Spaces, i, j \in Nat : LastOf(t, i, j) \in Fields
  BY SMTT(30) DEF Free, Kept, Raw, RootOf, DirOf, PageOf, LastOf, Role, Fields
<1>2. Index \subseteq Nat /\ 1 .. 3 \subseteq Nat
  BY VmAssumption
<1>3. /\ \A t \in Spaces : TableRole(RootOf(t))
      /\ \A t \in Spaces, i \in Index : TableRole(DirOf(t, i)) /\ \A j \in Index : TableRole(LastOf(t, i, j))
      /\ \A t \in Spaces, i \in 1 .. 3 : PageRole(PageOf(t, i))
  BY DEF TableRole, PageRole
<1> QED  BY <1>1, <1>2, <1>3 DEF Roles

(* Entries are links, leaves or empty, and each is known by its fields. *)
LEMMA PteFacts ==
  /\ \A p : Link(p).leaf = FALSE /\ Link(p).pa = p /\ Leaf(p).leaf = TRUE /\ Leaf(p).pa = p
  /\ NoPte.leaf = FALSE /\ NoPte.pa = NULL /\ NoPte \in Pte
  /\ \A p \in Page \cup {NULL, Trampoline} : Link(p) \in Pte /\ Leaf(p) \in Pte
BY DEF Link, Leaf, NoPte, Pte

(* The same as distinctions. *)
LEMMA PtesDiffer ==
  /\ \A p, q : Link(p) # Leaf(q) /\ (Link(p) = Link(q) => p = q) /\ (Leaf(p) = Leaf(q) => p = q)
  /\ \A p : Leaf(p) # NoPte
  /\ \A p \in Page : Link(p) # NoPte
BY PteFacts, NullFacts

(* A new table is empty. *)
LEMMA NewTableFacts == NewTable \in [Index -> Pte] /\ \A i \in Index : NewTable[i] = NoPte
BY PteFacts DEF NewTable

-----------------------------------------------------------------------------
(* How the owners follow a change of the tables.  First, a page that is no  *)
(* table may change hands without touching one.                             *)
NoTable(r) ==
  \A t \in Spaces : r # RootOf(t) /\ \A i \in Index : r # DirOf(t, i) /\ \A j \in Index : r # LastOf(t, i, j)

(* Pages that nobody has, or that are not used as tables, are no tables. *)
LEMMA NoTableRoles ==
  /\ NoTable(Free) /\ NoTable(Kept) /\ NoTable(Raw)
  /\ \A t \in Spaces, n \in Nat : NoTable(PageOf(t, n))
BY RoleFields DEF NoTable, Free, Kept, Raw, PageOf, RootOf, DirOf, LastOf

(* Such a page changes hands. *)
LEMMA ForestHandOver ==
  ASSUME NEW own, NEW tb, NEW rt, Forest(own, tb, rt),
         NEW p \in Page, NoTable(own[p]), NEW r \in Roles, NoTable(r)
  PROVE  Forest([own EXCEPT ![p] = r], tb, rt)
BY DEF Forest, NoTable, Typed, Roots, RootLinks, DirLinks, DirLinked, LastLinked, OnlyLinks

(* vm_space_init(): a free page becomes the root of t. *)
LEMMA ForestAddRoot ==
  ASSUME NEW own, NEW tb, NEW rt, Forest(own, tb, rt),
         NEW p \in Page, own[p] = Free, NEW t \in Spaces, rt[t] = NULL
  PROVE  Forest([own EXCEPT ![p] = RootOf(t)], [tb EXCEPT ![p] = NewTable], [rt EXCEPT ![t] = p])
<1> DEFINE o == [own EXCEPT ![p] = RootOf(t)]
           b == [tb EXCEPT ![p] = NewTable]
           s == [rt EXCEPT ![t] = p]
<1>1. Typed(o, b, s)
  BY RolesOf, NewTableFacts DEF Forest, Typed
<1>2. /\ \A q \in Page : q # p => o[q] = own[q] /\ b[q] = tb[q]
      /\ o[p] = RootOf(t) /\ b[p] = NewTable /\ s[t] = p
      /\ \A u \in Spaces : u # t => s[u] = rt[u]
  BY DEF Forest, Typed
<1>3. NoTable(own[p])
  BY NoTableRoles
<1>4. /\ \A u \in Spaces : RootOf(t) = RootOf(u) => u = t
      /\ \A u \in Spaces, i \in Index : RootOf(t) # DirOf(u, i)
      /\ \A u \in Spaces, i, j \in Index : RootOf(t) # LastOf(u, i, j)
  BY RoleFields DEF RootOf, DirOf, LastOf
<1>5. \A i \in Index : b[p][i] = NoPte /\ \A c \in Page : b[p][i] # Link(c)
  BY <1>2, NewTableFacts, PtesDiffer
<1> HIDE DEF o, b, s
<1>6. Roots(o, s)
  BY <1>2, <1>3, <1>4, NullFacts DEF Forest, Roots, NoTable
<1>7. RootLinks(o, b)
  BY <1>2, <1>3, <1>5 DEF Forest, RootLinks, NoTable
<1>8. DirLinks(o, b)
  BY <1>2, <1>3, <1>5 DEF Forest, DirLinks, NoTable
<1>9. DirLinked(o, b, s)
  <2>1. ASSUME NEW u \in Spaces, NEW i \in Index, NEW c \in Page, o[c] = DirOf(u, i)
        PROVE  s[u] \in Page /\ b[s[u]][i] = Link(c)
    <3>1. c # p /\ own[c] = DirOf(u, i)
      BY <1>2, <1>4, <2>1
    <3>2. rt[u] \in Page /\ tb[rt[u]][i] = Link(c) /\ own[rt[u]] = RootOf(u)
      BY <3>1 DEF Forest, DirLinked, Roots
    <3>3. u # t /\ rt[u] # p
      BY <1>3, <3>2, NullFacts DEF NoTable
    <3> QED  BY <1>2, <3>2, <3>3
  <2> QED  BY <2>1 DEF DirLinked
<1>10. LastLinked(o, b)
  BY <1>2, <1>3, <1>4 DEF Forest, LastLinked, NoTable
<1>11. OnlyLinks(o, b)
  BY <1>2, <1>5 DEF Forest, OnlyLinks, EmptyOrLink
<1> QED  BY <1>1, <1>6, <1>7, <1>8, <1>9, <1>10, <1>11 DEF Forest, o, b, s

(* The tables b are tb with entry k of table q set to e. *)
EntrySet(tb, b, q, k, e) ==
  /\ b \in [Page -> [Index -> Pte]] /\ b[q][k] = e
  /\ \A m \in Index : m # k => b[q][m] = tb[q][m]

(* Different roles of tables differ. *)
LEMMA TableRoles ==
  /\ \A t, u \in Spaces : RootOf(t) = RootOf(u) => t = u
  /\ \A t, u \in Spaces, i, k \in Index : DirOf(t, i) = DirOf(u, k) => t = u /\ i = k
  /\ \A t, u \in Spaces, i, j, k, m \in Index : LastOf(t, i, j) = LastOf(u, k, m) => t = u /\ i = k /\ j = m
  /\ \A t, u \in Spaces, i \in Index : RootOf(t) # DirOf(u, i)
  /\ \A t, u \in Spaces, i, j \in Index : RootOf(t) # LastOf(u, i, j)
  /\ \A t, u \in Spaces, i, j, k \in Index : DirOf(t, k) # LastOf(u, i, j)
BY RoleFields DEF RootOf, DirOf, LastOf

(* The first level of vm_walk(): a free page becomes the table below entry  *)
(* i of the root.                                                           *)
LEMMA ForestAddDir ==
  ASSUME NEW own, NEW tb, NEW rt, Forest(own, tb, rt), NEW t \in Spaces, NEW i \in Index,
         NEW r \in Page, own[r] = RootOf(t), tb[r][i] = NoPte,
         NEW p \in Page, own[p] = Free,
         NEW b, EntrySet(tb, b, r, i, Link(p)), b[p] = NewTable,
         \A q \in Page : q # p /\ q # r => b[q] = tb[q]
  PROVE  Forest([own EXCEPT ![p] = DirOf(t, i)], b, rt)
<1> DEFINE o == [own EXCEPT ![p] = DirOf(t, i)]
<1>0. i \in Nat
  BY VmAssumption
<1>1. Typed(o, b, rt)
  BY <1>0, RolesOf DEF Forest, Typed, EntrySet
<1>2. /\ \A q \in Page : q # p => o[q] = own[q]
      /\ o[p] = DirOf(t, i) /\ b[p] = NewTable /\ b[r][i] = Link(p)
      /\ \A m \in Index : m # i => b[r][m] = tb[r][m]
      /\ \A q \in Page : q # p /\ q # r => b[q] = tb[q]
  BY DEF Forest, Typed, EntrySet
<1>3. NoTable(own[p]) /\ r # p
  BY NoTableRoles DEF NoTable
<1>4. rt[t] = r /\ \A u \in Spaces : u # t => rt[u] # r
  BY TableRoles DEF Forest, Roots
<1>5. \A k \in Index : b[p][k] = NoPte /\ \A c \in Page : b[p][k] # Link(c)
  BY <1>2, NewTableFacts, PtesDiffer
<1> HIDE DEF o
<1>6. Roots(o, rt)
  BY <1>2, <1>3, TableRoles DEF Forest, Roots, NoTable
<1>7. RootLinks(o, b)
  <2>1. ASSUME NEW u \in Spaces, NEW k \in Index, NEW q \in Page, NEW c \in Page,
               o[q] = RootOf(u), b[q][k] = Link(c)
        PROVE  o[c] = DirOf(u, k)
    <3>1. q # p /\ own[q] = RootOf(u)
      BY <1>2, <2>1, TableRoles
    <3>2. CASE q = r /\ k = i
      BY <1>2, <2>1, <3>1, <3>2, TableRoles, PtesDiffer
    <3>3. CASE ~(q = r /\ k = i)
      <4>1. tb[q][k] = Link(c)
        BY <1>2, <2>1, <3>1, <3>3
      <4>2. own[c] = DirOf(u, k)
        BY <3>1, <4>1 DEF Forest, RootLinks
      <4> QED  BY <1>2, <1>3, <4>2 DEF NoTable
    <3> QED  BY <3>2, <3>3
  <2> QED  BY <2>1 DEF RootLinks
<1>8. DirLinks(o, b)
  <2>1. ASSUME NEW u \in Spaces, NEW k \in Index, NEW j \in Index, NEW q \in Page, NEW c \in Page,
               o[q] = DirOf(u, k), b[q][j] = Link(c)
        PROVE  o[c] = LastOf(u, k, j)
    <3>1. q # p /\ q # r /\ own[q] = DirOf(u, k)
      BY <1>2, <1>3, <1>5, <2>1, TableRoles
    <3>2. own[c] = LastOf(u, k, j)
      BY <1>2, <2>1, <3>1 DEF Forest, DirLinks
    <3> QED  BY <1>2, <1>3, <3>2 DEF NoTable
  <2> QED  BY <2>1 DEF DirLinks
<1>9. DirLinked(o, b, rt)
  <2>1. ASSUME NEW u \in Spaces, NEW k \in Index, NEW c \in Page, o[c] = DirOf(u, k)
        PROVE  rt[u] \in Page /\ b[rt[u]][k] = Link(c)
    <3>1. CASE c = p
      BY <1>2, <1>4, <2>1, <3>1, TableRoles
    <3>2. CASE c # p
      <4>1. rt[u] \in Page /\ tb[rt[u]][k] = Link(c) /\ own[rt[u]] = RootOf(u)
        BY <1>2, <2>1, <3>2 DEF Forest, DirLinked, Roots
      <4>2. rt[u] # p /\ ~(rt[u] = r /\ k = i)
        BY <1>3, <4>1, PtesDiffer DEF NoTable
      <4> QED  BY <1>2, <4>1, <4>2
    <3> QED  BY <3>1, <3>2
  <2> QED  BY <2>1 DEF DirLinked
<1>10. LastLinked(o, b)
  <2>1. ASSUME NEW u \in Spaces, NEW k \in Index, NEW j \in Index, NEW c \in Page, o[c] = LastOf(u, k, j)
        PROVE  \E d \in Page : o[d] = DirOf(u, k) /\ b[d][j] = Link(c)
    <3>1. own[c] = LastOf(u, k, j)
      BY <1>2, <2>1, TableRoles
    <3>2. PICK d \in Page : own[d] = DirOf(u, k) /\ tb[d][j] = Link(c)
      BY <3>1 DEF Forest, LastLinked
    <3>3. d # p /\ d # r
      BY <1>3, <3>2, TableRoles DEF NoTable
    <3> QED  BY <1>2, <3>2, <3>3
  <2> QED  BY <2>1 DEF LastLinked
<1>11. OnlyLinks(o, b)
  <2>1. ASSUME NEW u \in Spaces, NEW k \in Index, NEW j \in Index, NEW q \in Page,
               o[q] = RootOf(u) \/ o[q] = DirOf(u, k)
        PROVE  EmptyOrLink(b[q][j])
    <3>1. CASE q = p
      BY <1>5, <3>1 DEF EmptyOrLink
    <3>2. CASE q # p /\ ~(q = r /\ j = i)
      BY <1>2, <2>1, <3>2 DEF Forest, OnlyLinks
    <3>3. CASE q = r /\ j = i
      BY <1>2, <3>3 DEF EmptyOrLink
    <3> QED  BY <3>1, <3>2, <3>3
  <2> QED  BY <2>1 DEF OnlyLinks
<1> QED  BY <1>1, <1>6, <1>7, <1>8, <1>9, <1>10, <1>11 DEF Forest, o

(* The second level: a free page becomes the table below entry j of the    *)
(* table d.                                                                *)
LEMMA ForestAddLast ==
  ASSUME NEW own, NEW tb, NEW rt, Forest(own, tb, rt), NEW t \in Spaces, NEW i \in Index, NEW j \in Index,
         NEW d \in Page, own[d] = DirOf(t, i), tb[d][j] = NoPte,
         NEW p \in Page, own[p] = Free,
         NEW b, EntrySet(tb, b, d, j, Link(p)), b[p] = NewTable,
         \A q \in Page : q # p /\ q # d => b[q] = tb[q]
  PROVE  Forest([own EXCEPT ![p] = LastOf(t, i, j)], b, rt)
<1> DEFINE o == [own EXCEPT ![p] = LastOf(t, i, j)]
<1>0. i \in Nat /\ j \in Nat
  BY VmAssumption
<1>1. Typed(o, b, rt)
  BY <1>0, RolesOf DEF Forest, Typed, EntrySet
<1>2. /\ \A q \in Page : q # p => o[q] = own[q]
      /\ o[p] = LastOf(t, i, j) /\ b[p] = NewTable /\ b[d][j] = Link(p)
      /\ \A m \in Index : m # j => b[d][m] = tb[d][m]
      /\ \A q \in Page : q # p /\ q # d => b[q] = tb[q]
  BY DEF Forest, Typed, EntrySet
<1>3. NoTable(own[p]) /\ d # p
  BY NoTableRoles DEF NoTable
<1> HIDE DEF o
<1>4. Roots(o, rt)
  BY <1>2, <1>3, TableRoles DEF Forest, Roots, NoTable
<1>5. RootLinks(o, b)
  <2>1. ASSUME NEW u \in Spaces, NEW k \in Index, NEW q \in Page, NEW c \in Page,
               o[q] = RootOf(u), b[q][k] = Link(c)
        PROVE  o[c] = DirOf(u, k)
    <3>1. q # p /\ q # d /\ own[q] = RootOf(u)
      BY <1>2, <1>3, <2>1, TableRoles
    <3>2. own[c] = DirOf(u, k)
      BY <1>2, <2>1, <3>1 DEF Forest, RootLinks
    <3> QED  BY <1>2, <1>3, <3>2 DEF NoTable
  <2> QED  BY <2>1 DEF RootLinks
<1>6. DirLinks(o, b)
  <2>1. ASSUME NEW u \in Spaces, NEW k \in Index, NEW m \in Index, NEW q \in Page, NEW c \in Page,
               o[q] = DirOf(u, k), b[q][m] = Link(c)
        PROVE  o[c] = LastOf(u, k, m)
    <3>1. q # p /\ own[q] = DirOf(u, k)
      BY <1>2, <2>1, TableRoles
    <3>2. CASE q = d /\ m = j
      BY <1>2, <2>1, <3>1, <3>2, TableRoles, PtesDiffer
    <3>3. CASE ~(q = d /\ m = j)
      <4>1. tb[q][m] = Link(c)
        BY <1>2, <2>1, <3>1, <3>3
      <4>2. own[c] = LastOf(u, k, m)
        BY <3>1, <4>1 DEF Forest, DirLinks
      <4> QED  BY <1>2, <1>3, <4>2 DEF NoTable
    <3> QED  BY <3>2, <3>3
  <2> QED  BY <2>1 DEF DirLinks
<1>7. DirLinked(o, b, rt)
  <2>1. ASSUME NEW u \in Spaces, NEW k \in Index, NEW c \in Page, o[c] = DirOf(u, k)
        PROVE  rt[u] \in Page /\ b[rt[u]][k] = Link(c)
    <3>1. c # p
      BY <1>2, <2>1, TableRoles
    <3>2. rt[u] \in Page /\ tb[rt[u]][k] = Link(c) /\ own[rt[u]] = RootOf(u)
      BY <1>2, <2>1, <3>1 DEF Forest, DirLinked, Roots
    <3>3. rt[u] # p /\ rt[u] # d
      BY <1>3, <3>2, TableRoles DEF NoTable
    <3> QED  BY <1>2, <3>2, <3>3
  <2> QED  BY <2>1 DEF DirLinked
<1>8. LastLinked(o, b)
  <2>1. ASSUME NEW u \in Spaces, NEW k \in Index, NEW m \in Index, NEW c \in Page, o[c] = LastOf(u, k, m)
        PROVE  \E q \in Page : o[q] = DirOf(u, k) /\ b[q][m] = Link(c)
    <3>1. CASE c = p
      BY <1>2, <1>3, <2>1, <3>1, TableRoles
    <3>2. CASE c # p
      <4>1. PICK q \in Page : own[q] = DirOf(u, k) /\ tb[q][m] = Link(c)
        BY <1>2, <2>1, <3>2 DEF Forest, LastLinked
      <4>2. q # p /\ ~(q = d /\ m = j)
        BY <1>3, <4>1, PtesDiffer DEF NoTable
      <4> QED  BY <1>2, <4>1, <4>2
    <3> QED  BY <3>1, <3>2
  <2> QED  BY <2>1 DEF LastLinked
<1>9. OnlyLinks(o, b)
  <2>1. ASSUME NEW u \in Spaces, NEW k \in Index, NEW m \in Index, NEW q \in Page,
               o[q] = RootOf(u) \/ o[q] = DirOf(u, k)
        PROVE  EmptyOrLink(b[q][m])
    <3>1. q # p /\ own[q] = o[q]
      BY <1>2, <2>1, TableRoles
    <3>2. CASE ~(q = d /\ m = j)
      <4>1. b[q][m] = tb[q][m]
        BY <1>2, <3>1, <3>2
      <4> QED  BY <2>1, <3>1, <4>1 DEF Forest, OnlyLinks
    <3>3. CASE q = d /\ m = j
      BY <1>2, <3>3 DEF EmptyOrLink
    <3> QED  BY <3>2, <3>3
  <2> QED  BY <2>1 DEF OnlyLinks
<1> QED  BY <1>1, <1>4, <1>5, <1>6, <1>7, <1>8, <1>9 DEF Forest, o

(* A table of the last level without entries leaves its parent d: the      *)
(* entry is cleared and the page is free.                                  *)
LEMMA ForestDropLast ==
  ASSUME NEW own, NEW tb, NEW rt, Forest(own, tb, rt), NEW t \in Spaces, NEW i \in Index, NEW j \in Index,
         NEW d \in Page, own[d] = DirOf(t, i), NEW p \in Page, tb[d][j] = Link(p),
         NEW b, EntrySet(tb, b, d, j, NoPte), \A q \in Page : q # d => b[q] = tb[q]
  PROVE  own[p] = LastOf(t, i, j) /\ Forest([own EXCEPT ![p] = Free], b, rt)
<1> DEFINE o == [own EXCEPT ![p] = Free]
<1>1. Typed(o, b, rt)
  BY RolesOf DEF Forest, Typed, EntrySet
<1>2. /\ \A q \in Page : q # p => o[q] = own[q]
      /\ o[p] = Free /\ b[d][j] = NoPte
      /\ \A m \in Index : m # j => b[d][m] = tb[d][m]
      /\ \A q \in Page : q # d => b[q] = tb[q]
  BY DEF Forest, Typed, EntrySet
<1>3. NoTable(o[p])
  BY <1>2, NoTableRoles
<1>4. own[p] = LastOf(t, i, j)
  BY DEF Forest, DirLinks
<1>5. \A q \in Page, m \in Index, c \in Page : b[q][m] = Link(c) => tb[q][m] = Link(c) /\ ~(q = d /\ m = j)
  BY <1>2, PtesDiffer
<1> HIDE DEF o
<1>6. Roots(o, rt)
  BY <1>2, <1>3, <1>4, TableRoles DEF Forest, Roots, NoTable
<1>7. RootLinks(o, b)
  <2>1. ASSUME NEW u \in Spaces, NEW k \in Index, NEW q \in Page, NEW c \in Page,
               o[q] = RootOf(u), b[q][k] = Link(c)
        PROVE  o[c] = DirOf(u, k)
    <3>1. own[q] = RootOf(u) /\ tb[q][k] = Link(c)
      BY <1>2, <1>3, <1>5, <2>1 DEF NoTable
    <3>2. own[c] = DirOf(u, k)
      BY <3>1 DEF Forest, RootLinks
    <3> QED  BY <1>2, <1>4, <3>2, TableRoles
  <2> QED  BY <2>1 DEF RootLinks
<1>8. DirLinks(o, b)
  <2>1. ASSUME NEW u \in Spaces, NEW k \in Index, NEW m \in Index, NEW q \in Page, NEW c \in Page,
               o[q] = DirOf(u, k), b[q][m] = Link(c)
        PROVE  o[c] = LastOf(u, k, m)
    <3>1. own[q] = DirOf(u, k) /\ tb[q][m] = Link(c) /\ ~(q = d /\ m = j)
      BY <1>2, <1>3, <1>5, <2>1 DEF NoTable
    <3>2. own[c] = LastOf(u, k, m)
      BY <3>1 DEF Forest, DirLinks
    <3>3. c # p
      <4>1. SUFFICES ASSUME c = p PROVE FALSE
        OBVIOUS
      <4>2. u = t /\ k = i /\ m = j
        BY <1>4, <3>2, <4>1, TableRoles
      <4>3. rt[t] \in Page /\ tb[rt[t]][i] = Link(q) /\ tb[rt[t]][i] = Link(d)
        BY <3>1, <4>2 DEF Forest, DirLinked
      <4> QED  BY <3>1, <4>2, <4>3, PtesDiffer
    <3> QED  BY <1>2, <3>2, <3>3
  <2> QED  BY <2>1 DEF DirLinks
<1>9. DirLinked(o, b, rt)
  <2>1. ASSUME NEW u \in Spaces, NEW k \in Index, NEW c \in Page, o[c] = DirOf(u, k)
        PROVE  rt[u] \in Page /\ b[rt[u]][k] = Link(c)
    <3>1. own[c] = DirOf(u, k)
      BY <1>2, <1>3, <2>1 DEF NoTable
    <3>2. rt[u] \in Page /\ tb[rt[u]][k] = Link(c) /\ own[rt[u]] = RootOf(u)
      BY <3>1 DEF Forest, DirLinked, Roots
    <3>3. rt[u] # d
      BY <3>2, TableRoles
    <3> QED  BY <1>2, <3>2, <3>3
  <2> QED  BY <2>1 DEF DirLinked
<1>10. LastLinked(o, b)
  <2>1. ASSUME NEW u \in Spaces, NEW k \in Index, NEW m \in Index, NEW c \in Page, o[c] = LastOf(u, k, m)
        PROVE  \E q \in Page : o[q] = DirOf(u, k) /\ b[q][m] = Link(c)
    <3>1. c # p /\ own[c] = LastOf(u, k, m)
      BY <1>2, <1>3, <2>1 DEF NoTable
    <3>2. PICK q \in Page : own[q] = DirOf(u, k) /\ tb[q][m] = Link(c)
      BY <3>1 DEF Forest, LastLinked
    <3>3. q # p /\ ~(q = d /\ m = j)
      BY <1>4, <3>1, <3>2, PtesDiffer, TableRoles
    <3> QED  BY <1>2, <3>2, <3>3
  <2> QED  BY <2>1 DEF LastLinked
<1>11. OnlyLinks(o, b)
  <2>1. ASSUME NEW u \in Spaces, NEW k \in Index, NEW m \in Index, NEW q \in Page,
               o[q] = RootOf(u) \/ o[q] = DirOf(u, k)
        PROVE  EmptyOrLink(b[q][m])
    <3>1. own[q] = o[q]
      BY <1>2, <1>3, <2>1 DEF NoTable
    <3>2. b[q][m] = tb[q][m] \/ b[q][m] = NoPte
      BY <1>2
    <3>3. EmptyOrLink(tb[q][m])
      BY <2>1, <3>1 DEF Forest, OnlyLinks
    <3> QED  BY <3>2, <3>3 DEF EmptyOrLink
  <2> QED  BY <2>1 DEF OnlyLinks
<1> QED  BY <1>1, <1>4, <1>6, <1>7, <1>8, <1>9, <1>10, <1>11 DEF Forest, o

(* A table of the second level without entries leaves the root r.          *)
LEMMA ForestDropDir ==
  ASSUME NEW own, NEW tb, NEW rt, Forest(own, tb, rt), NEW t \in Spaces, NEW i \in Index,
         NEW r \in Page, own[r] = RootOf(t), NEW p \in Page, tb[r][i] = Link(p),
         \A j \in Index : tb[p][j] = NoPte,
         NEW b, EntrySet(tb, b, r, i, NoPte), \A q \in Page : q # r => b[q] = tb[q]
  PROVE  own[p] = DirOf(t, i) /\ Forest([own EXCEPT ![p] = Free], b, rt)
<1> DEFINE o == [own EXCEPT ![p] = Free]
<1>1. Typed(o, b, rt)
  BY RolesOf DEF Forest, Typed, EntrySet
<1>2. /\ \A q \in Page : q # p => o[q] = own[q]
      /\ o[p] = Free /\ b[r][i] = NoPte
      /\ \A m \in Index : m # i => b[r][m] = tb[r][m]
      /\ \A q \in Page : q # r => b[q] = tb[q]
  BY DEF Forest, Typed, EntrySet
<1>3. NoTable(o[p])
  BY <1>2, NoTableRoles
<1>4. own[p] = DirOf(t, i)
  BY DEF Forest, RootLinks
<1>5. \A q \in Page, m \in Index, c \in Page : b[q][m] = Link(c) => tb[q][m] = Link(c) /\ ~(q = r /\ m = i)
  BY <1>2, PtesDiffer
<1> HIDE DEF o
<1>6. Roots(o, rt)
  BY <1>2, <1>3, <1>4, TableRoles DEF Forest, Roots, NoTable
<1>7. RootLinks(o, b)
  <2>1. ASSUME NEW u \in Spaces, NEW k \in Index, NEW q \in Page, NEW c \in Page,
               o[q] = RootOf(u), b[q][k] = Link(c)
        PROVE  o[c] = DirOf(u, k)
    <3>1. own[q] = RootOf(u) /\ tb[q][k] = Link(c) /\ ~(q = r /\ k = i)
      BY <1>2, <1>3, <1>5, <2>1 DEF NoTable
    <3>2. own[c] = DirOf(u, k)
      BY <3>1 DEF Forest, RootLinks
    <3>3. c # p
      <4>1. SUFFICES ASSUME c = p PROVE FALSE
        OBVIOUS
      <4>2. u = t /\ k = i
        BY <1>4, <3>2, <4>1, TableRoles
      <4>3. rt[t] = q /\ rt[t] = r
        BY <3>1, <4>2 DEF Forest, Roots
      <4> QED  BY <3>1, <4>2, <4>3
    <3> QED  BY <1>2, <3>2, <3>3
  <2> QED  BY <2>1 DEF RootLinks
<1>8. DirLinks(o, b)
  <2>1. ASSUME NEW u \in Spaces, NEW k \in Index, NEW m \in Index, NEW q \in Page, NEW c \in Page,
               o[q] = DirOf(u, k), b[q][m] = Link(c)
        PROVE  o[c] = LastOf(u, k, m)
    <3>1. own[q] = DirOf(u, k) /\ tb[q][m] = Link(c)
      BY <1>2, <1>3, <1>5, <2>1 DEF NoTable
    <3>2. own[c] = LastOf(u, k, m)
      BY <3>1 DEF Forest, DirLinks
    <3> QED  BY <1>2, <1>4, <3>2, TableRoles
  <2> QED  BY <2>1 DEF DirLinks
<1>9. DirLinked(o, b, rt)
  <2>1. ASSUME NEW u \in Spaces, NEW k \in Index, NEW c \in Page, o[c] = DirOf(u, k)
        PROVE  rt[u] \in Page /\ b[rt[u]][k] = Link(c)
    <3>1. c # p /\ own[c] = DirOf(u, k)
      BY <1>2, <1>3, <2>1 DEF NoTable
    <3>2. rt[u] \in Page /\ tb[rt[u]][k] = Link(c)
      BY <3>1 DEF Forest, DirLinked
    <3>3. ~(rt[u] = r /\ k = i)
      BY <3>1, <3>2, PtesDiffer
    <3> QED  BY <1>2, <3>2, <3>3
  <2> QED  BY <2>1 DEF DirLinked
<1>10. LastLinked(o, b)
  <2>1. ASSUME NEW u \in Spaces, NEW k \in Index, NEW m \in Index, NEW c \in Page, o[c] = LastOf(u, k, m)
        PROVE  \E q \in Page : o[q] = DirOf(u, k) /\ b[q][m] = Link(c)
    <3>1. own[c] = LastOf(u, k, m)
      BY <1>2, <1>3, <2>1 DEF NoTable
    <3>2. PICK q \in Page : own[q] = DirOf(u, k) /\ tb[q][m] = Link(c)
      BY <3>1 DEF Forest, LastLinked
    <3>3. q # p /\ q # r
      BY <3>2, PtesDiffer, TableRoles
    <3> QED  BY <1>2, <3>2, <3>3
  <2> QED  BY <2>1 DEF LastLinked
<1>11. OnlyLinks(o, b)
  <2>1. ASSUME NEW u \in Spaces, NEW k \in Index, NEW m \in Index, NEW q \in Page,
               o[q] = RootOf(u) \/ o[q] = DirOf(u, k)
        PROVE  EmptyOrLink(b[q][m])
    <3>1. own[q] = o[q]
      BY <1>2, <1>3, <2>1 DEF NoTable
    <3>2. b[q][m] = tb[q][m] \/ b[q][m] = NoPte
      BY <1>2
    <3>3. EmptyOrLink(tb[q][m])
      BY <2>1, <3>1 DEF Forest, OnlyLinks
    <3> QED  BY <3>2, <3>3 DEF EmptyOrLink
  <2> QED  BY <2>1 DEF OnlyLinks
<1> QED  BY <1>1, <1>4, <1>6, <1>7, <1>8, <1>9, <1>10, <1>11 DEF Forest, o

(* A root without entries is given up. *)
LEMMA ForestDropRoot ==
  ASSUME NEW own, NEW tb, NEW rt, Forest(own, tb, rt), NEW t \in Spaces,
         NEW r \in Page, own[r] = RootOf(t), \A j \in Index : tb[r][j] = NoPte
  PROVE  Forest([own EXCEPT ![r] = Free], tb, [rt EXCEPT ![t] = NULL])
<1> DEFINE o == [own EXCEPT ![r] = Free]
           s == [rt EXCEPT ![t] = NULL]
<1>1. Typed(o, tb, s)
  BY RolesOf DEF Forest, Typed
<1>2. /\ \A q \in Page : q # r => o[q] = own[q]
      /\ o[r] = Free /\ s[t] = NULL /\ \A u \in Spaces : u # t => s[u] = rt[u]
  BY DEF Forest, Typed
<1>3. NoTable(o[r]) /\ rt[t] = r
  BY <1>2, NoTableRoles DEF Forest, Roots
<1> HIDE DEF o, s
<1>4. Roots(o, s)
  BY <1>2, <1>3, TableRoles, NullFacts DEF Forest, Roots, NoTable
<1>5. RootLinks(o, tb)
  BY <1>2, <1>3, TableRoles DEF Forest, RootLinks, NoTable
<1>6. DirLinks(o, tb)
  BY <1>2, <1>3, TableRoles DEF Forest, DirLinks, NoTable
<1>7. DirLinked(o, tb, s)
  <2>1. ASSUME NEW u \in Spaces, NEW k \in Index, NEW c \in Page, o[c] = DirOf(u, k)
        PROVE  s[u] \in Page /\ tb[s[u]][k] = Link(c)
    <3>1. own[c] = DirOf(u, k)
      BY <1>2, <1>3, <2>1 DEF NoTable
    <3>2. rt[u] \in Page /\ tb[rt[u]][k] = Link(c)
      BY <3>1 DEF Forest, DirLinked
    <3>3. u # t
      BY <1>3, <3>2, PtesDiffer
    <3> QED  BY <1>2, <3>2, <3>3
  <2> QED  BY <2>1 DEF DirLinked
<1>8. LastLinked(o, tb)
  <2>1. ASSUME NEW u \in Spaces, NEW k \in Index, NEW m \in Index, NEW c \in Page, o[c] = LastOf(u, k, m)
        PROVE  \E q \in Page : o[q] = DirOf(u, k) /\ tb[q][m] = Link(c)
    <3>1. own[c] = LastOf(u, k, m)
      BY <1>2, <1>3, <2>1 DEF NoTable
    <3>2. PICK q \in Page : own[q] = DirOf(u, k) /\ tb[q][m] = Link(c)
      BY <3>1 DEF Forest, LastLinked
    <3> QED  BY <1>2, <3>2, TableRoles
  <2> QED  BY <2>1 DEF LastLinked
<1>9. OnlyLinks(o, tb)
  BY <1>2, <1>3 DEF Forest, OnlyLinks, NoTable
<1> QED  BY <1>1, <1>4, <1>5, <1>6, <1>7, <1>8, <1>9 DEF Forest, o, s

(* A last-level entry is written: nothing above it changes. *)
LEMMA ForestSetLast ==
  ASSUME NEW own, NEW tb, NEW rt, Forest(own, tb, rt), NEW t \in Spaces, NEW i \in Index, NEW j \in Index,
         NEW l \in Page, own[l] = LastOf(t, i, j),
         NEW b \in [Page -> [Index -> Pte]], \A q \in Page : q # l => b[q] = tb[q]
  PROVE  Forest(own, b, rt)
<1>1. Typed(own, b, rt) /\ Roots(own, rt)
  BY DEF Forest, Typed
<1>2. \A q \in Page, u \in Spaces, k \in Index : own[q] = RootOf(u) \/ own[q] = DirOf(u, k) => b[q] = tb[q]
  BY TableRoles
<1>3. RootLinks(own, b)
  BY <1>2 DEF Forest, RootLinks
<1>4. DirLinks(own, b)
  BY <1>2 DEF Forest, DirLinks
<1>5. DirLinked(own, b, rt)
  BY <1>2 DEF Forest, DirLinked, Roots
<1>6. LastLinked(own, b)
  BY <1>2 DEF Forest, LastLinked
<1>7. OnlyLinks(own, b)
  BY <1>2 DEF Forest, OnlyLinks
<1> QED  BY <1>1, <1>3, <1>4, <1>5, <1>6, <1>7 DEF Forest

-----------------------------------------------------------------------------
(* How the mappings follow.  The four addresses are different. *)
LEMMA UserVaFacts ==
  /\ \A n \in 1 .. 4 : UserVa[n][1] \in Index /\ UserVa[n][2] \in Index /\ UserVa[n][3] \in Index
  /\ \A n, m \in 1 .. 4 :
       UserVa[n][1] = UserVa[m][1] /\ UserVa[n][2] = UserVa[m][2] /\ UserVa[n][3] = UserVa[m][3] => n = m
<1>1. \A n \in 1 .. 4 : UserVa[n][1] \in Index /\ UserVa[n][2] \in Index /\ UserVa[n][3] \in Index
  BY UserVaAssumption
<1>2. /\ UserVa[1][1] = 0 /\ UserVa[1][2] = 0 /\ UserVa[1][3] = 0
      /\ UserVa[2][1] = 0 /\ UserVa[2][2] = 1 /\ UserVa[2][3] = 1
      /\ UserVa[3][1] = 1 /\ UserVa[3][2] = 1 /\ UserVa[3][3] = 1
      /\ UserVa[4][1] = 1 /\ UserVa[4][2] = 1 /\ UserVa[4][3] = 0
  BY DEF UserVa
<1>3. \A n \in 1 .. 4 : n = 1 \/ n = 2 \/ n = 3 \/ n = 4
  OBVIOUS
<1> QED  BY <1>1, <1>2, <1>3

(* No two pages are the same last-level table, or the same table above it. *)
LEMMA TablesUnique ==
  ASSUME NEW own, NEW tb, NEW rt, Forest(own, tb, rt), NEW t \in Spaces, NEW i \in Index,
         NEW p \in Page, NEW q \in Page
  PROVE  /\ own[p] = DirOf(t, i) /\ own[q] = DirOf(t, i) => p = q
         /\ \A j \in Index : own[p] = LastOf(t, i, j) /\ own[q] = LastOf(t, i, j) => p = q
<1>1. \A c, d \in Page : own[c] = DirOf(t, i) /\ own[d] = DirOf(t, i) => c = d
  BY PtesDiffer DEF Forest, DirLinked
<1>2. ASSUME NEW j \in Index, own[p] = LastOf(t, i, j), own[q] = LastOf(t, i, j) PROVE p = q
  <2>1. PICK c \in Page : own[c] = DirOf(t, i) /\ tb[c][j] = Link(p)
    BY <1>2 DEF Forest, LastLinked
  <2>2. PICK d \in Page : own[d] = DirOf(t, i) /\ tb[d][j] = Link(q)
    BY <1>2 DEF Forest, LastLinked
  <2> QED  BY <1>1, <2>1, <2>2, PtesDiffer
<1> QED  BY <1>1, <1>2

(* Tables without entries come and go. *)
LEMMA MapsFrame ==
  ASSUME NEW own, NEW tb, NEW mp, Maps(own, tb, mp), NEW o, NEW b,
         \A q \in Page, t \in Spaces, i, j \in Index : o[q] = LastOf(t, i, j) =>
           (own[q] = o[q] /\ b[q] = tb[q]) \/ \A k \in Index : b[q][k] = NoPte,
         \A q \in Page, t \in Spaces, i, j \in Index : own[q] = LastOf(t, i, j) =>
           (own[q] = o[q] /\ b[q] = tb[q]) \/ \A k \in Index : tb[q][k] = NoPte
  PROVE  Maps(o, b, mp)
<1>1. OnlyMapped(o, b, mp)
  BY DEF Maps, OnlyMapped
<1>2. AllMapped(o, b, mp)
  <2>1. ASSUME NEW t \in Spaces, NEW n \in 1 .. 4, mp[t][n] # NULL
        PROVE  \E p \in Page : o[p] = LastOf(t, UserVa[n][1], UserVa[n][2]) /\ b[p][UserVa[n][3]] = Leaf(mp[t][n])
    <3>1. PICK p \in Page : own[p] = LastOf(t, UserVa[n][1], UserVa[n][2]) /\ tb[p][UserVa[n][3]] = Leaf(mp[t][n])
      BY <2>1 DEF Maps, AllMapped
    <3>2. ~\A k \in Index : tb[p][k] = NoPte
      BY <3>1, UserVaFacts, PtesDiffer
    <3>3. o[p] = own[p] /\ b[p] = tb[p]
      BY <3>1, <3>2, UserVaFacts
    <3> QED  BY <3>1, <3>3
  <2> QED  BY <2>1 DEF AllMapped
<1> QED  BY <1>1, <1>2 DEF Maps

(* The entry of the n-th address of t is written: e is a leaf or empty, and *)
(* pa what the address is then mapped to.                                   *)
LEMMA MapsSet ==
  ASSUME NEW own, NEW tb, NEW rt, Forest(own, tb, rt), NEW mp, Maps(own, tb, mp),
         NEW t \in Spaces, NEW n \in 1 .. 4, NEW l \in Page, own[l] = LastOf(t, UserVa[n][1], UserVa[n][2]),
         NEW pa \in Page \cup {NULL, Trampoline}, NEW b,
         EntrySet(tb, b, l, UserVa[n][3], IF pa = NULL THEN NoPte ELSE Leaf(pa)),
         \A q \in Page : q # l => b[q] = tb[q]
  PROVE  Maps(own, b, [mp EXCEPT ![t] = [mp[t] EXCEPT ![n] = pa]])
<1> DEFINE m == [mp EXCEPT ![t] = [mp[t] EXCEPT ![n] = pa]]
<1>1. m \in [Spaces -> [1 .. 4 -> Page \cup {NULL, Trampoline}]]
  BY DEF Maps
<1>2. /\ \A u \in Spaces, k \in 1 .. 4 : ~(u = t /\ k = n) => m[u][k] = mp[u][k]
      /\ m[t][n] = pa
  BY DEF Maps
<1> HIDE DEF m
<1>3. /\ b[l][UserVa[n][3]] = IF pa = NULL THEN NoPte ELSE Leaf(pa)
      /\ \A k \in Index : k # UserVa[n][3] => b[l][k] = tb[l][k]
  BY DEF EntrySet
<1>4. OnlyMapped(own, b, m)
  <2>1. ASSUME NEW u \in Spaces, NEW i \in Index, NEW j \in Index, NEW k \in Index, NEW p \in Page,
               own[p] = LastOf(u, i, j), b[p][k] # NoPte
        PROVE  \E x \in 1 .. 4 : /\ UserVa[x][1] = i /\ UserVa[x][2] = j /\ UserVa[x][3] = k
                                 /\ m[u][x] # NULL /\ b[p][k] = Leaf(m[u][x])
    <3>1. CASE p = l /\ k = UserVa[n][3]
      <4>0. LastOf(u, i, j) = LastOf(t, UserVa[n][1], UserVa[n][2])
        BY <2>1, <3>1
      <4>1. u = t /\ i = UserVa[n][1] /\ j = UserVa[n][2]
        BY <4>0, RoleFields DEF LastOf
      <4> QED  BY <1>2, <1>3, <2>1, <3>1, <4>1
    <3>2. CASE ~(p = l /\ k = UserVa[n][3])
      <4>1. b[p][k] = tb[p][k]
        BY <1>3, <3>2
      <4>2. PICK x \in 1 .. 4 : /\ UserVa[x][1] = i /\ UserVa[x][2] = j /\ UserVa[x][3] = k
                                /\ mp[u][x] # NULL /\ tb[p][k] = Leaf(mp[u][x])
        BY <2>1, <4>1 DEF Maps, OnlyMapped
      <4>3. ~(u = t /\ x = n)
        BY <2>1, <3>2, <4>2, TablesUnique, UserVaFacts
      <4> QED  BY <1>2, <4>1, <4>2, <4>3
    <3> QED  BY <3>1, <3>2
  <2> QED  BY <2>1 DEF OnlyMapped
<1>5. AllMapped(own, b, m)
  <2>1. ASSUME NEW u \in Spaces, NEW x \in 1 .. 4, m[u][x] # NULL
        PROVE  \E p \in Page : own[p] = LastOf(u, UserVa[x][1], UserVa[x][2]) /\ b[p][UserVa[x][3]] = Leaf(m[u][x])
    <3>1. CASE u = t /\ x = n
      BY <1>2, <1>3, <2>1, <3>1
    <3>2. CASE ~(u = t /\ x = n)
      <4>1. m[u][x] = mp[u][x]
        BY <1>2, <3>2
      <4>2. PICK p \in Page : own[p] = LastOf(u, UserVa[x][1], UserVa[x][2]) /\ tb[p][UserVa[x][3]] = Leaf(mp[u][x])
        BY <2>1, <4>1 DEF Maps, AllMapped
      <4>3. ~(p = l /\ UserVa[x][3] = UserVa[n][3])
        <5>1. SUFFICES ASSUME p = l, UserVa[x][3] = UserVa[n][3] PROVE FALSE
          OBVIOUS
        <5>2. LastOf(u, UserVa[x][1], UserVa[x][2]) = LastOf(t, UserVa[n][1], UserVa[n][2])
          BY <4>2, <5>1
        <5>3. u = t /\ UserVa[x][1] = UserVa[n][1] /\ UserVa[x][2] = UserVa[n][2]
          BY <5>2, RoleFields DEF LastOf
        <5> QED  BY <3>2, <5>1, <5>3, UserVaFacts
      <4>4. b[p][UserVa[x][3]] = tb[p][UserVa[x][3]]
        BY <1>3, <4>3, UserVaFacts
      <4> QED  BY <4>1, <4>2, <4>4
    <3> QED  BY <3>1, <3>2
  <2> QED  BY <2>1 DEF AllMapped
<1> QED  BY <1>1, <1>4, <1>5 DEF Maps, m

-----------------------------------------------------------------------------
(* What the code finds in tables that agree with their owners. *)

(* A link leads to the table it should, an empty entry to none. *)
LEMMA EntryLeads ==
  ASSUME NEW e, EmptyOrLink(e), NEW p \in Page, NEW c, c = IF p = NULL \/ e.leaf THEN NULL ELSE e.pa
  PROVE  (c = NULL /\ e = NoPte) \/ (c \in Page /\ e = Link(c))
<1>1. p # NULL
  BY NullFacts
<1>2. CASE e = NoPte
  BY <1>1, <1>2, PteFacts
<1>3. ASSUME NEW q \in Page, e = Link(q) PROVE c = q
  BY <1>1, <1>3, PteFacts
<1> QED  BY <1>2, <1>3 DEF EmptyOrLink

(* vm_walk() finds a table that is there, and nothing else. *)
LEMMA WalkFinds ==
  ASSUME NEW own, Forest(own, table, root), NEW t \in Spaces, NEW va,
         va[1] \in Index, va[2] \in Index
  PROVE  /\ \A p \in Page : own[p] = LastOf(t, va[1], va[2]) => vm_walk(t, va) = p
         /\ vm_walk(t, va) = NULL \/ (vm_walk(t, va) \in Page /\ own[vm_walk(t, va)] = LastOf(t, va[1], va[2]))
<1>1. PICK i \in Index, j \in Index : i = va[1] /\ j = va[2]
  OBVIOUS
<1>2. PICK r, d, l : /\ r = root[t] /\ l = vm_walk(t, va)
                     /\ d = IF r = NULL \/ table[r][i].leaf THEN NULL ELSE table[r][i].pa
                     /\ l = IF d = NULL \/ table[d][j].leaf THEN NULL ELSE table[d][j].pa
  BY <1>1 DEF vm_walk, Child
<1>3. d = NULL \/ (d \in Page /\ r \in Page /\ table[r][i] = Link(d) /\ own[d] = DirOf(t, i))
  <2>1. r \in Page \cup {NULL} /\ (r \in Page => own[r] = RootOf(t))
    BY <1>2 DEF Forest, Typed, Roots
  <2>2. CASE r = NULL
    BY <1>2, <2>2
  <2>3. CASE r \in Page
    <3>1. EmptyOrLink(table[r][i])
      BY <2>1, <2>3 DEF Forest, OnlyLinks
    <3>2. d = NULL \/ (d \in Page /\ table[r][i] = Link(d))
      BY <1>2, <2>3, <3>1, EntryLeads
    <3> QED  BY <2>1, <2>3, <3>2 DEF Forest, RootLinks
  <2> QED  BY <2>1, <2>2, <2>3
<1>4. l = NULL \/ (l \in Page /\ d \in Page /\ table[d][j] = Link(l) /\ own[l] = LastOf(t, i, j))
  <2>1. CASE d = NULL
    BY <1>2, <2>1
  <2>2. CASE d \in Page /\ own[d] = DirOf(t, i)
    <3>1. EmptyOrLink(table[d][j])
      BY <2>2 DEF Forest, OnlyLinks
    <3>2. l = NULL \/ (l \in Page /\ table[d][j] = Link(l))
      BY <1>2, <2>2, <3>1, EntryLeads
    <3> QED  BY <2>2, <3>2 DEF Forest, DirLinks
  <2> QED  BY <1>3, <2>1, <2>2
<1>5. ASSUME NEW p \in Page, own[p] = LastOf(t, i, j) PROVE l = p
  <2>1. PICK c \in Page : own[c] = DirOf(t, i) /\ table[c][j] = Link(p)
    BY <1>5 DEF Forest, LastLinked
  <2>2. r \in Page /\ table[r][i] = Link(c)
    BY <1>2, <2>1 DEF Forest, DirLinked
  <2>3. d = c
    BY <1>2, <2>2, PteFacts, NullFacts
  <2> QED  BY <1>2, <2>1, <2>3, PteFacts, NullFacts
<1> QED  BY <1>1, <1>2, <1>4, <1>5

(* vm_translate() returns what the address is mapped to. *)
LEMMA TranslateIs ==
  ASSUME NEW own, Forest(own, table, root), NEW mp, Maps(own, table, mp), NEW t \in Spaces, NEW n \in 1 .. 4
  PROVE  /\ vm_translate(t, UserVa[n]) = mp[t][n]
         /\ mp[t][n] # NULL => /\ vm_walk(t, UserVa[n]) \in Page
                               /\ own[vm_walk(t, UserVa[n])] = LastOf(t, UserVa[n][1], UserVa[n][2])
<1>1. PICK va : va = UserVa[n]
  OBVIOUS
<1>0. PICK i \in Index, j \in Index, k \in Index : i = va[1] /\ j = va[2] /\ k = va[3]
  BY <1>1, <1>0, UserVaFacts
<1>2. PICK l : l = vm_walk(t, va)
  OBVIOUS
<1>3. /\ \A p \in Page : own[p] = LastOf(t, i, j) => l = p
      /\ l = NULL \/ (l \in Page /\ own[l] = LastOf(t, i, j))
  BY <1>1, <1>0, <1>2, WalkFinds
<1>4. vm_translate(t, va) = IF l # NULL /\ table[l][k].leaf THEN table[l][k].pa ELSE NULL
  BY <1>1, <1>0, <1>2 DEF vm_translate
<1>5. CASE mp[t][n] = NULL
  <2>1. ASSUME l # NULL PROVE table[l][k] = NoPte
    <3>1. l \in Page /\ own[l] = LastOf(t, i, j)
      BY <1>3, <2>1
    <3>2. SUFFICES ASSUME NEW x \in 1 .. 4, UserVa[x][1] = i, UserVa[x][2] = j, UserVa[x][3] = k,
                          mp[t][x] # NULL
                   PROVE  FALSE
      BY <3>1 DEF Maps, OnlyMapped
    <3>3. x = n
      BY <1>1, <1>0, <3>2, UserVaFacts
    <3> QED  BY <1>5, <3>2, <3>3
  <2> QED  BY <1>1, <1>0, <1>4, <1>5, <2>1, PteFacts
<1>6. CASE mp[t][n] # NULL
  <2>1. PICK p \in Page : own[p] = LastOf(t, i, j) /\ table[p][k] = Leaf(mp[t][n])
    BY <1>1, <1>0, <1>6 DEF Maps, AllMapped
  <2>2. l = p /\ l # NULL
    BY <1>3, <2>1, NullFacts
  <2> QED  BY <1>1, <1>0, <1>2, <1>4, <2>1, <2>2, PteFacts
<1> QED  BY <1>5, <1>6

-----------------------------------------------------------------------------
(* The inductive invariant. *)

(* The owners agree with the bitmap bm and with what other code has. *)
Owners(own, bm, kp, rw) ==
  /\ \A p \in Page : bm[p] <=> own[p] # Free
  /\ \A p \in Page : p \in kp <=> own[p] = Kept
  /\ \A p \in Page : p \in rw <=> own[p] = Raw
  /\ kp \subseteq Page /\ rw \subseteq Page

(* The owners agree with the pages pg of the tasks; a task at c has given   *)
(* up its n-th page once its frees are past it.                             *)
Live(c, n) == c.at = "free" => n >= c.n
HasPages(own, pg, c) ==
  \A t \in Spaces, n \in 1 .. 3, p \in Page : own[p] = PageOf(t, n) <=> pg[t][n] = p /\ Live(c[t], n)

Places == {"idle", "alloc", "map", "walk", "unmap", "destroy", "free"}
PcType == [at : Places, n : 0 .. 4, exiting : BOOLEAN]
Step3  == Page \X Index \X Page
WalkType ==
  [space : Spaces \cup {NULL}, va : {NULL} \cup {UserVa[n] : n \in 1 .. 4}, level : 0 .. 2,
   at : Page \cup {NULL}, new : Seq(Step3), rollback : BOOLEAN, before : SUBSET Page]
TaskTyped ==
  /\ task \in [Spaces -> {"UNUSED", "READY", "EXITED", "DESTROYED"}]
  /\ pages \in [Spaces -> [1 .. 3 -> Page \cup {NULL}]]
  /\ pc \in [Spaces -> PcType]
  /\ walk \in WalkType

(* What the n-th address of a task with pages pg should be mapped to. *)
Target(pg, n) == <<pg[1], pg[2], Trampoline, pg[3]>>[n]
Complete(pg)  == \A n \in 1 .. 3 : pg[n] # NULL
NoMaps(m)     == \A n \in 1 .. 4 : m[n] = NULL
HasRoot == {"alloc", "map", "walk", "unmap", "destroy"}

(* A task at c in state tk, with root rt, pages pg and mappings m. *)
TaskOK(c, tk, rt, pg, m) ==
  /\ rt # NULL <=> c.at \in HasRoot \/ tk = "READY"
  /\ tk = "READY" => c.at = "idle" /\ Complete(pg) /\ \A n \in 1 .. 4 : m[n] = Target(pg, n)
  /\ c.at = "idle" /\ tk # "READY" => pg = NoPages
  /\ c.at \in {"idle", "alloc", "destroy", "free"} /\ tk # "READY" => NoMaps(m)
  /\ c.at = "alloc" => c.n \in 1 .. 3 /\ \A n \in 1 .. 3 : n >= c.n => pg[n] = NULL
  /\ c.at \in {"map", "walk"} => /\ c.n \in 1 .. 4 /\ Complete(pg)
                                 /\ \A n \in 1 .. 4 : m[n] = IF n < c.n THEN Target(pg, n) ELSE NULL
  /\ c.at = "unmap" => \A n \in 1 .. 4 : m[n] # NULL => n >= c.n /\ m[n] = Target(pg, n)
  /\ c.at = "free" => c.n \in 1 .. 3

(* vm_map_page() has taken no page yet, or one for the table d. *)
TookNothing(w, bm) == w.new = <<>> /\ w.before = {p \in Page : bm[p]}
TookDir(w, bm, own, tb, r, t, d) ==
  /\ w.new = <<<<r, w.va[1], d>>>> /\ own[d] = DirOf(t, w.va[1]) /\ tb[d] = NewTable
  /\ w.before = {p \in Page : bm[p]} \ {d}

(* The walk w of task t at c, in tables tb with root r. *)
Walking(w, bm, own, tb, r, t, c) ==
  /\ w.space = t /\ w.va = UserVa[c.n]
  /\ w.rollback => TookNothing(w, bm) \/ \E d \in Page : TookDir(w, bm, own, tb, r, t, d)
  /\ ~w.rollback /\ w.level = 2 => w.at = r /\ TookNothing(w, bm)
  /\ ~w.rollback /\ w.level = 1 => /\ w.at \in Page /\ own[w.at] = DirOf(t, w.va[1])
                                   /\ TookNothing(w, bm) \/ TookDir(w, bm, own, tb, r, t, w.at)
  /\ ~w.rollback /\ w.level = 0 => w.at \in Page /\ own[w.at] = LastOf(t, w.va[1], w.va[2])

(* Only the task that has interrupts masked can be walking. *)
WalkOK(own) ==
  /\ \A t \in Spaces : pc[t].at = "walk" =>
       masked = t /\ Walking(walk, page_bitmap, own, table, root[t], t, pc[t])
  /\ (\A t \in Spaces : pc[t].at # "walk") => walk = NoWalk

TasksOK(mp) == \A t \in Spaces : TaskOK(pc[t], task[t], root[t], pages[t], mp[t])

MemInv(own, mp) ==
  /\ Forest(own, table, root) /\ Maps(own, table, mp)
  /\ Owners(own, page_bitmap, kept, raw) /\ HasPages(own, pages, pc)
  /\ TasksOK(mp) /\ WalkOK(own)

UserInv == PageInv /\ ~vm_panicked /\ TaskTyped /\ \E own, mp : MemInv(own, mp)

(* Nothing is owned, linked or mapped at boot. *)
LEMMA UserInitInv == UserInit => UserInv
<1> SUFFICES ASSUME UserInit PROVE UserInv
  OBVIOUS
<1> DEFINE own == [p \in Page |-> Free]
           mp == [t \in Spaces |-> [n \in 1 .. 4 |-> NULL]]
<1>1. PageInv /\ ~vm_panicked
  BY PageInitInv DEF UserInit, VmInit
<1>2. /\ page_bitmap = [p \in Page |-> FALSE] /\ kept = {} /\ raw = {}
      /\ table = [p \in Page |-> NewTable] /\ root = [t \in Spaces |-> NULL]
      /\ walk = NoWalk /\ task = [t \in Spaces |-> "UNUSED"]
      /\ pages = [t \in Spaces |-> NoPages]
      /\ pc = [t \in Spaces |-> Idle]
  BY DEF UserInit, VmInit, PageInit
<1>3. TaskTyped
  <2>1. NoPages \in [1 .. 3 -> Page \cup {NULL}]
    BY DEF NoPages
  <2>2. Idle \in PcType
    BY DEF Idle, At, PcType, Places
  <2>3. NoWalk \in WalkType
    BY DEF NoWalk, WalkType
  <2> QED  BY <1>2, <2>1, <2>2, <2>3 DEF TaskTyped
<1>4. /\ NoTable(Free) /\ Free \in Roles /\ Free # Kept /\ Free # Raw
      /\ \A t \in Spaces, n \in 1 .. 3 : Free # PageOf(t, n)
  BY NoTableRoles, RolesOf, RoleFields DEF Free, Kept, Raw, PageOf
<1>5. \A t \in Spaces, n \in 1 .. 3 : pages[t][n] = NULL
  BY <1>2 DEF NoPages
<1>6. \A t \in Spaces : pc[t].at = "idle"
  BY <1>2 DEF Idle, At
<1>7. Forest(own, table, root)
  BY <1>2, <1>4, NullFacts, NewTableFacts
     DEF Forest, NoTable, Typed, Roots, RootLinks, DirLinks, DirLinked, LastLinked, OnlyLinks
<1>8. Maps(own, table, mp)
  BY <1>4 DEF Maps, OnlyMapped, AllMapped, NoTable
<1>9. Owners(own, page_bitmap, kept, raw)
  BY <1>2, <1>4 DEF Owners
<1>10. HasPages(own, pages, pc)
  BY <1>4, <1>5, NullFacts DEF HasPages
<1>11. TasksOK(mp)
  <2>1. \A t \in Spaces, n \in 1 .. 4 : mp[t][n] = NULL
    OBVIOUS
  <2> HIDE DEF mp
  <2> QED  BY <1>2, <1>6, <2>1 DEF TasksOK, TaskOK, HasRoot, NoMaps
<1>12. WalkOK(own)
  BY <1>2, <1>6 DEF WalkOK
<1>13. MemInv(own, mp)
  BY <1>7, <1>8, <1>9, <1>10, <1>11, <1>12 DEF MemInv
<1> QED  BY <1>1, <1>3, <1>13 DEF UserInv

-----------------------------------------------------------------------------
(* The steps of the allocator, as seen by its callers. *)

(* page_alloc() gives out a free page or, without a change, none. *)
LEMMA AllocGives ==
  ASSUME PageInv, page_alloc
  PROVE  /\ PageInv' /\ [PageNext]_pagevars
         /\ \/ page_result' = NULL /\ page_bitmap' = page_bitmap
            \/ \E p \in Page : /\ page_result' = p /\ ~page_bitmap[p]
                               /\ page_bitmap' = [page_bitmap EXCEPT ![p] = TRUE]
<1>1. PageNext
  BY DEF PageNext
<1>2. PageInv'
  BY <1>1, PageStepInv
<1>3. CASE NoPageFound
  BY <1>1, <1>2, <1>3 DEF NoPageFound
<1>4. ASSUME NEW o \in 0 .. ScanLength - 1, TakePage(o)
      PROVE  \E p \in Page : /\ page_result' = p /\ ~page_bitmap[p]
                             /\ page_bitmap' = [page_bitmap EXCEPT ![p] = TRUE]
  <2>1. Probe(o) \in Page
    BY ProbeIsPage DEF PageInv, ScanLength, Page
  <2> QED  BY <1>4, <2>1 DEF TakePage
<1> QED  BY <1>1, <1>2, <1>3, <1>4 DEF page_alloc

(* page_free() of a page that somebody has. *)
LEMMA FreeTakesBack ==
  ASSUME PageInv, NEW p \in Page, page_free(p)
  PROVE  PageInv' /\ [PageNext]_pagevars /\ page_bitmap' = [page_bitmap EXCEPT ![p] = FALSE]
<1>1. PageNext
  BY DEF PageNext
<1>2. PageInv'
  BY <1>1, PageStepInv
<1> QED  BY <1>1, <1>2 DEF page_free

(* The same for a caller that would PANIC on any other page. *)
LEMMA FreePageSafe ==
  ASSUME PageInv, ~vm_panicked, NEW p \in Page, page_bitmap[p], FreePage(p)
  PROVE  PageInv' /\ [PageNext]_pagevars /\ page_bitmap' = [page_bitmap EXCEPT ![p] = FALSE] /\ ~vm_panicked'
<1>1. page_free(p) /\ UNCHANGED vm_panicked
  BY DEF FreePage
<1> QED  BY <1>1, FreeTakesBack

(* Steps that leave the allocator alone. *)
LEMMA PagesUnchanged ==
  ASSUME PageInv, UNCHANGED pagevars
  PROVE  PageInv' /\ [PageNext]_pagevars /\ page_bitmap' = page_bitmap
<1>1. PageInv'
  BY PageStepInv
<1> QED  BY <1>1 DEF pagevars

(* A page changes hands, and the bitmap follows. *)
LEMMA OwnersHandOver ==
  ASSUME NEW own \in [Page -> Roles], NEW bm \in [Page -> BOOLEAN], NEW kp, NEW rw, Owners(own, bm, kp, rw),
         NEW p \in Page, NEW r \in Roles, own[p] # Kept, r # Kept, own[p] # Raw, r # Raw
  PROVE  /\ r # Free => Owners([own EXCEPT ![p] = r], [bm EXCEPT ![p] = TRUE], kp, rw)
         /\ r = Free => Owners([own EXCEPT ![p] = r], [bm EXCEPT ![p] = FALSE], kp, rw)
BY DEF Owners

(* The pages of the tasks are not concerned by a page in another role, nor  *)
(* by a task moving on, while the task has the same pages.                  *)
LEMMA HasPagesFrame ==
  ASSUME NEW own \in [Page -> Roles], HasPages(own, pages, pc), pages' = pages,
         NEW p \in Page, NEW r \in Roles,
         \A t \in Spaces, n \in 1 .. 3 : own[p] # PageOf(t, n) /\ r # PageOf(t, n),
         \A t \in Spaces, n \in 1 .. 3 : Live(pc'[t], n) <=> Live(pc[t], n)
  PROVE  HasPages([own EXCEPT ![p] = r], pages', pc')
BY DEF HasPages, Live

(* Roles that are not confused with each other. *)
LEMMA OtherRoles ==
  /\ Free # Kept /\ Free # Raw /\ Kept # Raw
  /\ \A t, u \in Spaces, n \in 1 .. 3 :
       /\ Free # PageOf(t, n) /\ Kept # PageOf(t, n) /\ Raw # PageOf(t, n)
       /\ RootOf(u) # PageOf(t, n) /\ (\A i \in Index : DirOf(u, i) # PageOf(t, n))
       /\ \A i, j \in Index : LastOf(u, i, j) # PageOf(t, n)
       /\ \A m \in 1 .. 3 : PageOf(t, n) = PageOf(u, m) => t = u /\ n = m
  /\ \A t \in Spaces : RootOf(t) # Free /\ RootOf(t) # Kept /\ RootOf(t) # Raw
  /\ \A t \in Spaces, i \in Index : DirOf(t, i) # Free /\ DirOf(t, i) # Kept /\ DirOf(t, i) # Raw
  /\ \A t \in Spaces, i, j \in Index : LastOf(t, i, j) # Free /\ LastOf(t, i, j) # Kept /\ LastOf(t, i, j) # Raw
BY RoleFields DEF Free, Kept, Raw, RootOf, DirOf, LastOf, PageOf

(* While a task may run, no other task is in the middle of a mapping. *)
LEMMA AloneWalking ==
  ASSUME NEW own, WalkOK(own), NEW t \in Spaces, MayRun(t)
  PROVE  \A u \in Spaces : u # t => pc[u].at # "walk"
<1>1. t # NULL
  BY VmAssumption
<1>2. masked = NULL \/ masked = t
  BY DEF MayRun
<1>3. \A u \in Spaces : pc[u].at = "walk" => masked = u /\ u # NULL
  BY VmAssumption DEF WalkOK
<1> QED  BY <1>1, <1>2, <1>3

(* Outside a mapping the walk rests. *)
LEMMA WalkRests ==
  ASSUME NEW own, WalkOK(own), NEW t \in Spaces, MayRun(t), pc[t].at # "walk"
  PROVE  walk = NoWalk /\ \A u \in Spaces : pc[u].at # "walk"
BY AloneWalking DEF WalkOK

-----------------------------------------------------------------------------
(* One lemma per action: it keeps the invariant, and it is a step of the    *)
(* allocator or leaves it alone.                                            *)

(* The other tasks stay as they are. *)
LEMMA TasksStep ==
  ASSUME NEW mp, TasksOK(mp), NEW m, NEW t \in Spaces,
         \A u \in Spaces : u # t => /\ m[u] = mp[u] /\ pc'[u] = pc[u] /\ task'[u] = task[u]
                                    /\ root'[u] = root[u] /\ pages'[u] = pages[u],
         TaskOK(pc'[t], task'[t], root'[t], pages'[t], m[t])
  PROVE  TasksOK(m)'
BY DEF TasksOK

(* user_task_init() up to its vm_space_init(). *)
LEMMA InitStep ==
  ASSUME UserInv, NEW t \in Spaces, user_task_init(t), UNCHANGED <<kept, raw>>
  PROVE  UserInv' /\ [PageNext]_pagevars
<1>1. PICK own, mp : MemInv(own, mp)
  BY DEF UserInv
<1>2. /\ Forest(own, table, root) /\ Maps(own, table, mp) /\ Owners(own, page_bitmap, kept, raw)
      /\ HasPages(own, pages, pc) /\ TasksOK(mp) /\ WalkOK(own)
  BY <1>1 DEF MemInv
<1>3. /\ PageInv /\ page_bitmap \in [Page -> BOOLEAN] /\ ~vm_panicked /\ TaskTyped
      /\ own \in [Page -> Roles] /\ root \in [Spaces -> Page \cup {NULL}]
  BY <1>2 DEF UserInv, PageInv, Forest, Typed
<1>4. /\ MayRun(t) /\ pc[t].at = "idle" /\ task[t] # "READY" /\ page_alloc
      /\ task' = [task EXCEPT ![t] = "UNUSED"] /\ pages' = [pages EXCEPT ![t] = NoPages]
      /\ UNCHANGED <<walk, masked, vm_panicked, kept, raw>>
  BY DEF user_task_init, Here, user_task_can_init, vm_space_init
<1>5. TaskOK(pc[t], task[t], root[t], pages[t], mp[t])
  BY <1>2 DEF TasksOK
<1>6. root[t] = NULL /\ pages[t] = NoPages /\ NoMaps(mp[t])
  BY <1>4, <1>5 DEF TaskOK, HasRoot
<1>7. pages' = pages /\ NoPages \in [1 .. 3 -> Page \cup {NULL}]
  BY <1>3, <1>4, <1>6 DEF TaskTyped, NoPages
<1>8. walk = NoWalk /\ \A u \in Spaces : pc[u].at # "walk"
  BY <1>2, <1>4, WalkRests
<1>9. CASE page_result' = NULL
  <2>1. page_bitmap' = page_bitmap /\ PageInv' /\ [PageNext]_pagevars
    BY <1>3, <1>4, <1>9, AllocGives, NullFacts
  <2>2. UNCHANGED <<table, root, pc>>
    BY <1>9 DEF user_task_init, vm_space_init
  <2>3. TaskTyped'
    BY <1>3, <1>4, <1>7, <2>2 DEF TaskTyped
  <2>4. Forest(own, table', root') /\ Maps(own, table', mp)
    BY <1>2, <2>2
  <2>5. Owners(own, page_bitmap', kept', raw') /\ HasPages(own, pages', pc')
    BY <1>2, <1>4, <1>7, <2>1, <2>2
  <2>6. TasksOK(mp)'
    <3>1. task'[t] = "UNUSED" /\ \A u \in Spaces : u # t => task'[u] = task[u]
      BY <1>3, <1>4 DEF TaskTyped
    <3>2. TaskOK(pc[t], "UNUSED", root[t], pages[t], mp[t])
      BY <1>4, <1>5, <1>6 DEF TaskOK
    <3>3. TaskOK(pc'[t], task'[t], root'[t], pages'[t], mp[t])
      BY <1>7, <2>2, <3>1, <3>2
    <3> QED  BY <1>2, <1>7, <2>2, <3>1, <3>3, TasksStep
  <2>7. WalkOK(own)'
    BY <1>4, <1>8, <2>2 DEF WalkOK
  <2>8. MemInv(own, mp)'
    BY <2>4, <2>5, <2>6, <2>7 DEF MemInv
  <2> QED  BY <1>3, <1>4, <2>1, <2>3, <2>8 DEF UserInv
<1>10. CASE page_result' # NULL
  <2>1. PageInv' /\ [PageNext]_pagevars
    BY <1>3, <1>4, AllocGives
  <2>2. PICK p \in Page : page_result' = p /\ ~page_bitmap[p] /\ page_bitmap' = [page_bitmap EXCEPT ![p] = TRUE]
    BY <1>3, <1>4, <1>10, AllocGives
  <2>3. table' = [table EXCEPT ![p] = NewTable] /\ root' = [root EXCEPT ![t] = p]
    BY <1>10, <2>2 DEF user_task_init, vm_space_init
  <2>4. pc' = [pc EXCEPT ![t] = At("alloc", 1)]
    BY <1>10 DEF user_task_init, Goto
  <2>5. /\ pc'[t].at = "alloc" /\ pc'[t].n = 1 /\ pc' \in [Spaces -> PcType]
        /\ \A u \in Spaces : u # t => pc'[u] = pc[u]
    BY <1>3, <2>4 DEF TaskTyped, PcType, At, Places
  <2>6. own[p] = Free
    BY <1>2, <2>2 DEF Owners
  <2> DEFINE o == [own EXCEPT ![p] = RootOf(t)]
  <2>7. Forest(o, table', root')
    BY <1>2, <1>6, <2>3, <2>6, ForestAddRoot
  <2>8. Maps(o, table', mp)
    <3>1. \A q \in Page : q # p => o[q] = own[q] /\ table'[q] = table[q]
      BY <1>2, <1>3, <2>3 DEF Forest, Typed
    <3>2. o[p] = RootOf(t) /\ NoTable(own[p])
      BY <1>3, <2>6, NoTableRoles
    <3> HIDE DEF o
    <3> QED  BY <1>2, <3>1, <3>2, MapsFrame, TableRoles DEF NoTable
  <2>9. Owners(o, page_bitmap', kept', raw')
    <3>1. RootOf(t) \in Roles /\ RootOf(t) # Free /\ RootOf(t) # Kept /\ RootOf(t) # Raw /\ own[p] # Kept /\ own[p] # Raw
      BY <2>6, RolesOf, OtherRoles
    <3> QED  BY <1>2, <1>3, <1>4, <2>2, <3>1, OwnersHandOver
  <2>10. HasPages(o, pages', pc')
    <3>1. \A u \in Spaces, n \in 1 .. 3 : own[p] # PageOf(u, n) /\ RootOf(t) # PageOf(u, n)
      BY <2>6, OtherRoles
    <3>2. \A u \in Spaces, n \in 1 .. 3 : Live(pc'[u], n) <=> Live(pc[u], n)
      BY <1>4, <2>5 DEF Live
    <3>3. RootOf(t) \in Roles
      BY RolesOf
    <3> QED  BY <1>2, <1>3, <1>7, <3>1, <3>2, <3>3, HasPagesFrame
  <2>11. TaskTyped'
    BY <1>3, <1>4, <1>7, <2>5 DEF TaskTyped
  <2>12. TasksOK(mp)'
    <3>1. /\ task'[t] = "UNUSED" /\ root'[t] = p
          /\ \A u \in Spaces : u # t => task'[u] = task[u] /\ root'[u] = root[u]
      BY <1>3, <1>4, <2>3 DEF TaskTyped
    <3>2. \A n \in 1 .. 3 : pages[t][n] = NULL
      BY <1>6 DEF NoPages
    <3>3. TaskOK(pc'[t], task'[t], root'[t], pages'[t], mp[t])
      BY <1>6, <1>7, <2>5, <3>1, <3>2, NullFacts DEF TaskOK, HasRoot
    <3> QED  BY <1>2, <1>7, <2>5, <3>1, <3>3, TasksStep
  <2>13. WalkOK(o)'
    BY <1>4, <1>8, <2>5 DEF WalkOK
  <2>14. MemInv(o, mp)'
    BY <2>7, <2>8, <2>9, <2>10, <2>12, <2>13 DEF MemInv
  <2> QED  BY <1>3, <1>4, <2>1, <2>11, <2>14 DEF UserInv
<1> QED  BY <1>9, <1>10

(* What the invariant gives to the proof of a step of t. *)
LEMMA Unfold ==
  ASSUME UserInv
  PROVE  /\ PageInv /\ page_bitmap \in [Page -> BOOLEAN] /\ ~vm_panicked /\ TaskTyped
         /\ \E own, mp :
              /\ Forest(own, table, root) /\ Maps(own, table, mp) /\ Owners(own, page_bitmap, kept, raw)
              /\ HasPages(own, pages, pc) /\ TasksOK(mp) /\ WalkOK(own)
              /\ own \in [Page -> Roles] /\ root \in [Spaces -> Page \cup {NULL}]
              /\ table \in [Page -> [Index -> Pte]]
              /\ mp \in [Spaces -> [1 .. 4 -> Page \cup {NULL, Trampoline}]]
              /\ \A t \in Spaces : TaskOK(pc[t], task[t], root[t], pages[t], mp[t])
BY DEF UserInv, MemInv, PageInv, Forest, Typed, TasksOK, Maps

(* One of the three page allocations. *)
LEMMA AllocStep ==
  ASSUME UserInv, NEW t \in Spaces, AllocPage(t), UNCHANGED <<kept, raw>>
  PROVE  UserInv' /\ [PageNext]_pagevars
<1>1. /\ PageInv /\ page_bitmap \in [Page -> BOOLEAN] /\ ~vm_panicked /\ TaskTyped
  BY Unfold
<1>2. PICK own, mp :
        /\ Forest(own, table, root) /\ Maps(own, table, mp) /\ Owners(own, page_bitmap, kept, raw)
        /\ HasPages(own, pages, pc) /\ TasksOK(mp) /\ WalkOK(own)
        /\ own \in [Page -> Roles] /\ root \in [Spaces -> Page \cup {NULL}]
        /\ TaskOK(pc[t], task[t], root[t], pages[t], mp[t])
  BY Unfold
<1>3. PICK n, next :
        /\ n = pc[t].n
        /\ next = IF n < 3 THEN At("alloc", n + 1)
                  ELSE IF \E i \in 1 .. 3 : pages'[t][i] = NULL THEN At("unmap", 1) ELSE At("map", 1)
  OBVIOUS
<1>4. /\ MayRun(t) /\ pc[t].at = "alloc" /\ page_alloc
      /\ pages' = [pages EXCEPT ![t][n] = page_result'] /\ pc' = [pc EXCEPT ![t] = next]
      /\ UNCHANGED <<table, root, walk, masked, vm_panicked, task, kept, raw>>
  BY <1>3 DEF AllocPage, Here, Goto, vmvars
<1>5. /\ n \in 1 .. 3 /\ pages[t][n] = NULL /\ root[t] # NULL /\ task[t] # "READY" /\ NoMaps(mp[t])
      /\ \A m \in 1 .. 3 : m >= n => pages[t][m] = NULL
  BY <1>2, <1>3, <1>4 DEF TaskOK, HasRoot
<1>6. PICK q : q = page_result'
  OBVIOUS
<1>7. q \in Page \cup {NULL} /\ PageInv' /\ [PageNext]_pagevars
  BY <1>1, <1>4, <1>6, AllocGives
<1>8. /\ pages' \in [Spaces -> [1 .. 3 -> Page \cup {NULL}]]
      /\ pages'[t][n] = q /\ \A m \in 1 .. 3 : m # n => pages'[t][m] = pages[t][m]
      /\ \A u \in Spaces : u # t => pages'[u] = pages[u]
  BY <1>1, <1>4, <1>5, <1>6, <1>7 DEF TaskTyped
<1>9. /\ next \in PcType
      /\ n < 3 => next.at = "alloc" /\ next.n = n + 1
      /\ n = 3 => \/ next.at = "unmap" /\ next.n = 1
                  \/ next.at = "map" /\ next.n = 1 /\ Complete(pages'[t])
  BY <1>3, <1>5 DEF At, PcType, Places, Complete
<1>10. /\ pc' \in [Spaces -> PcType] /\ pc'[t] = next
       /\ \A u \in Spaces : u # t => pc'[u] = pc[u]
  BY <1>1, <1>4, <1>9 DEF TaskTyped
<1>11. TaskTyped'
  BY <1>1, <1>4, <1>8, <1>10 DEF TaskTyped
<1>12. TasksOK(mp)'
  <2>1. /\ next.at \in {"alloc", "unmap", "map"}
        /\ next.at = "alloc" => n < 3 /\ next.n = n + 1
        /\ next.at = "map" => next.n = 1 /\ Complete(pages'[t])
    BY <1>5, <1>9
  <2>2. next.at = "alloc" => next.n \in 1 .. 3 /\ \A m \in 1 .. 3 : m >= next.n => pages'[t][m] = NULL
    BY <1>5, <1>8, <2>1
  <2>3. TaskOK(next, task[t], root[t], pages'[t], mp[t])
    BY <1>5, <2>1, <2>2 DEF TaskOK, HasRoot, NoMaps
  <2>4. TaskOK(pc'[t], task'[t], root'[t], pages'[t], mp[t])
    BY <1>4, <1>10, <2>3
  <2> QED  BY <1>2, <1>4, <1>8, <1>10, <2>4, TasksStep
<1>13. walk' = NoWalk /\ \A u \in Spaces : pc'[u].at # "walk"
  <2>1. walk = NoWalk /\ \A u \in Spaces : pc[u].at # "walk"
    BY <1>2, <1>4, WalkRests
  <2>2. next.at # "walk"
    BY <1>5, <1>9
  <2> QED  BY <1>4, <1>10, <2>1, <2>2
<1>14. \A u \in Spaces, m \in 1 .. 3 : Live(pc'[u], m) <=> Live(pc[u], m)
  <2>1. next.at # "free"
    BY <1>5, <1>9
  <2> QED  BY <1>4, <1>10, <2>1 DEF Live
<1>15. CASE q = NULL
  <2>1. page_bitmap' = page_bitmap
    BY <1>1, <1>4, <1>6, <1>15, AllocGives, NullFacts
  <2>2. pages' = pages
    BY <1>1, <1>5, <1>8, <1>15 DEF TaskTyped
  <2>3. HasPages(own, pages', pc')
    BY <1>2, <1>14, <2>2 DEF HasPages
  <2>4. Forest(own, table', root') /\ Maps(own, table', mp) /\ Owners(own, page_bitmap', kept', raw')
    BY <1>2, <1>4, <2>1
  <2>5. WalkOK(own)'
    BY <1>13 DEF WalkOK
  <2>6. MemInv(own, mp)'
    BY <1>12, <2>3, <2>4, <2>5 DEF MemInv
  <2> QED  BY <1>1, <1>4, <1>7, <1>11, <2>6 DEF UserInv
<1>16. CASE q # NULL
  <2>1. q \in Page /\ ~page_bitmap[q] /\ page_bitmap' = [page_bitmap EXCEPT ![q] = TRUE]
    BY <1>1, <1>4, <1>6, <1>16, AllocGives
  <2>2. own[q] = Free
    BY <1>2, <2>1 DEF Owners
  <2> DEFINE o == [own EXCEPT ![q] = PageOf(t, n)]
  <2>3. PageOf(t, n) \in Roles /\ NoTable(PageOf(t, n)) /\ NoTable(own[q])
    BY <1>5, <2>2, RolesOf, NoTableRoles
  <2>4. Forest(o, table', root')
    BY <1>2, <1>4, <2>1, <2>3, ForestHandOver
  <2>5. /\ o[q] = PageOf(t, n) /\ \A p \in Page : p # q => o[p] = own[p]
    BY <1>2, <2>1
  <2>6. Maps(o, table', mp)
    <3> HIDE DEF o
    <3> QED  BY <1>2, <1>4, <2>1, <2>3, <2>5, MapsFrame DEF NoTable
  <2>7. Owners(o, page_bitmap', kept', raw')
    <3>1. PageOf(t, n) # Free /\ PageOf(t, n) # Kept /\ PageOf(t, n) # Raw /\ own[q] # Kept /\ own[q] # Raw
      BY <1>5, <2>2, OtherRoles
    <3> QED  BY <1>1, <1>2, <1>4, <2>1, <2>3, <3>1, OwnersHandOver
  <2>8. HasPages(o, pages', pc')
    <3> HIDE DEF o
    <3>1. ASSUME NEW u \in Spaces, NEW m \in 1 .. 3, NEW p \in Page
          PROVE  o[p] = PageOf(u, m) <=> pages'[u][m] = p /\ Live(pc'[u], m)
      <4>1. own[p] = PageOf(u, m) <=> pages[u][m] = p /\ Live(pc'[u], m)
        BY <1>2, <1>14 DEF HasPages
      <4>2. CASE u = t /\ m = n
        <5>1. Live(pc'[t], n) /\ pages[t][n] # p
          BY <1>4, <1>5, <1>14, NullFacts DEF Live
        <5> QED  BY <1>8, <2>5, <4>1, <4>2, <5>1
      <4>3. CASE ~(u = t /\ m = n)
        <5>1. pages'[u][m] = pages[u][m]
          BY <1>8, <4>3
        <5>2. PageOf(t, n) # PageOf(u, m) /\ own[q] # PageOf(u, m)
          BY <1>5, <2>2, <4>3, OtherRoles
        <5> QED  BY <2>5, <4>1, <5>1, <5>2
      <4> QED  BY <4>2, <4>3
    <3> QED  BY <3>1 DEF HasPages
  <2>9. WalkOK(o)'
    BY <1>13 DEF WalkOK
  <2>10. MemInv(o, mp)'
    BY <1>12, <2>4, <2>6, <2>7, <2>8, <2>9 DEF MemInv
  <2> QED  BY <1>1, <1>4, <1>7, <1>11, <2>10 DEF UserInv
<1> QED  BY <1>15, <1>16

(* vm_map_page() begins. *)
LEMMA MapBeginStep ==
  ASSUME UserInv, NEW t \in Spaces, MapBegin(t), UNCHANGED <<kept, raw>>
  PROVE  UserInv' /\ [PageNext]_pagevars
<1>1. /\ PageInv /\ page_bitmap \in [Page -> BOOLEAN] /\ ~vm_panicked /\ TaskTyped
  BY Unfold
<1>2. PICK own, mp :
        /\ Forest(own, table, root) /\ Maps(own, table, mp) /\ Owners(own, page_bitmap, kept, raw)
        /\ HasPages(own, pages, pc) /\ TasksOK(mp) /\ WalkOK(own)
        /\ own \in [Page -> Roles] /\ root \in [Spaces -> Page \cup {NULL}]
        /\ TaskOK(pc[t], task[t], root[t], pages[t], mp[t])
  BY Unfold
<1>3. PICK n, next : n = pc[t].n /\ next = [pc[t] EXCEPT !.at = "walk"]
  OBVIOUS
<1>4. /\ MayRun(t) /\ pc[t].at = "map" /\ pc' = [pc EXCEPT ![t] = next] /\ masked' = t
      /\ walk' = [NoWalk EXCEPT !.space = t, !.va = UserVa[n], !.level = 2, !.at = root[t], !.before = Taken]
      /\ UNCHANGED <<pagevars, table, root, vm_panicked, task, pages, kept, raw>>
  BY <1>3 DEF MapBegin, Here, Goto, vm_map_begin
<1>5. n \in 1 .. 4 /\ root[t] # NULL /\ task[t] # "READY"
  BY <1>2, <1>3, <1>4 DEF TaskOK, HasRoot
<1>6. next \in PcType /\ next.at = "walk" /\ next.n = n
  BY <1>1, <1>3 DEF TaskTyped, PcType, Places
<1>7. /\ pc' \in [Spaces -> PcType] /\ pc'[t] = next
      /\ \A u \in Spaces : u # t => pc'[u] = pc[u]
  BY <1>1, <1>4, <1>6 DEF TaskTyped
<1>8. /\ walk'.space = t /\ walk'.va = UserVa[n] /\ walk'.level = 2 /\ walk'.at = root[t]
      /\ walk'.new = <<>> /\ walk'.rollback = FALSE /\ walk'.before = Taken /\ walk' \in WalkType
  <2>1. walk' = [space |-> t, va |-> UserVa[n], level |-> 2, at |-> root[t], new |-> <<>>,
                 rollback |-> FALSE, before |-> Taken]
    BY <1>4 DEF NoWalk
  <2>2. /\ UserVa[n] \in {NULL} \cup {UserVa[m] : m \in 1 .. 4} /\ root[t] \in Page \cup {NULL}
        /\ <<>> \in Seq(Step3) /\ FALSE \in BOOLEAN /\ Taken \in SUBSET Page /\ t \in Spaces \cup {NULL}
    BY <1>2, <1>5 DEF Taken
  <2>3. walk' \in WalkType
    BY <2>1, <2>2 DEF WalkType
  <2> QED  BY <2>1, <2>3
<1>9. PageInv' /\ [PageNext]_pagevars /\ page_bitmap' = page_bitmap
  BY <1>1, <1>4, PagesUnchanged
<1>10. TaskTyped'
  BY <1>1, <1>4, <1>7, <1>8 DEF TaskTyped
<1>11. TasksOK(mp)'
  <2>1. TaskOK(next, task[t], root[t], pages[t], mp[t])
    BY <1>2, <1>3, <1>4, <1>5, <1>6 DEF TaskOK, HasRoot
  <2>2. TaskOK(pc'[t], task'[t], root'[t], pages'[t], mp[t])
    BY <1>4, <1>7, <2>1
  <2> QED  BY <1>2, <1>4, <1>7, <2>2, TasksStep
<1>12. HasPages(own, pages', pc')
  <2>1. \A u \in Spaces, m \in 1 .. 3 : Live(pc'[u], m) <=> Live(pc[u], m)
    BY <1>4, <1>6, <1>7 DEF Live
  <2> QED  BY <1>2, <1>4, <2>1 DEF HasPages
<1>13. Forest(own, table', root') /\ Maps(own, table', mp) /\ Owners(own, page_bitmap', kept', raw')
  BY <1>2, <1>4, <1>9
<1>14. WalkOK(own)'
  <2>1. \A u \in Spaces : u # t => pc'[u].at # "walk"
    BY <1>2, <1>4, <1>7, AloneWalking
  <2>2. Walking(walk', page_bitmap', own, table', root'[t], t, pc'[t])
    <3>1. TookNothing(walk', page_bitmap')
      BY <1>8, <1>9 DEF TookNothing, Taken
    <3>2. root'[t] = root[t] /\ pc'[t].n = n
      BY <1>4, <1>6, <1>7
    <3> QED  BY <1>8, <3>1, <3>2 DEF Walking
  <2> QED  BY <1>4, <1>6, <1>7, <2>1, <2>2 DEF WalkOK
<1>15. MemInv(own, mp)'
  BY <1>11, <1>12, <1>13, <1>14 DEF MemInv
<1> QED  BY <1>1, <1>4, <1>9, <1>10, <1>15 DEF UserInv

(* A thread exits. *)
LEMMA DestroyBeginStep ==
  ASSUME UserInv, NEW t \in Spaces, user_task_destroy(t), UNCHANGED <<kept, raw>>
  PROVE  UserInv' /\ [PageNext]_pagevars
<1>1. /\ PageInv /\ page_bitmap \in [Page -> BOOLEAN] /\ ~vm_panicked /\ TaskTyped
  BY Unfold
<1>2. PICK own, mp :
        /\ Forest(own, table, root) /\ Maps(own, table, mp) /\ Owners(own, page_bitmap, kept, raw)
        /\ HasPages(own, pages, pc) /\ TasksOK(mp) /\ WalkOK(own)
        /\ own \in [Page -> Roles] /\ root \in [Spaces -> Page \cup {NULL}]
        /\ TaskOK(pc[t], task[t], root[t], pages[t], mp[t])
  BY Unfold
<1>3. PICK next : next = [At("unmap", 1) EXCEPT !.exiting = TRUE]
  OBVIOUS
<1>4. /\ MayRun(t) /\ pc[t].at = "idle" /\ task[t] = "READY" /\ pc' = [pc EXCEPT ![t] = next]
      /\ task' = [task EXCEPT ![t] = "EXITED"]
      /\ UNCHANGED <<pagevars, table, root, walk, vm_panicked, pages, kept, raw>>
  BY <1>3 DEF user_task_destroy, Here, Goto
<1>5. root[t] # NULL /\ \A m \in 1 .. 4 : mp[t][m] = Target(pages[t], m)
  BY <1>2, <1>4 DEF TaskOK, HasRoot
<1>6. next \in PcType /\ next.at = "unmap" /\ next.n = 1
  <2>1. next = [at |-> "unmap", n |-> 1, exiting |-> TRUE]
    BY <1>3 DEF At
  <2> QED  BY <2>1 DEF PcType, Places
<1>7. /\ pc' \in [Spaces -> PcType] /\ pc'[t] = next
      /\ \A u \in Spaces : u # t => pc'[u] = pc[u]
      /\ task'[t] = "EXITED" /\ \A u \in Spaces : u # t => task'[u] = task[u]
  BY <1>1, <1>4, <1>6 DEF TaskTyped
<1>8. PageInv' /\ [PageNext]_pagevars /\ page_bitmap' = page_bitmap
  BY <1>1, <1>4, PagesUnchanged
<1>9. TaskTyped'
  BY <1>1, <1>4, <1>7 DEF TaskTyped
<1>10. TasksOK(mp)'
  <2>1. TaskOK(next, "EXITED", root[t], pages[t], mp[t])
    BY <1>5, <1>6 DEF TaskOK, HasRoot
  <2>2. TaskOK(pc'[t], task'[t], root'[t], pages'[t], mp[t])
    BY <1>4, <1>7, <2>1
  <2> QED  BY <1>2, <1>4, <1>7, <2>2, TasksStep
<1>11. HasPages(own, pages', pc')
  <2>1. \A u \in Spaces, m \in 1 .. 3 : Live(pc'[u], m) <=> Live(pc[u], m)
    BY <1>4, <1>6, <1>7 DEF Live
  <2> QED  BY <1>2, <1>4, <2>1 DEF HasPages
<1>12. Forest(own, table', root') /\ Maps(own, table', mp) /\ Owners(own, page_bitmap', kept', raw')
  BY <1>2, <1>4, <1>8
<1>13. WalkOK(own)'
  <2>1. walk = NoWalk /\ \A u \in Spaces : pc[u].at # "walk"
    BY <1>2, <1>4, WalkRests
  <2> QED  BY <1>4, <1>6, <1>7, <2>1 DEF WalkOK
<1>14. MemInv(own, mp)'
  BY <1>10, <1>11, <1>12, <1>13 DEF MemInv
<1> QED  BY <1>1, <1>4, <1>8, <1>9, <1>14 DEF UserInv

(* vm_unmap_page() of one of the four addresses. *)
LEMMA UnmapStep ==
  ASSUME UserInv, NEW t \in Spaces, Unmap(t), UNCHANGED <<kept, raw>>
  PROVE  UserInv' /\ [PageNext]_pagevars
<1>1. /\ PageInv /\ page_bitmap \in [Page -> BOOLEAN] /\ ~vm_panicked /\ TaskTyped
  BY Unfold
<1>2. PICK own, mp :
        /\ Forest(own, table, root) /\ Maps(own, table, mp) /\ Owners(own, page_bitmap, kept, raw)
        /\ HasPages(own, pages, pc) /\ TasksOK(mp) /\ WalkOK(own)
        /\ own \in [Page -> Roles] /\ root \in [Spaces -> Page \cup {NULL}]
        /\ table \in [Page -> [Index -> Pte]]
        /\ mp \in [Spaces -> [1 .. 4 -> Page \cup {NULL, Trampoline}]]
        /\ TaskOK(pc[t], task[t], root[t], pages[t], mp[t])
  BY Unfold
<1>3. PICK n, x, next :
        /\ n = pc[t].n /\ x = IF n = 0 THEN 3 ELSE n
        /\ next = IF n < 4 THEN [pc[t] EXCEPT !.n = n + 1] ELSE [pc[t] EXCEPT !.at = "destroy", !.n = 0]
  OBVIOUS
<1>4. /\ MayRun(t) /\ pc[t].at = "unmap" /\ pc' = [pc EXCEPT ![t] = next]
      /\ vm_unmap_page(t, UserVa[x])
      /\ UNCHANGED <<pagevars, root, walk, masked, vm_panicked, task, pages, kept, raw>>
  BY <1>3 DEF Unmap, Here, Goto
<1>5. /\ root[t] # NULL /\ task[t] # "READY"
      /\ \A m \in 1 .. 4 : mp[t][m] # NULL => m >= n /\ mp[t][m] = Target(pages[t], m)
  BY <1>2, <1>3, <1>4 DEF TaskOK, HasRoot
<1>6. /\ n \in 0 .. 4 /\ x \in 1 .. 4
      /\ next \in PcType
      /\ n < 4 => next.at = "unmap" /\ next.n = n + 1
      /\ n = 4 => next.at = "destroy"
  <2>1. PICK c \in PcType : c = pc[t]
    BY <1>1 DEF TaskTyped
  <2>2. c.at = "unmap" /\ c.n = n /\ n \in 0 .. 4 /\ c.exiting \in BOOLEAN
    BY <1>3, <1>4, <2>1 DEF PcType
  <2>3. CASE n < 4
    <3>1. next = [c EXCEPT !.n = n + 1] /\ n + 1 \in 0 .. 4
      BY <1>3, <2>1, <2>2, <2>3
    <3>2. next \in PcType /\ next.at = c.at /\ next.n = n + 1
      BY <2>1, <3>1 DEF PcType
    <3> QED  BY <1>3, <2>2, <2>3, <3>2
  <2>4. CASE n = 4
    <3>1. next = [c EXCEPT !.at = "destroy", !.n = 0]
      BY <1>3, <2>1, <2>2, <2>4
    <3>2. next = [at |-> "destroy", n |-> 0, exiting |-> c.exiting]
      BY <2>1, <3>1 DEF PcType
    <3>3. next \in PcType /\ next.at = "destroy"
      BY <2>2, <3>2 DEF PcType, Places
    <3> QED  BY <1>3, <2>2, <2>4, <3>3
  <2> QED  BY <2>2, <2>3, <2>4
<1>7. /\ pc' \in [Spaces -> PcType] /\ pc'[t] = next
      /\ \A u \in Spaces : u # t => pc'[u] = pc[u]
  BY <1>1, <1>4, <1>6 DEF TaskTyped
<1>8. PageInv' /\ [PageNext]_pagevars /\ page_bitmap' = page_bitmap
  BY <1>1, <1>4, PagesUnchanged
<1>9. TaskTyped'
  BY <1>1, <1>4, <1>7 DEF TaskTyped
<1>10. HasPages(own, pages', pc')
  <2>1. next.at # "free"
    BY <1>6
  <2>2. \A u \in Spaces, m \in 1 .. 3 : Live(pc'[u], m) <=> Live(pc[u], m)
    BY <1>4, <1>7, <2>1 DEF Live
  <2> QED  BY <1>2, <1>4, <2>2 DEF HasPages
<1>11. WalkOK(own)'
  <2>1. walk = NoWalk /\ \A u \in Spaces : pc[u].at # "walk"
    BY <1>2, <1>4, WalkRests
  <2>2. next.at # "walk"
    BY <1>6
  <2> QED  BY <1>4, <1>7, <2>1, <2>2 DEF WalkOK
<1>12. ASSUME NEW m, \A u \in Spaces : u # t => m[u] = mp[u], m[t][x] = NULL,
              \A k \in 1 .. 4 : k # x => m[t][k] = mp[t][k]
       PROVE  TasksOK(m)'
  <2>1. \A k \in 1 .. 4 : m[t][k] # NULL => k >= n /\ k # x /\ m[t][k] = Target(pages[t], k)
    BY <1>5, <1>6, <1>12
  <2>2. \A k \in 1 .. 4 : m[t][k] # NULL => n < 4 /\ k >= n + 1 /\ m[t][k] = Target(pages[t], k)
    BY <1>3, <1>6, <2>1
  <2>3. TaskOK(next, task[t], root[t], pages[t], m[t])
    BY <1>5, <1>6, <2>2 DEF TaskOK, HasRoot, NoMaps
  <2>4. TaskOK(pc'[t], task'[t], root'[t], pages'[t], m[t])
    BY <1>4, <1>7, <2>3
  <2> QED  BY <1>2, <1>4, <1>7, <1>12, <2>4, TasksStep
<1>13. vm_translate(t, UserVa[x]) = mp[t][x]
  BY <1>2, <1>6, TranslateIs
<1>14. CASE mp[t][x] = NULL
  <2>1. table' = table
    BY <1>4, <1>13, <1>14 DEF vm_unmap_page
  <2>2. Forest(own, table', root') /\ Maps(own, table', mp) /\ Owners(own, page_bitmap', kept', raw')
    BY <1>2, <1>4, <1>8, <2>1
  <2>3. TasksOK(mp)'
    BY <1>12, <1>14
  <2>4. MemInv(own, mp)'
    BY <1>10, <1>11, <2>2, <2>3 DEF MemInv
  <2> QED  BY <1>1, <1>4, <1>8, <1>9, <2>4 DEF UserInv
<1>15. CASE mp[t][x] # NULL
  <2>1. PICK l \in Page : l = vm_walk(t, UserVa[x]) /\ own[l] = LastOf(t, UserVa[x][1], UserVa[x][2])
    BY <1>2, <1>6, <1>15, TranslateIs
  <2>2. table' = [table EXCEPT ![l][UserVa[x][3]] = NoPte]
    BY <1>4, <1>13, <1>15, <2>1 DEF vm_unmap_page
  <2>3. UserVa[x][1] \in Index /\ UserVa[x][2] \in Index /\ UserVa[x][3] \in Index
    BY <1>6, UserVaFacts
  <2>4. EntrySet(table, table', l, UserVa[x][3], NoPte) /\ \A q \in Page : q # l => table'[q] = table[q]
    BY <1>2, <2>2, <2>3, PteFacts DEF EntrySet
  <2>5. Forest(own, table', root')
    <3>1. Forest(own, table', root)
      <4>1. PICK i \in Index, j \in Index : i = UserVa[x][1] /\ j = UserVa[x][2]
        BY <2>3
      <4>0. PICK b : b = table'
        OBVIOUS
      <4>2. b \in [Page -> [Index -> Pte]] /\ own[l] = LastOf(t, i, j) /\ \A q \in Page : q # l => b[q] = table[q]
        BY <2>1, <2>4, <4>0, <4>1 DEF EntrySet
      <4>3. Forest(own, b, root)
        BY <1>2, <4>2, ForestSetLast
      <4> QED  BY <4>0, <4>3
    <3> QED  BY <1>4, <3>1
  <2> DEFINE m == [mp EXCEPT ![t] = [mp[t] EXCEPT ![x] = NULL]]
  <2>6. Maps(own, table', m)
    <3>1. PICK b, pa : b = table' /\ pa = NULL /\ pa \in Page \cup {NULL, Trampoline}
      OBVIOUS
    <3>2. /\ EntrySet(table, b, l, UserVa[x][3], IF pa = NULL THEN NoPte ELSE Leaf(pa))
          /\ \A q \in Page : q # l => b[q] = table[q]
      BY <2>4, <3>1
    <3>3. /\ Forest(own, table, root) /\ Maps(own, table, mp) /\ x \in 1 .. 4
          /\ own[l] = LastOf(t, UserVa[x][1], UserVa[x][2]) /\ pa \in Page \cup {NULL, Trampoline}
      BY <1>2, <1>6, <2>1, <3>1
    <3>4. Maps(own, b, [mp EXCEPT ![t] = [mp[t] EXCEPT ![x] = pa]])
      BY <3>2, <3>3, MapsSet
    <3> QED  BY <3>1, <3>4
  <2>7. TasksOK(m)'
    <3>1. (\A u \in Spaces : u # t => m[u] = mp[u]) /\ m[t][x] = NULL /\ \A k \in 1 .. 4 : k # x => m[t][k] = mp[t][k]
      BY <1>2, <1>6
    <3> HIDE DEF m
    <3> QED  BY <1>12, <3>1
  <2>8. Owners(own, page_bitmap', kept', raw')
    BY <1>2, <1>4, <1>8
  <2>9. MemInv(own, m)'
    BY <1>10, <1>11, <2>5, <2>6, <2>7, <2>8 DEF MemInv
  <2> QED  BY <1>1, <1>4, <1>8, <1>9, <2>9 DEF UserInv
<1> QED  BY <1>14, <1>15

(* A step of vm_map_page() that keeps the agreement of owners, tables and   *)
(* mappings, and its own bookkeeping.                                       *)
LEMMA WalkKeeps ==
  ASSUME TaskTyped, ~vm_panicked, NEW mp, TasksOK(mp), NEW own, WalkOK(own),
         NEW t \in Spaces, pc[t].at = "walk",
         UNCHANGED <<task, pages, pc, root, masked, vm_panicked, kept, raw>>,
         PageInv', walk' \in WalkType, NEW o,
         Forest(o, table', root), Maps(o, table', mp), Owners(o, page_bitmap', kept, raw),
         HasPages(o, pages, pc), Walking(walk', page_bitmap', o, table', root[t], t, pc[t])
  PROVE  UserInv'
<1>1. TaskTyped'
  BY DEF TaskTyped
<1>2. \A u \in Spaces : pc[u].at = "walk" => masked = u
  BY DEF WalkOK
<1>3. \A u \in Spaces : pc[u].at = "walk" => u = t
  BY <1>2
<1>4. WalkOK(o)'
  BY <1>2, <1>3 DEF WalkOK
<1>5. TasksOK(mp)'
  BY DEF TasksOK
<1>6. Forest(o, table', root') /\ Maps(o, table', mp) /\ Owners(o, page_bitmap', kept', raw') /\ HasPages(o, pages', pc')
  OBVIOUS
<1>7. MemInv(o, mp)'
  BY <1>4, <1>5, <1>6 DEF MemInv
<1> QED  BY <1>1, <1>7 DEF UserInv

(* Where a level of vm_walk() is: the table a, its entry s, and below it    *)
(* nothing or the next table.                                               *)
LEMMA WalkAt ==
  ASSUME TaskTyped, NEW own, Forest(own, table, root), NEW mp, TasksOK(mp), WalkOK(own),
         NEW t \in Spaces, pc[t].at = "walk", ~walk.rollback, walk.level > 0
  PROVE  \E i, j \in Index, a \in Page :
           /\ i = walk.va[1] /\ j = walk.va[2] /\ a = walk.at
           /\ \/ walk.level = 2 /\ Slot = i /\ a = root[t] /\ own[a] = RootOf(t) /\ EmptyOrLink(table[a][i])
                 /\ TookNothing(walk, page_bitmap)
              \/ walk.level = 1 /\ Slot = j /\ own[a] = DirOf(t, i) /\ EmptyOrLink(table[a][j])
                 /\ (TookNothing(walk, page_bitmap) \/ TookDir(walk, page_bitmap, own, table, root[t], t, a))
<1>1. Walking(walk, page_bitmap, own, table, root[t], t, pc[t]) /\ TaskOK(pc[t], task[t], root[t], pages[t], mp[t])
  BY DEF WalkOK, TasksOK
<1>2. pc[t].n \in 1 .. 4 /\ root[t] # NULL
  BY <1>1 DEF TaskOK, HasRoot
<1>3. PICK i \in Index, j \in Index : i = walk.va[1] /\ j = walk.va[2]
  BY <1>1, <1>2, UserVaFacts DEF Walking
<1>4. walk.level \in 0 .. 2
  BY DEF TaskTyped, WalkType
<1>5. CASE walk.level = 2
  <2>1. walk.at = root[t] /\ TookNothing(walk, page_bitmap)
    BY <1>1, <1>5 DEF Walking
  <2>2. root[t] \in Page /\ own[root[t]] = RootOf(t)
    BY <1>2 DEF Forest, Typed, Roots
  <2>3. EmptyOrLink(table[root[t]][i])
    BY <2>2 DEF Forest, OnlyLinks
  <2>4. Slot = i
    BY <1>3, <1>5 DEF Slot
  <2> QED  BY <1>3, <1>5, <2>1, <2>2, <2>3, <2>4
<1>6. CASE walk.level = 1
  <2>1. /\ walk.at \in Page /\ own[walk.at] = DirOf(t, i)
        /\ TookNothing(walk, page_bitmap) \/ TookDir(walk, page_bitmap, own, table, root[t], t, walk.at)
    BY <1>1, <1>3, <1>6 DEF Walking
  <2>2. EmptyOrLink(table[walk.at][j])
    BY <2>1 DEF Forest, OnlyLinks
  <2>3. Slot = j
    BY <1>3, <1>6 DEF Slot
  <2> QED  BY <1>3, <1>6, <2>1, <2>2, <2>3
<1> QED  BY <1>4, <1>5, <1>6

(* One level of vm_walk(). *)
LEMMA WalkDownStep ==
  ASSUME UserInv, NEW t \in Spaces, Here(t, "walk"), WalkDown(t), UNCHANGED taskvars, UNCHANGED <<kept, raw>>
  PROVE  UserInv' /\ [PageNext]_pagevars
<1>1. /\ PageInv /\ page_bitmap \in [Page -> BOOLEAN] /\ ~vm_panicked /\ TaskTyped
  BY Unfold
<1>2. PICK own, mp :
        /\ Forest(own, table, root) /\ Maps(own, table, mp) /\ Owners(own, page_bitmap, kept, raw)
        /\ HasPages(own, pages, pc) /\ TasksOK(mp) /\ WalkOK(own)
        /\ own \in [Page -> Roles] /\ table \in [Page -> [Index -> Pte]]
  BY Unfold
<1>3. /\ pc[t].at = "walk" /\ ~walk.rollback /\ walk.level > 0
      /\ UNCHANGED <<task, pages, pc, root, masked, vm_panicked, kept, raw>>
  BY DEF Here, WalkDown, taskvars
<1>4. PICK i \in Index, j \in Index, a \in Page :
        /\ i = walk.va[1] /\ j = walk.va[2] /\ a = walk.at
        /\ \/ walk.level = 2 /\ Slot = i /\ a = root[t] /\ own[a] = RootOf(t) /\ EmptyOrLink(table[a][i])
              /\ TookNothing(walk, page_bitmap)
           \/ walk.level = 1 /\ Slot = j /\ own[a] = DirOf(t, i) /\ EmptyOrLink(table[a][j])
              /\ (TookNothing(walk, page_bitmap) \/ TookDir(walk, page_bitmap, own, table, root[t], t, a))
  BY <1>1, <1>2, <1>3, WalkAt
<1>5. PICK w \in WalkType, s \in Index, lv \in 1 .. 2 : w = walk /\ s = Slot /\ lv = walk.level
  BY <1>1, <1>4 DEF TaskTyped
<1>6. Entry = table[a][s] /\ EmptyOrLink(table[a][s])
  BY <1>4, <1>5 DEF Entry
<1>7. w.space = t /\ w.va = UserVa[pc[t].n] /\ w.va[1] = i /\ w.va[2] = j
  BY <1>2, <1>3, <1>4, <1>5 DEF WalkOK, Walking
<1>8. CASE Entry # NoPte
  <2>1. PICK c \in Page : table[a][s] = Link(c)
    BY <1>6, <1>8 DEF EmptyOrLink
  <2>2. ~Entry.leaf /\ Entry.pa = c
    BY <1>6, <2>1, PteFacts
  <2>3. walk' = [w EXCEPT !.at = c, !.level = lv - 1] /\ UNCHANGED pagevars /\ table' = table
    BY <1>5, <1>8, <2>2 DEF WalkDown
  <2>4. /\ walk' \in WalkType /\ walk'.at = c /\ walk'.level = lv - 1 /\ walk'.space = w.space /\ walk'.va = w.va
        /\ walk'.new = w.new /\ walk'.rollback = w.rollback /\ walk'.before = w.before
    <3>1. walk' = [space |-> w.space, va |-> w.va, level |-> lv - 1, at |-> c, new |-> w.new,
                   rollback |-> w.rollback, before |-> w.before]
      BY <1>5, <2>3 DEF WalkType
    <3>2. lv - 1 \in 0 .. 2 /\ c \in Page \cup {NULL}
      BY <1>5
    <3>3. walk' \in WalkType
      BY <1>5, <3>1, <3>2 DEF WalkType
    <3> QED  BY <3>1, <3>3
  <2>5. PageInv' /\ [PageNext]_pagevars /\ page_bitmap' = page_bitmap
    BY <1>1, <2>3, PagesUnchanged
  <2>6. Walking(walk', page_bitmap, own, table, root[t], t, pc[t])
    <3>1. CASE lv = 2
      <4>1. own[c] = DirOf(t, i) /\ TookNothing(walk, page_bitmap)
        BY <1>2, <1>4, <1>5, <2>1, <3>1 DEF Forest, RootLinks
      <4>2. TookNothing(walk', page_bitmap)
        BY <1>5, <2>4, <4>1 DEF TookNothing
      <4> QED  BY <1>3, <1>5, <1>7, <2>4, <3>1, <4>1, <4>2 DEF Walking
    <3>2. CASE lv = 1
      <4>1. own[c] = LastOf(t, i, j)
        BY <1>2, <1>4, <1>5, <2>1, <3>2 DEF Forest, DirLinks
      <4> QED  BY <1>3, <1>5, <1>7, <2>4, <3>2, <4>1 DEF Walking
    <3> QED  BY <3>1, <3>2
  <2>7. /\ Forest(own, table', root) /\ Maps(own, table', mp) /\ Owners(own, page_bitmap', kept, raw)
        /\ Walking(walk', page_bitmap', own, table', root[t], t, pc[t])
    BY <1>2, <2>3, <2>5, <2>6
  <2>8. UserInv'
    BY <1>1, <1>2, <1>3, <2>4, <2>5, <2>7, WalkKeeps
  <2> QED  BY <2>5, <2>8
<1>9. CASE Entry = NoPte /\ page_result' = NULL
  <2>1. page_alloc /\ walk' = [w EXCEPT !.rollback = TRUE] /\ table' = table
    BY <1>5, <1>9 DEF WalkDown
  <2>2. PageInv' /\ [PageNext]_pagevars /\ page_bitmap' = page_bitmap
    BY <1>1, <1>9, <2>1, AllocGives, NullFacts
  <2>3. /\ walk' \in WalkType /\ walk'.space = w.space /\ walk'.va = w.va
        /\ walk'.new = w.new /\ walk'.rollback = TRUE /\ walk'.before = w.before
    BY <1>5, <2>1 DEF WalkType
  <2>4. TookNothing(walk, page_bitmap) \/ TookDir(walk, page_bitmap, own, table, root[t], t, a)
    BY <1>4
  <2>5. TookNothing(walk', page_bitmap) \/ TookDir(walk', page_bitmap, own, table, root[t], t, a)
    BY <1>5, <2>3, <2>4 DEF TookNothing, TookDir
  <2>6. Walking(walk', page_bitmap, own, table, root[t], t, pc[t])
    BY <1>7, <2>3, <2>5 DEF Walking
  <2>7. /\ Forest(own, table', root) /\ Maps(own, table', mp) /\ Owners(own, page_bitmap', kept, raw)
        /\ Walking(walk', page_bitmap', own, table', root[t], t, pc[t])
    BY <1>2, <2>1, <2>2, <2>6
  <2>8. UserInv'
    BY <1>1, <1>2, <1>3, <2>2, <2>3, <2>7, WalkKeeps
  <2> QED  BY <2>2, <2>8
<1>10. CASE Entry = NoPte /\ page_result' # NULL
  <2>1. page_alloc
    BY <1>10 DEF WalkDown
  <2>2. PICK p \in Page : page_result' = p /\ ~page_bitmap[p] /\ page_bitmap' = [page_bitmap EXCEPT ![p] = TRUE]
    BY <1>1, <1>10, <2>1, AllocGives
  <2>3. PageInv' /\ [PageNext]_pagevars
    BY <1>1, <2>1, AllocGives
  <2>4. /\ table' = [table EXCEPT ![p] = NewTable, ![a][s] = [leaf |-> FALSE, pa |-> p]]
        /\ walk' = [w EXCEPT !.at = p, !.level = lv - 1, !.new = Append(w.new, <<a, s, p>>)]
    BY <1>4, <1>5, <1>10, <2>2 DEF WalkDown
  <2>5. own[p] = Free /\ NoTable(own[p]) /\ a # p
    <3>1. own[p] = Free
      BY <1>2, <2>2 DEF Owners
    <3> QED  BY <1>4, <3>1, NoTableRoles DEF NoTable
  <2>6. EntrySet(table, table', a, s, Link(p)) /\ table'[p] = NewTable /\ \A q \in Page : q # p /\ q # a => table'[q] = table[q]
    <3>1. PICK b \in [Page -> [Index -> Pte]] : b = [table EXCEPT ![p] = NewTable]
      BY <1>2, NewTableFacts
    <3>2. b[p] = NewTable /\ \A q \in Page : q # p => b[q] = table[q]
      BY <1>2, <3>1
    <3>3. table' = [b EXCEPT ![a][s] = Link(p)] /\ Link(p) \in Pte
      BY <2>4, <3>1, PteFacts DEF Link
    <3>4. table' \in [Page -> [Index -> Pte]] /\ table'[a][s] = Link(p)
          /\ (\A m \in Index : m # s => table'[a][m] = b[a][m]) /\ \A q \in Page : q # a => table'[q] = b[q]
      BY <3>1, <3>3
    <3> QED  BY <2>5, <3>2, <3>4 DEF EntrySet
  <2>7. /\ walk' \in WalkType /\ walk'.at = p /\ walk'.level = lv - 1 /\ walk'.space = w.space /\ walk'.va = w.va
        /\ walk'.new = Append(w.new, <<a, s, p>>) /\ walk'.rollback = w.rollback /\ walk'.before = w.before
    <3>1. Append(w.new, <<a, s, p>>) \in Seq(Step3)
      BY <1>5 DEF WalkType, Step3
    <3>2. walk' = [space |-> w.space, va |-> w.va, level |-> lv - 1, at |-> p, new |-> Append(w.new, <<a, s, p>>),
                   rollback |-> w.rollback, before |-> w.before]
      BY <1>5, <2>4 DEF WalkType
    <3>3. lv - 1 \in 0 .. 2 /\ p \in Page \cup {NULL}
      BY <1>5
    <3>4. PICK nw : nw = Append(w.new, <<a, s, p>>)
      OBVIOUS
    <3>5. walk' \in WalkType
      BY <1>5, <3>1, <3>2, <3>3, <3>4 DEF WalkType
    <3> QED  BY <3>2, <3>5
  <2>8. table[a][s] = NoPte
    BY <1>6, <1>10
  <2>9. ASSUME NEW r \in Roles, r # Free, r # Kept, r # Raw, \A u \in Spaces, n \in 1 .. 3 : r # PageOf(u, n)
        PROVE  Owners([own EXCEPT ![p] = r], page_bitmap', kept, raw) /\ HasPages([own EXCEPT ![p] = r], pages, pc)
    <3>1. own[p] # Kept /\ own[p] # Raw /\ \A u \in Spaces, n \in 1 .. 3 : own[p] # PageOf(u, n)
      BY <2>5, OtherRoles
    <3>2. Owners([own EXCEPT ![p] = r], page_bitmap', kept, raw)
      BY <1>1, <1>2, <2>2, <2>9, <3>1, OwnersHandOver
    <3>3. HasPages([own EXCEPT ![p] = r], pages, pc)
      BY <1>2, <2>9, <3>1 DEF HasPages
    <3> QED  BY <3>2, <3>3
  <2>10. CASE lv = 2
    <3> DEFINE o == [own EXCEPT ![p] = DirOf(t, i)]
    <3>1. s = i /\ a = root[t] /\ own[a] = RootOf(t) /\ TookNothing(walk, page_bitmap) /\ i \in Nat
      BY <1>4, <1>5, <2>10, VmAssumption
    <3>2. Forest(o, table', root)
      BY <1>2, <2>5, <2>6, <2>8, <3>1, ForestAddDir
    <3>3. o[p] = DirOf(t, i) /\ \A q \in Page : q # p => o[q] = own[q]
      BY <1>2
    <3>4. Owners(o, page_bitmap', kept, raw) /\ HasPages(o, pages, pc)
      BY <2>9, <3>1, RolesOf, OtherRoles
    <3> HIDE DEF o
    <3>5. Maps(o, table', mp)
      <4>1. \A q \in Page, u \in Spaces, k, m \in Index : o[q] = LastOf(u, k, m) => own[q] = o[q] /\ table'[q] = table[q]
        BY <2>6, <3>1, <3>3, TableRoles
      <4>2. \A q \in Page, u \in Spaces, k, m \in Index : own[q] = LastOf(u, k, m) => own[q] = o[q] /\ table'[q] = table[q]
        BY <2>5, <2>6, <3>1, <3>3, TableRoles DEF NoTable
      <4> QED  BY <1>2, <4>1, <4>2, MapsFrame
    <3>6. TookDir(walk', page_bitmap', o, table', root[t], t, p)
      <4>1. w.new = <<>> /\ w.before = {q \in Page : page_bitmap[q]}
        BY <1>5, <3>1 DEF TookNothing
      <4>2. walk'.new = <<<<root[t], i, p>>>>
        BY <2>7, <3>1, <4>1
      <4>3. walk'.before = {q \in Page : page_bitmap'[q]} \ {p}
        BY <1>1, <2>2, <2>7, <4>1
      <4> QED  BY <1>7, <2>6, <2>7, <3>3, <4>2, <4>3 DEF TookDir
    <3>7. Walking(walk', page_bitmap', o, table', root[t], t, pc[t])
      BY <1>3, <1>5, <1>7, <2>7, <2>10, <3>3, <3>6 DEF Walking
    <3>8. UserInv'
      BY <1>1, <1>2, <1>3, <2>3, <2>7, <3>2, <3>4, <3>5, <3>7, WalkKeeps
    <3> QED  BY <2>3, <3>8
  <2>11. CASE lv = 1
    <3> DEFINE o == [own EXCEPT ![p] = LastOf(t, i, j)]
    <3>1. s = j /\ own[a] = DirOf(t, i) /\ i \in Nat /\ j \in Nat
      BY <1>4, <1>5, <2>11, VmAssumption
    <3>2. Forest(o, table', root)
      BY <1>2, <2>5, <2>6, <2>8, <3>1, ForestAddLast
    <3>3. o[p] = LastOf(t, i, j) /\ \A q \in Page : q # p => o[q] = own[q]
      BY <1>2
    <3>4. Owners(o, page_bitmap', kept, raw) /\ HasPages(o, pages, pc)
      BY <2>9, <3>1, RolesOf, OtherRoles
    <3> HIDE DEF o
    <3>5. Maps(o, table', mp)
      <4>1. \A k \in Index : table'[p][k] = NoPte
        BY <2>6, NewTableFacts
      <4>2. \A q \in Page, u \in Spaces, k, m \in Index : o[q] = LastOf(u, k, m) =>
              (own[q] = o[q] /\ table'[q] = table[q]) \/ \A x \in Index : table'[q][x] = NoPte
        BY <2>6, <3>1, <3>3, <4>1, TableRoles
      <4>3. \A q \in Page, u \in Spaces, k, m \in Index : own[q] = LastOf(u, k, m) => own[q] = o[q] /\ table'[q] = table[q]
        BY <2>5, <2>6, <3>1, <3>3, TableRoles DEF NoTable
      <4> QED  BY <1>2, <4>2, <4>3, MapsFrame
    <3>6. Walking(walk', page_bitmap', o, table', root[t], t, pc[t])
      BY <1>3, <1>5, <1>7, <2>7, <2>11, <3>3 DEF Walking
    <3>7. UserInv'
      BY <1>1, <1>2, <1>3, <2>3, <2>7, <3>2, <3>4, <3>5, <3>6, WalkKeeps
    <3> QED  BY <2>3, <3>7
  <2> QED  BY <2>10, <2>11
<1> QED  BY <1>8, <1>9, <1>10

(* A table with one entry cleared. *)
LEMMA ClearEntry ==
  ASSUME table \in [Page -> [Index -> Pte]], NEW q \in Page, NEW k \in Index,
         table' = [table EXCEPT ![q][k] = NoPte]
  PROVE  EntrySet(table, table', q, k, NoPte) /\ \A p \in Page : p # q => table'[p] = table[p]
BY PteFacts DEF EntrySet

(* One iteration of rollback_allocated_tables(). *)
LEMMA RollbackStep ==
  ASSUME UserInv, NEW t \in Spaces, Here(t, "walk"), Rollback(t), UNCHANGED taskvars, UNCHANGED <<kept, raw>>
  PROVE  UserInv' /\ [PageNext]_pagevars
<1>1. /\ PageInv /\ page_bitmap \in [Page -> BOOLEAN] /\ ~vm_panicked /\ TaskTyped
  BY Unfold
<1>2. PICK own, mp :
        /\ Forest(own, table, root) /\ Maps(own, table, mp) /\ Owners(own, page_bitmap, kept, raw)
        /\ HasPages(own, pages, pc) /\ TasksOK(mp) /\ WalkOK(own)
        /\ own \in [Page -> Roles] /\ table \in [Page -> [Index -> Pte]]
        /\ TaskOK(pc[t], task[t], root[t], pages[t], mp[t])
  BY Unfold
<1>3. /\ pc[t].at = "walk" /\ walk.rollback /\ walk.new # <<>>
      /\ UNCHANGED <<task, pages, pc, root, masked, kept, raw>>
  BY DEF Here, Rollback, taskvars
<1>4. PICK w \in WalkType : w = walk
  BY <1>1 DEF TaskTyped
<1>5. w.space = t /\ w.va = UserVa[pc[t].n] /\ w.rollback /\ w.new # <<>>
  BY <1>2, <1>3, <1>4 DEF WalkOK, Walking
<1>6. PICK d \in Page : TookDir(w, page_bitmap, own, table, root[t], t, d)
  BY <1>2, <1>3, <1>4 DEF WalkOK, Walking, TookNothing
<1>7. PICK i, r : i \in Index /\ i = w.va[1] /\ r = root[t]
  <2>1. pc[t].n \in 1 .. 4
    BY <1>2, <1>3 DEF TaskOK
  <2> QED  BY <1>5, <2>1, UserVaFacts
<1>8. /\ w.new = <<<<r, i, d>>>> /\ own[d] = DirOf(t, i) /\ table[d] = NewTable
      /\ w.before = {p \in Page : page_bitmap[p]} \ {d}
  BY <1>6, <1>7 DEF TookDir
<1>9. r \in Page /\ own[r] = RootOf(t) /\ table[r][i] = Link(d)
  BY <1>2, <1>7, <1>8 DEF Forest, DirLinked, Roots
<1>10. /\ table' = [table EXCEPT ![r][i] = NoPte] /\ FreePage(d)
       /\ walk' = [w EXCEPT !.new = SubSeq(w.new, 1, Len(w.new) - 1)]
  BY <1>4, <1>8 DEF Rollback
<1>11. page_bitmap[d]
  BY <1>2, <1>7, <1>8, OtherRoles DEF Owners
<1>12. PageInv' /\ [PageNext]_pagevars /\ page_bitmap' = [page_bitmap EXCEPT ![d] = FALSE] /\ ~vm_panicked'
  BY <1>1, <1>10, <1>11, FreePageSafe
<1>13. walk' = [w EXCEPT !.new = <<>>]
  BY <1>8, <1>10
<1>14. /\ walk' \in WalkType /\ walk'.space = w.space /\ walk'.va = w.va
       /\ walk'.new = <<>> /\ walk'.rollback = w.rollback /\ walk'.before = w.before
  <2>1. walk' = [space |-> w.space, va |-> w.va, level |-> w.level, at |-> w.at, new |-> <<>>,
                 rollback |-> w.rollback, before |-> w.before]
    BY <1>4, <1>13 DEF WalkType
  <2>2. <<>> \in Seq(Step3)
    OBVIOUS
  <2>3. walk' \in WalkType
    BY <1>4, <2>1, <2>2 DEF WalkType
  <2> QED  BY <2>1, <2>3
<1>15. EntrySet(table, table', r, i, NoPte) /\ \A q \in Page : q # r => table'[q] = table[q]
  BY <1>2, <1>7, <1>9, <1>10, ClearEntry
<1> DEFINE o == [own EXCEPT ![d] = Free]
<1>16. Forest(o, table', root)
  <2>1. \A k \in Index : table[d][k] = NoPte
    BY <1>8, NewTableFacts
  <2>2. PICK b : b = table'
    OBVIOUS
  <2>3. EntrySet(table, b, r, i, NoPte) /\ (\A q \in Page : q # r => b[q] = table[q]) /\ i \in Index
    BY <1>7, <1>15, <2>2
  <2>4. /\ Forest(own, table, root) /\ i \in Index /\ r \in Page /\ own[r] = RootOf(t) /\ table[r][i] = Link(d)
        /\ \A j \in Index : table[d][j] = NoPte
        /\ EntrySet(table, b, r, i, NoPte) /\ \A q \in Page : q # r => b[q] = table[q]
    BY <1>2, <1>9, <2>1, <2>3
  <2>5. Forest(o, b, root)
    BY ONLY <2>4, ForestDropDir, d \in Page, t \in Spaces DEF o
  <2> QED  BY <2>2, <2>5
<1>17. o[d] = Free /\ \A q \in Page : q # d => o[q] = own[q]
  BY <1>2
<1>18. Owners(o, page_bitmap', kept, raw)
  <2>1. own[d] # Kept /\ own[d] # Raw /\ Free # Kept /\ Free # Raw /\ Free \in Roles
    BY <1>7, <1>8, OtherRoles, RolesOf
  <2> QED  BY <1>1, <1>2, <1>12, <2>1, OwnersHandOver
<1> HIDE DEF o
<1>19. HasPages(o, pages, pc)
  BY <1>2, <1>7, <1>8, <1>17, OtherRoles DEF HasPages
<1>20. Maps(o, table', mp)
  <2>1. \A q \in Page, u \in Spaces, k, m \in Index : o[q] = LastOf(u, k, m) => own[q] = o[q] /\ table'[q] = table[q]
    BY <1>9, <1>15, <1>17, TableRoles, NoTableRoles DEF NoTable
  <2>2. \A q \in Page, u \in Spaces, k, m \in Index : own[q] = LastOf(u, k, m) => own[q] = o[q] /\ table'[q] = table[q]
    BY <1>7, <1>8, <1>9, <1>15, <1>17, TableRoles
  <2> QED  BY <1>2, <2>1, <2>2, MapsFrame
<1>21. Walking(walk', page_bitmap', o, table', root[t], t, pc[t])
  <2>1. walk'.before = {p \in Page : page_bitmap'[p]}
    BY <1>1, <1>8, <1>12, <1>14
  <2>2. TookNothing(walk', page_bitmap')
    BY <1>14, <2>1 DEF TookNothing
  <2> QED  BY <1>5, <1>14, <2>2 DEF Walking
<1>22. UNCHANGED vm_panicked
  BY <1>10, <1>11 DEF FreePage
<1>23. UserInv'
  BY <1>1, <1>2, <1>3, <1>12, <1>14, <1>16, <1>18, <1>19, <1>20, <1>21, <1>22, WalkKeeps
<1> QED  BY <1>12, <1>23

(* A complete task has a page, or the trampoline, for each of its addresses. *)
LEMMA TargetIs ==
  ASSUME NEW pg \in [1 .. 3 -> Page \cup {NULL}], Complete(pg), NEW n \in 1 .. 4
  PROVE  Target(pg, n) \in Page \cup {NULL, Trampoline} /\ Target(pg, n) # NULL
<1>1. /\ Target(pg, 1) = pg[1] /\ Target(pg, 2) = pg[2] /\ Target(pg, 3) = Trampoline /\ Target(pg, 4) = pg[3]
  BY DEF Target
<1>2. \A k \in 1 .. 3 : pg[k] \in Page \cup {NULL, Trampoline} /\ pg[k] # NULL
  BY DEF Complete
<1>3. n = 1 \/ n = 2 \/ n = 3 \/ n = 4
  OBVIOUS
<1> QED  BY <1>1, <1>2, <1>3, NullFacts

(* When the walk is over, the mapping fails only for want of memory. *)
LEMMA MapOutcome ==
  ASSUME TaskTyped, NEW own, Forest(own, table, root), NEW mp, Maps(own, table, mp), TasksOK(mp), WalkOK(own),
         NEW t \in Spaces, pc[t].at = "walk", MapEnds(t)
  PROVE  \/ /\ MapOk /\ walk.at \in Page
            /\ own[walk.at] = LastOf(t, UserVa[pc[t].n][1], UserVa[pc[t].n][2])
         \/ ~MapOk /\ walk.rollback /\ TookNothing(walk, page_bitmap)
<1>1. Walking(walk, page_bitmap, own, table, root[t], t, pc[t]) /\ TaskOK(pc[t], task[t], root[t], pages[t], mp[t])
  BY DEF WalkOK, TasksOK
<1>2. PICK n \in 1 .. 4 : n = pc[t].n
  BY <1>1 DEF TaskOK
<1>3. mp[t][n] = NULL /\ walk.va = UserVa[n]
  BY <1>1, <1>2 DEF TaskOK, Walking
<1>4. CASE walk.rollback
  <2>1. walk.new = <<>>
    BY <1>4 DEF MapEnds
  <2>2. \A d \in Page : ~TookDir(walk, page_bitmap, own, table, root[t], t, d)
    BY <2>1 DEF TookDir
  <2>3. TookNothing(walk, page_bitmap)
    BY <1>1, <1>4, <2>2 DEF Walking
  <2> QED  BY <1>4, <2>3 DEF MapOk
<1>5. CASE ~walk.rollback
  <2>1. PICK i \in Index, j \in Index, k \in Index : i = UserVa[n][1] /\ j = UserVa[n][2] /\ k = UserVa[n][3]
    BY UserVaFacts
  <2>2. PICK l \in Page : l = walk.at /\ own[l] = LastOf(t, i, j)
    BY <1>1, <1>3, <1>5, <2>1 DEF Walking, MapEnds
  <2>3. table[l][k] = NoPte
    <3>1. SUFFICES ASSUME NEW x \in 1 .. 4, UserVa[x][1] = i, UserVa[x][2] = j, UserVa[x][3] = k, mp[t][x] # NULL
                   PROVE  FALSE
      BY <2>2 DEF Maps, OnlyMapped
    <3>2. x = n
      BY <2>1, <3>1, UserVaFacts
    <3> QED  BY <1>3, <3>1, <3>2
  <2>4. MapOk
    BY <1>3, <1>5, <2>1, <2>2, <2>3 DEF MapOk
  <2> QED  BY <1>2, <2>1, <2>2, <2>4
<1> QED  BY <1>4, <1>5

(* The end of vm_map_page(): the mapping is made, or the initialisation     *)
(* turns to its cleanup.                                                    *)
LEMMA MapReturnsStep ==
  ASSUME UserInv, NEW t \in Spaces, MapReturns(t), UNCHANGED <<kept, raw>>
  PROVE  UserInv' /\ [PageNext]_pagevars
<1>1. /\ PageInv /\ page_bitmap \in [Page -> BOOLEAN] /\ ~vm_panicked /\ TaskTyped
  BY Unfold
<1>2. PICK own, mp :
        /\ Forest(own, table, root) /\ Maps(own, table, mp) /\ Owners(own, page_bitmap, kept, raw)
        /\ HasPages(own, pages, pc) /\ TasksOK(mp) /\ WalkOK(own)
        /\ own \in [Page -> Roles] /\ root \in [Spaces -> Page \cup {NULL}]
        /\ table \in [Page -> [Index -> Pte]]
        /\ mp \in [Spaces -> [1 .. 4 -> Page \cup {NULL, Trampoline}]]
        /\ TaskOK(pc[t], task[t], root[t], pages[t], mp[t])
  BY Unfold
<1>3. PICK n, next : n = pc[t].n /\ next = AfterMap(n)
  OBVIOUS
<1>4. /\ MayRun(t) /\ pc[t].at = "walk" /\ pc' = [pc EXCEPT ![t] = next]
      /\ vm_map_end(t, MapsTo(t, n))
      /\ task' = IF next = Idle THEN [task EXCEPT ![t] = "READY"] ELSE task
      /\ UNCHANGED <<pages, kept, raw>>
  BY <1>3 DEF MapReturns, Here, Goto
<1>5. /\ MapEnds(t) /\ walk' = NoWalk
      /\ table' = IF MapOk THEN [table EXCEPT ![walk.at][walk.va[3]] = [leaf |-> TRUE, pa |-> MapsTo(t, n)]] ELSE table
      /\ UNCHANGED <<pagevars, root, vm_panicked>>
  BY <1>4 DEF vm_map_end
<1>6. /\ root[t] # NULL /\ task[t] # "READY" /\ n \in 1 .. 4 /\ Complete(pages[t])
      /\ \A m \in 1 .. 4 : mp[t][m] = IF m < n THEN Target(pages[t], m) ELSE NULL
  BY <1>2, <1>3, <1>4 DEF TaskOK, HasRoot
<1>7. PageInv' /\ [PageNext]_pagevars /\ page_bitmap' = page_bitmap
  BY <1>1, <1>5, PagesUnchanged
<1>8. \A u \in Spaces : u # t => pc[u].at # "walk"
  BY <1>2, <1>4, AloneWalking
<1>9. ASSUME next \in PcType, next.at \notin {"walk", "free"}, task' \in [Spaces -> {"UNUSED", "READY", "EXITED", "DESTROYED"}],
             \A u \in Spaces : u # t => task'[u] = task[u],
             NEW m, \A u \in Spaces : u # t => m[u] = mp[u],
             Forest(own, table', root), Maps(own, table', m),
             TaskOK(next, task'[t], root[t], pages[t], m[t])
      PROVE  UserInv'
  <2>1. /\ pc' \in [Spaces -> PcType] /\ pc'[t] = next
        /\ \A u \in Spaces : u # t => pc'[u] = pc[u]
    BY <1>1, <1>4, <1>9 DEF TaskTyped
  <2>2. NoWalk \in WalkType
    BY DEF NoWalk, WalkType
  <2>3. TaskTyped'
    BY <1>1, <1>4, <1>5, <1>9, <2>1, <2>2 DEF TaskTyped
  <2>4. HasPages(own, pages', pc')
    <3>1. \A u \in Spaces, k \in 1 .. 3 : Live(pc'[u], k) <=> Live(pc[u], k)
      BY <1>4, <1>9, <2>1 DEF Live
    <3> QED  BY <1>2, <1>4, <3>1 DEF HasPages
  <2>5. WalkOK(own)'
    <3>1. \A u \in Spaces : pc'[u].at # "walk"
      BY <1>8, <1>9, <2>1
    <3> QED  BY <1>5, <3>1 DEF WalkOK
  <2>6. TasksOK(m)'
    <3>1. TaskOK(pc'[t], task'[t], root'[t], pages'[t], m[t])
      BY <1>4, <1>5, <1>9, <2>1
    <3>2. \A u \in Spaces : u # t => /\ m[u] = mp[u] /\ pc'[u] = pc[u] /\ task'[u] = task[u]
                                     /\ root'[u] = root[u] /\ pages'[u] = pages[u]
      BY <1>4, <1>5, <1>9, <2>1
    <3> QED  BY <1>2, <3>1, <3>2, TasksStep
  <2>7. Forest(own, table', root') /\ Maps(own, table', m) /\ Owners(own, page_bitmap', kept', raw')
    BY <1>2, <1>4, <1>5, <1>7, <1>9
  <2>8. MemInv(own, m)'
    BY <2>4, <2>5, <2>6, <2>7 DEF MemInv
  <2> QED  BY <1>1, <1>5, <1>7, <2>3, <2>8 DEF UserInv
<1>10. /\ \A at \in Places, k \in 0 .. 4 : At(at, k) \in PcType /\ At(at, k).at = at /\ At(at, k).n = k
       /\ \A at, k : at # "idle" => At(at, k) # Idle
  <2>1. \A at, k : At(at, k).at = at /\ At(at, k).n = k
    BY DEF At
  <2>2. \A at \in Places, k \in 0 .. 4 : At(at, k) \in PcType
    BY DEF At, PcType
  <2> QED  BY <2>1, <2>2 DEF Idle
<1>11. CASE ~MapOk
  <2>1. PICK k \in 0 .. 4 : k = (IF n = 4 THEN 0 ELSE 1) /\ next = At("unmap", k)
    BY <1>3, <1>11 DEF AfterMap
  <2>2. next \in PcType /\ next.at = "unmap" /\ next.n = k /\ next # Idle
    BY <1>10, <2>1 DEF Places
  <2>3. task' = task /\ table' = table
    BY <1>4, <1>5, <1>11, <2>2
  <2>4. \A m \in 1 .. 4 : mp[t][m] # NULL => m >= k /\ mp[t][m] = Target(pages[t], m)
    BY <1>6, <2>1
  <2>5. TaskOK(next, task[t], root[t], pages[t], mp[t])
    BY <1>6, <2>2, <2>4 DEF TaskOK, HasRoot
  <2> QED  BY <1>1, <1>2, <1>7, <1>9, <2>2, <2>3, <2>5 DEF TaskTyped
<1>12. CASE MapOk
  <2>1. PICK l \in Page : l = walk.at /\ own[l] = LastOf(t, UserVa[n][1], UserVa[n][2])
    BY <1>1, <1>2, <1>3, <1>4, <1>5, <1>12, MapOutcome
  <2>2. walk.va = UserVa[n]
    BY <1>2, <1>3, <1>4 DEF WalkOK, Walking
  <2>3. PICK pa \in Page \cup {NULL, Trampoline} : pa = Target(pages[t], n) /\ pa # NULL
    <3>1. pages[t] \in [1 .. 3 -> Page \cup {NULL}]
      BY <1>1 DEF TaskTyped
    <3> QED  BY <1>6, <3>1, TargetIs
  <2>4. table' = [table EXCEPT ![l][UserVa[n][3]] = Leaf(pa)]
    <3>1. MapsTo(t, n) = pa
      BY <2>3 DEF MapsTo, Target
    <3> QED  BY <1>5, <1>12, <2>1, <2>2, <3>1 DEF Leaf
  <2>5. UserVa[n][1] \in Index /\ UserVa[n][2] \in Index /\ UserVa[n][3] \in Index
    BY <1>6, UserVaFacts
  <2>6. EntrySet(table, table', l, UserVa[n][3], Leaf(pa)) /\ \A q \in Page : q # l => table'[q] = table[q]
    BY <1>2, <2>4, <2>5, PteFacts DEF EntrySet
  <2>7. PICK b : b = table'
    OBVIOUS
  <2>8. Forest(own, b, root)
    <3>1. PICK i \in Index, j \in Index : i = UserVa[n][1] /\ j = UserVa[n][2]
      BY <2>5
    <3>2. b \in [Page -> [Index -> Pte]] /\ own[l] = LastOf(t, i, j) /\ \A q \in Page : q # l => b[q] = table[q]
      BY <2>1, <2>6, <2>7, <3>1 DEF EntrySet
    <3> QED  BY <1>2, <3>2, ForestSetLast
  <2> DEFINE m == [mp EXCEPT ![t] = [mp[t] EXCEPT ![n] = pa]]
  <2>9. Maps(own, b, m)
    <3>1. /\ EntrySet(table, b, l, UserVa[n][3], IF pa = NULL THEN NoPte ELSE Leaf(pa))
          /\ \A q \in Page : q # l => b[q] = table[q]
      BY <2>3, <2>6, <2>7
    <3>2. /\ Forest(own, table, root) /\ Maps(own, table, mp) /\ n \in 1 .. 4
          /\ own[l] = LastOf(t, UserVa[n][1], UserVa[n][2])
      BY <1>2, <1>6, <2>1
    <3> QED  BY <3>1, <3>2, MapsSet
  <2>10. (\A u \in Spaces : u # t => m[u] = mp[u]) /\ m[t][n] = pa /\ \A k \in 1 .. 4 : k # n => m[t][k] = mp[t][k]
    BY <1>2, <1>6
  <2> HIDE DEF m
  <2>11. \A k \in 1 .. 4 : m[t][k] = IF k < n + 1 THEN Target(pages[t], k) ELSE NULL
    BY <1>6, <2>3, <2>10
  <2>12. CASE n < 4
    <3>1. next = At("map", n + 1) /\ n + 1 \in 1 .. 4 /\ n + 1 \in 0 .. 4
      BY <1>3, <1>6, <1>12, <2>12 DEF AfterMap
    <3>2. next \in PcType /\ next.at = "map" /\ next.n = n + 1 /\ next # Idle
      BY <1>10, <3>1 DEF Places
    <3>3. task' = task
      BY <1>4, <3>2
    <3>4. TaskOK(next, task[t], root[t], pages[t], m[t])
      BY <1>6, <2>11, <3>1, <3>2 DEF TaskOK, HasRoot
    <3> QED  BY <1>1, <1>7, <1>9, <2>7, <2>8, <2>9, <2>10, <3>2, <3>3, <3>4 DEF TaskTyped
  <2>13. CASE n = 4
    <3>1. next = Idle
      BY <1>3, <1>12, <2>13 DEF AfterMap
    <3>2. next \in PcType /\ next.at = "idle"
      BY <1>10, <3>1 DEF Idle, Places
    <3>3. task' = [task EXCEPT ![t] = "READY"]
      BY <1>4, <3>1
    <3>4. /\ task' \in [Spaces -> {"UNUSED", "READY", "EXITED", "DESTROYED"}] /\ task'[t] = "READY"
          /\ \A u \in Spaces : u # t => task'[u] = task[u]
      BY <1>1, <3>3 DEF TaskTyped
    <3>5. \A k \in 1 .. 4 : m[t][k] = Target(pages[t], k)
      BY <2>11, <2>13
    <3>6. TaskOK(next, "READY", root[t], pages[t], m[t])
      BY <1>6, <3>2, <3>5 DEF TaskOK, HasRoot
    <3> QED  BY <1>7, <1>9, <2>7, <2>8, <2>9, <2>10, <3>2, <3>4, <3>6
  <2> QED  BY <1>6, <2>12, <2>13
<1> QED  BY <1>11, <1>12

(* A table that holds nothing but links. *)
LEMMA LinksOnly ==
  ASSUME NEW e, EmptyOrLink(e)
  PROVE  ~e.leaf /\ \A c : (e # NoPte /\ c = e.pa) <=> (c \in Page /\ e = Link(c))
BY PteFacts, PtesDiffer DEF EmptyOrLink

(* The tables below the root of a task are the pages it owns as tables. *)
LEMMA TablesAre ==
  ASSUME NEW own, Forest(own, table, root), NEW t \in Spaces, NEW p
  PROVE  p \in Tables(t) <=> /\ p \in Page
                             /\ \/ own[p] = RootOf(t)
                                \/ \E i \in Index : own[p] = DirOf(t, i)
                                \/ \E i, j \in Index : own[p] = LastOf(t, i, j)
<1>1. CASE root[t] = NULL
  <2>1. p \notin Tables(t)
    BY <1>1 DEF Tables
  <2>2. \A q \in Page : own[q] # RootOf(t)
    BY <1>1, NullFacts DEF Forest, Roots
  <2>3. \A q \in Page, i \in Index : own[q] # DirOf(t, i)
    BY <1>1, NullFacts DEF Forest, DirLinked
  <2>4. \A q \in Page, i, j \in Index : own[q] # LastOf(t, i, j)
    BY <2>3 DEF Forest, LastLinked
  <2> QED  BY <2>1, <2>2, <2>3, <2>4
<1>2. CASE root[t] # NULL
  <2>1. PICK r \in Page : r = root[t]
    BY <1>2 DEF Forest, Typed
  <2>2. /\ own[r] = RootOf(t) /\ \A q \in Page : own[q] = RootOf(t) => q = r
    BY <2>1 DEF Forest, Roots
  <2>3. p \in Tables(t) <=>
          \/ p = r
          \/ \E i \in Index : table[r][i] # NoPte /\ ~table[r][i].leaf /\ p = table[r][i].pa
          \/ \E c : /\ \E i \in Index : table[r][i] # NoPte /\ ~table[r][i].leaf /\ c = table[r][i].pa
                    /\ \E j \in Index : table[c][j] # NoPte /\ ~table[c][j].leaf /\ p = table[c][j].pa
    BY <1>2, <2>1 DEF Tables, Below, Children, Entries
  <2>4. \A c : \A i \in Index : table[r][i] # NoPte /\ ~table[r][i].leaf /\ c = table[r][i].pa
                              <=> c \in Page /\ own[c] = DirOf(t, i)
    <3>1. SUFFICES ASSUME NEW i \in Index, NEW c
                   PROVE  table[r][i] # NoPte /\ ~table[r][i].leaf /\ c = table[r][i].pa
                            <=> c \in Page /\ own[c] = DirOf(t, i)
      OBVIOUS
    <3>2. EmptyOrLink(table[r][i])
      BY <2>2 DEF Forest, OnlyLinks
    <3>3. c \in Page /\ table[r][i] = Link(c) <=> c \in Page /\ own[c] = DirOf(t, i)
      BY <2>1, <2>2 DEF Forest, RootLinks, DirLinked
    <3> QED  BY <3>2, <3>3, LinksOnly
  <2>5. \A q : \A i, j \in Index, c \in Page : own[c] = DirOf(t, i) =>
          (table[c][j] # NoPte /\ ~table[c][j].leaf /\ q = table[c][j].pa <=> q \in Page /\ own[q] = LastOf(t, i, j))
    <3>1. SUFFICES ASSUME NEW i \in Index, NEW j \in Index, NEW c \in Page, NEW q, own[c] = DirOf(t, i)
                   PROVE  table[c][j] # NoPte /\ ~table[c][j].leaf /\ q = table[c][j].pa
                            <=> q \in Page /\ own[q] = LastOf(t, i, j)
      OBVIOUS
    <3>2. EmptyOrLink(table[c][j])
      BY <3>1 DEF Forest, OnlyLinks
    <3>3. q \in Page /\ table[c][j] = Link(q) => own[q] = LastOf(t, i, j)
      BY <3>1 DEF Forest, DirLinks
    <3>4. ASSUME q \in Page, own[q] = LastOf(t, i, j) PROVE table[c][j] = Link(q)
      <4>1. PICK d \in Page : own[d] = DirOf(t, i) /\ table[d][j] = Link(q)
        BY <3>4 DEF Forest, LastLinked
      <4>2. d = c
        BY <3>1, <4>1, TablesUnique
      <4> QED  BY <4>1, <4>2
    <3> QED  BY <3>2, <3>3, <3>4, LinksOnly
  <2>6. \A i, j \in Index, q \in Page : own[q] = LastOf(t, i, j) => \E c \in Page : own[c] = DirOf(t, i)
    BY DEF Forest, LastLinked
  <2>7. p \in Tables(t) <=> \/ p = r
                            \/ \E i \in Index : p \in Page /\ own[p] = DirOf(t, i)
                            \/ \E c \in Page, i \in Index : own[c] = DirOf(t, i) /\ \E j \in Index : p \in Page /\ own[p] = LastOf(t, i, j)
    BY <2>3, <2>4, <2>5
  <2> QED  BY <2>2, <2>6, <2>7
<1> QED  BY <1>1, <1>2

(* The leaves of a task are its mappings. *)
LEMMA LeavesAre ==
  ASSUME NEW own, Forest(own, table, root), NEW mp, Maps(own, table, mp), NEW t \in Spaces, NEW e, e \in Leaves(t)
  PROVE  \E n \in 1 .. 4 : mp[t][n] # NULL /\ e = Leaf(mp[t][n])
<1>1. PICK p, k : p \in Tables(t) /\ k \in Index /\ e = table[p][k] /\ e.leaf \in {TRUE}
  <2> DEFINE S == {table[p][i] : p \in Tables(t), i \in Index}
             L == [leaf : {TRUE}, pa : Page \cup {Trampoline}]
  <2>1. Leaves(t) = S \cap L
    BY DEF Leaves
  <2>2. e \in S /\ e \in L
    <3> HIDE DEF S, L
    <3> QED  BY <2>1
  <2>3. \E p \in Tables(t), i \in Index : e = table[p][i]
    BY <2>2
  <2>4. e.leaf \in {TRUE}
    <3> HIDE DEF S, L
    <3>1. e \in L
      BY <2>2
    <3> QED  BY ONLY <3>1, Zenon DEF L
  <2> QED  BY <2>3, <2>4
<1>2. p \in Page
  BY <1>1, TablesAre
<1>3. CASE own[p] = RootOf(t) \/ \E i \in Index : own[p] = DirOf(t, i)
  <2>1. EmptyOrLink(table[p][k])
    BY <1>1, <1>2, <1>3 DEF Forest, OnlyLinks
  <2> QED  BY <1>1, <2>1, LinksOnly
<1>4. ASSUME NEW i \in Index, NEW j \in Index, own[p] = LastOf(t, i, j)
      PROVE  \E n \in 1 .. 4 : mp[t][n] # NULL /\ e = Leaf(mp[t][n])
  <2>1. table[p][k] # NoPte
    <3>1. NoPte.leaf \notin {TRUE}
      BY PteFacts
    <3> QED  BY <1>1, <3>1
  <2> QED  BY <1>1, <1>2, <1>4, <2>1 DEF Maps, OnlyMapped
<1> QED  BY <1>1, <1>3, <1>4, TablesAre

(* A task gives back the page p outside a mapping. *)
LEMMA PageGivenBack ==
  ASSUME PageInv, page_bitmap \in [Page -> BOOLEAN], ~vm_panicked,
         NEW own \in [Page -> Roles], Owners(own, page_bitmap, kept, raw), WalkOK(own),
         NEW mp, TasksOK(mp), NEW t \in Spaces, MayRun(t), pc[t].at # "walk", pc'[t].at # "walk",
         NEW p \in Page, own[p] # Free, own[p] # Kept, own[p] # Raw, FreePage(p),
         TaskTyped', UNCHANGED <<walk, kept, raw>>,
         \A u \in Spaces : u # t => /\ pc'[u] = pc[u] /\ task'[u] = task[u]
                                    /\ root'[u] = root[u] /\ pages'[u] = pages[u],
         NEW o, o = [own EXCEPT ![p] = Free],
         Forest(o, table', root'), Maps(o, table', mp), HasPages(o, pages', pc'),
         TaskOK(pc'[t], task'[t], root'[t], pages'[t], mp[t])
  PROVE  UserInv' /\ [PageNext]_pagevars
<1>1. page_bitmap[p]
  BY DEF Owners
<1>2. PageInv' /\ [PageNext]_pagevars /\ page_bitmap' = [page_bitmap EXCEPT ![p] = FALSE] /\ ~vm_panicked'
  BY <1>1, FreePageSafe
<1>3. Owners(o, page_bitmap', kept', raw')
  <2>1. Free # Kept /\ Free # Raw /\ Free \in Roles
    BY OtherRoles, RolesOf
  <2> QED  BY <1>2, <2>1, OwnersHandOver
<1>4. WalkOK(o)'
  <2>1. walk = NoWalk /\ \A u \in Spaces : pc[u].at # "walk"
    BY WalkRests
  <2>2. \A u \in Spaces : pc'[u].at # "walk"
    BY <2>1
  <2> QED  BY <2>1, <2>2 DEF WalkOK
<1>5. TasksOK(mp)'
  BY TasksStep
<1>6. MemInv(o, mp)'
  BY <1>3, <1>4, <1>5 DEF MemInv
<1> QED  BY <1>2, <1>6 DEF UserInv

(* The first entry of a table is one of its entries. *)
LEMMA FirstEntryIn ==
  ASSUME NEW p, Entries(p) # {}
  PROVE  FirstEntry(p) \in Index /\ table[p][FirstEntry(p)] # NoPte
<1>1. PICK E : E = Entries(p)
  OBVIOUS
<1>2. E \subseteq Index /\ E \subseteq Nat /\ E # {} /\ \A i \in E : table[p][i] # NoPte
  BY <1>1, VmAssumption DEF Entries
<1>3. \E i \in E : \A j \in E : i <= j
  BY <1>2, LeastNatural
<1>4. FirstEntry(p) = CHOOSE i \in E : \A j \in E : i <= j
  BY <1>1 DEF FirstEntry
<1>5. FirstEntry(p) \in E
  BY <1>3, <1>4
<1> QED  BY <1>2, <1>5

(* One step of vm_space_destroy(). *)
LEMMA DestroySpaceStep ==
  ASSUME UserInv, NEW t \in Spaces, DestroySpace(t), UNCHANGED <<kept, raw>>
  PROVE  UserInv' /\ [PageNext]_pagevars
<1>1. /\ PageInv /\ page_bitmap \in [Page -> BOOLEAN] /\ ~vm_panicked /\ TaskTyped
  BY Unfold
<1>2. PICK own, mp :
        /\ Forest(own, table, root) /\ Maps(own, table, mp) /\ Owners(own, page_bitmap, kept, raw)
        /\ HasPages(own, pages, pc) /\ TasksOK(mp) /\ WalkOK(own)
        /\ own \in [Page -> Roles] /\ root \in [Spaces -> Page \cup {NULL}]
        /\ table \in [Page -> [Index -> Pte]]
        /\ TaskOK(pc[t], task[t], root[t], pages[t], mp[t])
  BY Unfold
<1>3. PICK next : next = [pc[t] EXCEPT !.at = "free", !.n = 1]
  OBVIOUS
<1>4. MayRun(t) /\ pc[t].at = "destroy" /\ UNCHANGED <<walk, task, pages, kept, raw>>
  BY DEF DestroySpace, Here
<1>5. root[t] # NULL /\ task[t] # "READY" /\ NoMaps(mp[t])
  BY <1>2, <1>4 DEF TaskOK, HasRoot
<1>6. PICK r \in Page : r = root[t] /\ own[r] = RootOf(t)
  BY <1>2, <1>5 DEF Forest, Typed, Roots
<1>7. ~DestroyBusy(t)
  <2>1. \A e : e \notin Leaves(t)
    BY <1>2, <1>5, LeavesAre DEF NoMaps
  <2> QED  BY <2>1 DEF DestroyBusy
<1>8. FreeTables(t) /\ IF Entries(r) = {} THEN pc' = [pc EXCEPT ![t] = next] ELSE pc' = pc
  BY <1>3, <1>6, <1>7 DEF DestroySpace, Goto
<1>9. CASE Entries(r) = {}
  <2>1. FreePage(r) /\ root' = [root EXCEPT ![t] = NULL] /\ table' = table /\ pc' = [pc EXCEPT ![t] = next]
    BY <1>6, <1>8, <1>9 DEF FreeTables
  <2>2. \A j \in Index : table[r][j] = NoPte
    BY <1>9 DEF Entries
  <2>3. next \in PcType /\ next.at = "free" /\ next.n = 1
    <3>1. PICK c \in PcType : c = pc[t]
      BY <1>1 DEF TaskTyped
    <3>2. next = [at |-> "free", n |-> 1, exiting |-> c.exiting] /\ c.exiting \in BOOLEAN
      BY <1>3, <3>1 DEF PcType
    <3> QED  BY <3>2 DEF PcType, Places
  <2>4. /\ pc' \in [Spaces -> PcType] /\ pc'[t] = next
        /\ \A u \in Spaces : u # t => pc'[u] = pc[u]
    BY <1>1, <2>1, <2>3 DEF TaskTyped
  <2>5. root'[t] = NULL /\ \A u \in Spaces : u # t => root'[u] = root[u]
    BY <1>2, <2>1
  <2>6. TaskTyped'
    BY <1>1, <1>4, <2>4 DEF TaskTyped
  <2>7. PICK o : o = [own EXCEPT ![r] = Free]
    OBVIOUS
  <2>8. o[r] = Free /\ \A q \in Page : q # r => o[q] = own[q]
    BY <1>2, <2>7
  <2>9. Forest(o, table', root')
    <3>1. Forest(o, table, [root EXCEPT ![t] = NULL])
      BY <1>2, <1>6, <2>2, <2>7, ForestDropRoot
    <3> QED  BY <2>1, <3>1
  <2>10. Maps(o, table', mp)
    <3>1. \A q \in Page, u \in Spaces, i, j \in Index : o[q] = LastOf(u, i, j) => own[q] = o[q]
      BY <2>8, NoTableRoles DEF NoTable
    <3>2. \A q \in Page, u \in Spaces, i, j \in Index : own[q] = LastOf(u, i, j) => own[q] = o[q]
      BY <1>6, <2>8, TableRoles
    <3>3. Maps(o, table, mp)
      BY <1>2, <3>1, <3>2, MapsFrame
    <3> QED  BY <2>1, <3>3
  <2>11. HasPages(o, pages', pc')
    <3>1. \A u \in Spaces, m \in 1 .. 3 : Live(pc'[u], m) <=> Live(pc[u], m)
      BY <1>4, <2>3, <2>4 DEF Live
    <3> QED  BY <1>2, <1>4, <1>6, <2>8, <3>1, OtherRoles DEF HasPages
  <2>12. TaskOK(pc'[t], task'[t], root'[t], pages'[t], mp[t])
    <3>1. TaskOK(next, task[t], NULL, pages[t], mp[t])
      BY <1>5, <2>3 DEF TaskOK, HasRoot
    <3> QED  BY <1>4, <2>4, <2>5, <3>1
  <2>13. own[r] # Free /\ own[r] # Kept /\ own[r] # Raw
    BY <1>6, OtherRoles
  <2>14. \A u \in Spaces : u # t => /\ pc'[u] = pc[u] /\ task'[u] = task[u] /\ root'[u] = root[u] /\ pages'[u] = pages[u]
    BY <1>4, <2>4, <2>5
  <2>15. pc[t].at # "walk" /\ pc'[t].at # "walk"
    BY <1>4, <2>3, <2>4
  <2> QED  BY <1>1, <1>2, <1>4, <2>1, <2>6, <2>7, <2>9, <2>10, <2>11, <2>12, <2>13, <2>14, <2>15, PageGivenBack
<1>10. ASSUME NEW p \in Page, FreePage(p), pc' = pc, root' = root, NEW b, b = table', NEW o, o = [own EXCEPT ![p] = Free],
              Forest(o, b, root), NEW i \in Index, NEW j \in Index,
              \/ own[p] = DirOf(t, i)
              \/ own[p] = LastOf(t, i, j) /\ \A k \in Index : table[p][k] = NoPte,
              \A q \in Page : own[q] # RootOf(t) /\ own[q] # DirOf(t, i) => b[q] = table[q]
       PROVE  UserInv' /\ [PageNext]_pagevars
  <2>1. o[p] = Free /\ \A q \in Page : q # p => o[q] = own[q]
    BY <1>2, <1>10
  <2>2. own[p] # Free /\ own[p] # Kept /\ own[p] # Raw /\ \A u \in Spaces, m \in 1 .. 3 : own[p] # PageOf(u, m)
    BY <1>10, OtherRoles
  <2>3. Maps(o, b, mp)
    <3>1. \A q \in Page, u \in Spaces, k, m \in Index : o[q] = LastOf(u, k, m) => own[q] = o[q] /\ b[q] = table[q]
      BY <1>10, <2>1, NoTableRoles, TableRoles DEF NoTable
    <3>2. \A q \in Page, u \in Spaces, k, m \in Index : own[q] = LastOf(u, k, m) =>
            (own[q] = o[q] /\ b[q] = table[q]) \/ \A x \in Index : table[q][x] = NoPte
      BY <1>10, <2>1, TableRoles
    <3>3. /\ \A q \in Page, u \in Spaces, k, m \in Index : o[q] = LastOf(u, k, m) =>
               (own[q] = o[q] /\ b[q] = table[q]) \/ \A x \in Index : b[q][x] = NoPte
          /\ Maps(own, table, mp)
      BY <1>2, <3>1
    <3> QED  BY ONLY <3>2, <3>3, MapsFrame
  <2>4. HasPages(o, pages', pc')
    <3>1. HasPages(o, pages, pc)
      BY <1>2, <2>1, <2>2, OtherRoles DEF HasPages
    <3> QED  BY <1>4, <1>10, <3>1
  <2>5. TaskTyped'
    BY <1>1, <1>4, <1>10 DEF TaskTyped
  <2>6. Forest(o, table', root') /\ Maps(o, table', mp)
    BY <1>10, <2>3
  <2>7. TaskOK(pc'[t], task'[t], root'[t], pages'[t], mp[t])
    BY <1>2, <1>4, <1>10
  <2>8. \A u \in Spaces : u # t => /\ pc'[u] = pc[u] /\ task'[u] = task[u] /\ root'[u] = root[u] /\ pages'[u] = pages[u]
    BY <1>4, <1>10
  <2>9. pc[t].at # "walk" /\ pc'[t].at # "walk"
    BY <1>4, <1>10
  <2> QED  BY <1>1, <1>2, <1>4, <1>10, <2>2, <2>4, <2>5, <2>6, <2>7, <2>8, <2>9, PageGivenBack
<1>11. CASE Entries(r) # {}
  <2>1. PICK i \in Index : i = FirstEntry(r) /\ table[r][i] # NoPte
    BY <1>11, FirstEntryIn
  <2>2. PICK d \in Page : table[r][i] = Link(d) /\ own[d] = DirOf(t, i)
    <3>1. EmptyOrLink(table[r][i])
      BY <1>2, <1>6 DEF Forest, OnlyLinks
    <3>2. PICK d \in Page : table[r][i] = Link(d)
      BY <2>1, <3>1 DEF EmptyOrLink
    <3> QED  BY <1>2, <1>6, <3>2 DEF Forest, RootLinks
  <2>3. FreeTable(IF Entries(d) = {} THEN r ELSE d) /\ pc' = pc
    <3>1. table[r][i].pa = d
      BY <2>2, PteFacts
    <3> QED  BY <1>6, <1>8, <1>11, <2>1, <3>1 DEF FreeTables
  <2>4. PICK b : b = table'
    OBVIOUS
  <2>5. CASE Entries(d) = {}
    <3>1. FreePage(d) /\ table' = [table EXCEPT ![r][i] = NoPte] /\ root' = root
      <4>1. FreeTable(r)
        BY <2>3, <2>5
      <4> QED  BY <2>1, <2>2, <4>1, PteFacts DEF FreeTable
    <3>2. \A k \in Index : table[d][k] = NoPte
      BY <2>5 DEF Entries
    <3>3. EntrySet(table, b, r, i, NoPte) /\ \A q \in Page : q # r => b[q] = table[q]
      BY <1>2, <2>4, <3>1, ClearEntry
    <3>4. PICK o : o = [own EXCEPT ![d] = Free]
      OBVIOUS
    <3>5. Forest(o, b, root)
      <4>1. /\ Forest(own, table, root) /\ own[r] = RootOf(t) /\ table[r][i] = Link(d)
            /\ \A k \in Index : table[d][k] = NoPte
            /\ EntrySet(table, b, r, i, NoPte) /\ \A q \in Page : q # r => b[q] = table[q]
        BY <1>2, <1>6, <2>2, <3>2, <3>3
      <4>2. Forest([own EXCEPT ![d] = Free], b, root)
        BY ONLY <4>1, ForestDropDir, r \in Page, d \in Page, i \in Index, t \in Spaces
      <4> QED  BY <3>4, <4>2
    <3>6. \A q \in Page : own[q] # RootOf(t) /\ own[q] # DirOf(t, i) => b[q] = table[q]
      BY <1>6, <3>3
    <3>7. own[d] = DirOf(t, i) \/ (own[d] = LastOf(t, i, i) /\ \A k \in Index : table[d][k] = NoPte)
      BY <2>2
    <3>8. FreePage(d) /\ pc' = pc /\ root' = root
      BY <2>3, <3>1
    <3> QED  BY ONLY <1>10, <2>4, <3>4, <3>5, <3>6, <3>7, <3>8, d \in Page, i \in Index, Zenon
  <2>6. CASE Entries(d) # {}
    <3>1. PICK j \in Index : j = FirstEntry(d) /\ table[d][j] # NoPte
      BY <2>6, FirstEntryIn
    <3>2. PICK l \in Page : table[d][j] = Link(l) /\ own[l] = LastOf(t, i, j)
      <4>1. EmptyOrLink(table[d][j])
        BY <1>2, <2>2 DEF Forest, OnlyLinks
      <4>2. PICK l \in Page : table[d][j] = Link(l)
        BY <3>1, <4>1 DEF EmptyOrLink
      <4> QED  BY <1>2, <2>2, <4>2 DEF Forest, DirLinks
    <3>3. FreePage(l) /\ table' = [table EXCEPT ![d][j] = NoPte] /\ root' = root
      <4>1. FreeTable(d)
        BY <2>3, <2>6
      <4> QED  BY <3>1, <3>2, <4>1, PteFacts DEF FreeTable
    <3>4. \A k \in Index : table[l][k] = NoPte
      BY <1>2, <1>5, <3>2 DEF Maps, OnlyMapped, NoMaps
    <3>5. EntrySet(table, b, d, j, NoPte) /\ \A q \in Page : q # d => b[q] = table[q]
      BY <1>2, <2>4, <3>3, ClearEntry
    <3>6. PICK o : o = [own EXCEPT ![l] = Free]
      OBVIOUS
    <3>7. Forest(o, b, root)
      <4>1. /\ Forest(own, table, root) /\ own[d] = DirOf(t, i) /\ table[d][j] = Link(l)
            /\ EntrySet(table, b, d, j, NoPte) /\ \A q \in Page : q # d => b[q] = table[q]
        BY <1>2, <2>2, <3>2, <3>5
      <4>2. Forest([own EXCEPT ![l] = Free], b, root)
        BY ONLY <4>1, ForestDropLast, d \in Page, l \in Page, i \in Index, j \in Index, t \in Spaces
      <4> QED  BY <3>6, <4>2
    <3>8. \A q \in Page : own[q] # RootOf(t) /\ own[q] # DirOf(t, i) => b[q] = table[q]
      BY <2>2, <3>5
    <3>9. own[l] = DirOf(t, i) \/ (own[l] = LastOf(t, i, j) /\ \A k \in Index : table[l][k] = NoPte)
      BY <3>2, <3>4
    <3>10. FreePage(l) /\ pc' = pc /\ root' = root
      BY <2>3, <3>3
    <3> QED  BY ONLY <1>10, <2>4, <3>6, <3>7, <3>8, <3>9, <3>10, l \in Page, i \in Index, j \in Index
  <2> QED  BY <2>5, <2>6
<1> QED  BY <1>9, <1>11

(* One of the three frees; behind the last one the task is as before its    *)
(* initialisation.                                                          *)
LEMMA FreeTaskPageStep ==
  ASSUME UserInv, NEW t \in Spaces, FreeTaskPage(t), UNCHANGED <<kept, raw>>
  PROVE  UserInv' /\ [PageNext]_pagevars
<1>1. /\ PageInv /\ page_bitmap \in [Page -> BOOLEAN] /\ ~vm_panicked /\ TaskTyped
  BY Unfold
<1>2. PICK own, mp :
        /\ Forest(own, table, root) /\ Maps(own, table, mp) /\ Owners(own, page_bitmap, kept, raw)
        /\ HasPages(own, pages, pc) /\ TasksOK(mp) /\ WalkOK(own)
        /\ own \in [Page -> Roles] /\ root \in [Spaces -> Page \cup {NULL}]
        /\ TaskOK(pc[t], task[t], root[t], pages[t], mp[t])
  BY Unfold
<1>3. PICK n, p, gone :
        n = pc[t].n /\ p = pages[t][n] /\ gone = IF pc[t].exiting THEN "DESTROYED" ELSE "UNUSED"
  OBVIOUS
<1>4. /\ MayRun(t) /\ pc[t].at = "free"
      /\ IF p = NULL THEN UNCHANGED <<pagevars, vm_panicked>> ELSE FreePage(p)
      /\ IF n < 3 THEN pc' = [pc EXCEPT ![t] = [pc[t] EXCEPT !.n = n + 1]] /\ UNCHANGED <<task, pages, root>>
         ELSE /\ pc' = [pc EXCEPT ![t] = Idle] /\ task' = [task EXCEPT ![t] = gone]
              /\ pages' = [pages EXCEPT ![t] = NoPages] /\ root' = [root EXCEPT ![t] = NULL]
      /\ UNCHANGED <<table, walk, kept, raw>>
  BY <1>3 DEF FreeTaskPage, Here, Goto
<1>5. root[t] = NULL /\ task[t] # "READY" /\ NoMaps(mp[t]) /\ n \in 1 .. 3
  BY <1>2, <1>3, <1>4 DEF TaskOK, HasRoot
<1>6. root' = root
  BY <1>2, <1>4, <1>5
<1>7. pages[t] \in [1 .. 3 -> Page \cup {NULL}] /\ p \in Page \cup {NULL}
  BY <1>1, <1>3, <1>5 DEF TaskTyped
<1>8. /\ TaskTyped' /\ pc'[t].at # "walk"
      /\ \A u \in Spaces : u # t => /\ pc'[u] = pc[u] /\ task'[u] = task[u] /\ pages'[u] = pages[u]
      /\ TaskOK(pc'[t], task'[t], root'[t], pages'[t], mp[t])
      /\ \A m \in 1 .. 3, q \in Page : pages'[t][m] = q /\ Live(pc'[t], m) <=> pages[t][m] = q /\ Live(pc[t], m) /\ m # n
  <2>1. CASE n < 3
    <3>1. PICK c \in PcType : c = pc[t] /\ c.at = "free"
      BY <1>1, <1>4 DEF TaskTyped
    <3>2. PICK next : next = [c EXCEPT !.n = n + 1]
      OBVIOUS
    <3>3. next \in PcType /\ next.at = "free" /\ next.n = n + 1 /\ n + 1 \in 1 .. 3
      <4>1. n + 1 \in 0 .. 4 /\ n + 1 \in 1 .. 3
        BY <1>5, <2>1
      <4> QED  BY <3>1, <3>2, <4>1 DEF PcType
    <3>4. pc' = [pc EXCEPT ![t] = next] /\ UNCHANGED <<task, pages>>
      BY <1>4, <2>1, <3>1, <3>2
    <3>5. pc' \in [Spaces -> PcType] /\ pc'[t] = next /\ \A u \in Spaces : u # t => pc'[u] = pc[u]
      BY <1>1, <3>3, <3>4 DEF TaskTyped
    <3>6. TaskTyped'
      BY <1>1, <1>4, <3>4, <3>5 DEF TaskTyped
    <3>7. TaskOK(next, task[t], root[t], pages[t], mp[t])
      BY <1>5, <3>3 DEF TaskOK, HasRoot
    <3>8. \A m \in 1 .. 3 : Live(next, m) <=> Live(pc[t], m) /\ m # n
      BY <1>3, <1>4, <1>5, <3>3 DEF Live
    <3> QED  BY <1>6, <3>3, <3>4, <3>5, <3>6, <3>7, <3>8
  <2>2. CASE n = 3
    <3>1. /\ pc' = [pc EXCEPT ![t] = Idle] /\ task' = [task EXCEPT ![t] = gone]
          /\ pages' = [pages EXCEPT ![t] = NoPages]
      BY <1>4, <2>2
    <3>2. Idle \in PcType /\ Idle.at = "idle"
      BY DEF Idle, At, PcType, Places
    <3>3. NoPages \in [1 .. 3 -> Page \cup {NULL}] /\ \A m \in 1 .. 3 : NoPages[m] = NULL
      BY DEF NoPages
    <3>4. gone \in {"UNUSED", "DESTROYED"}
      BY <1>3
    <3>5. /\ pc' \in [Spaces -> PcType] /\ pc'[t] = Idle /\ \A u \in Spaces : u # t => pc'[u] = pc[u]
      BY <1>1, <3>1, <3>2 DEF TaskTyped
    <3>6. /\ task' \in [Spaces -> {"UNUSED", "READY", "EXITED", "DESTROYED"}] /\ task'[t] = gone
          /\ \A u \in Spaces : u # t => task'[u] = task[u]
      BY <1>1, <3>1, <3>4 DEF TaskTyped
    <3>7. /\ pages' \in [Spaces -> [1 .. 3 -> Page \cup {NULL}]] /\ pages'[t] = NoPages
          /\ \A u \in Spaces : u # t => pages'[u] = pages[u]
      BY <1>1, <3>1, <3>3 DEF TaskTyped
    <3>8. TaskTyped'
      BY <1>1, <1>4, <3>5, <3>6, <3>7 DEF TaskTyped
    <3>9. TaskOK(Idle, gone, root[t], NoPages, mp[t])
      BY <1>5, <3>2, <3>4 DEF TaskOK, HasRoot
    <3>10. \A m \in 1 .. 3 : Live(pc[t], m) => m = n
      BY <1>3, <1>4, <2>2 DEF Live
    <3>11. \A m \in 1 .. 3, q \in Page : pages'[t][m] # q
      BY <3>3, <3>7, NullFacts
    <3> QED  BY <1>6, <3>2, <3>5, <3>6, <3>7, <3>8, <3>9, <3>10, <3>11
  <2> QED  BY <1>5, <2>1, <2>2
<1>9. \A u \in Spaces : u # t => /\ pc'[u] = pc[u] /\ task'[u] = task[u] /\ root'[u] = root[u] /\ pages'[u] = pages[u]
  BY <1>6, <1>8
<1>10. CASE p = NULL
  <2>1. PageInv' /\ [PageNext]_pagevars /\ page_bitmap' = page_bitmap /\ vm_panicked' = vm_panicked
    BY <1>1, <1>4, <1>10, PagesUnchanged
  <2>2. HasPages(own, pages', pc')
    <3>1. ASSUME NEW u \in Spaces, NEW m \in 1 .. 3, NEW q \in Page
          PROVE  pages[u][m] = q /\ Live(pc[u], m) <=> pages'[u][m] = q /\ Live(pc'[u], m)
      <4>1. CASE u = t
        <5>1. m = n => pages[t][m] # q
          BY <1>3, <1>10, NullFacts
        <5> QED  BY <1>8, <4>1, <5>1
      <4>2. CASE u # t
        BY <1>8, <4>2
      <4> QED  BY <4>1, <4>2
    <3> QED  BY <1>2, <3>1 DEF HasPages
  <2>3. WalkOK(own)'
    <3>1. walk = NoWalk /\ \A u \in Spaces : pc[u].at # "walk"
      BY <1>2, <1>4, WalkRests
    <3>2. \A u \in Spaces : pc'[u].at # "walk"
      BY <1>8, <3>1
    <3> QED  BY <1>4, <3>1, <3>2 DEF WalkOK
  <2>4. TasksOK(mp)'
    BY <1>2, <1>8, <1>9, TasksStep
  <2>5. Forest(own, table', root') /\ Maps(own, table', mp) /\ Owners(own, page_bitmap', kept', raw')
    BY <1>2, <1>4, <1>6, <2>1
  <2>6. MemInv(own, mp)'
    BY <2>2, <2>3, <2>4, <2>5 DEF MemInv
  <2> QED  BY <1>1, <1>8, <2>1, <2>6 DEF UserInv
<1>11. CASE p # NULL
  <2>1. p \in Page /\ FreePage(p)
    BY <1>4, <1>7, <1>11
  <2>2. own[p] = PageOf(t, n)
    BY <1>2, <1>3, <1>4, <1>5, <2>1 DEF HasPages, Live
  <2>3. own[p] # Free /\ own[p] # Kept /\ own[p] # Raw
    BY <1>5, <2>2, OtherRoles
  <2>4. PICK o : o = [own EXCEPT ![p] = Free]
    OBVIOUS
  <2>5. o[p] = Free /\ \A q \in Page : q # p => o[q] = own[q]
    BY <1>2, <2>1, <2>4
  <2>6. Forest(o, table', root')
    <3>1. NoTable(own[p]) /\ NoTable(Free) /\ Free \in Roles
      BY <1>5, <2>2, NoTableRoles, RolesOf
    <3>2. Forest(o, table, root)
      BY <1>2, <2>1, <2>4, <3>1, ForestHandOver
    <3> QED  BY <1>4, <1>6, <3>2
  <2>7. Maps(o, table', mp)
    <3>1. NoTable(own[p]) /\ NoTable(Free)
      BY <1>5, <2>2, NoTableRoles
    <3>2. \A q \in Page, u \in Spaces, i, j \in Index : o[q] = LastOf(u, i, j) => own[q] = o[q]
      BY <2>5, <3>1 DEF NoTable
    <3>3. \A q \in Page, u \in Spaces, i, j \in Index : own[q] = LastOf(u, i, j) => own[q] = o[q]
      BY <2>5, <3>1 DEF NoTable
    <3>4. Maps(o, table, mp)
      BY <1>2, <3>2, <3>3, MapsFrame
    <3> QED  BY <1>4, <3>4
  <2>8. HasPages(o, pages', pc')
    <3>1. ASSUME NEW u \in Spaces, NEW m \in 1 .. 3, NEW q \in Page
          PROVE  o[q] = PageOf(u, m) <=> pages'[u][m] = q /\ Live(pc'[u], m)
      <4>1. own[q] = PageOf(u, m) <=> pages[u][m] = q /\ Live(pc[u], m)
        BY <1>2 DEF HasPages
      <4>2. o[q] = PageOf(u, m) <=> own[q] = PageOf(u, m) /\ q # p
        BY <2>5, OtherRoles
      <4>3. CASE u = t
        BY <1>3, <1>5, <1>8, <2>1, <2>2, <4>1, <4>2, <4>3, OtherRoles
      <4>4. CASE u # t
        BY <1>5, <1>8, <2>2, <4>1, <4>2, <4>4, OtherRoles
      <4> QED  BY <4>3, <4>4
    <3> QED  BY <3>1 DEF HasPages
  <2>9. pc[t].at # "walk"
    BY <1>4
  <2> QED  BY <1>1, <1>2, <1>4, <1>8, <1>9, <2>1, <2>3, <2>4, <2>6, <2>7, <2>8, <2>9, PageGivenBack
<1> QED  BY <1>10, <1>11

(* Other code takes or gives back the page p while no task is in a mapping. *)
LEMMA OtherCode ==
  ASSUME TaskTyped, ~vm_panicked, PageInv', UNCHANGED vmvars, UNCHANGED taskvars, masked = NULL,
         NEW own \in [Page -> Roles], NEW mp, Forest(own, table, root), Maps(own, table, mp),
         HasPages(own, pages, pc), TasksOK(mp), WalkOK(own),
         NEW p \in Page, NEW r, own[p] \in {Free, Kept, Raw}, r \in {Free, Kept, Raw},
         Owners([own EXCEPT ![p] = r], page_bitmap', kept', raw')
  PROVE  UserInv'
<1>1. PICK o : o = [own EXCEPT ![p] = r]
  OBVIOUS
<1>2. o[p] = r /\ \A q \in Page : q # p => o[q] = own[q]
  BY <1>1
<1>3. NoTable(own[p]) /\ NoTable(r) /\ r \in Roles
  BY NoTableRoles, RolesOf
<1>4. /\ UNCHANGED <<table, root, walk, masked, vm_panicked, task, pages, pc>>
  BY DEF vmvars, taskvars
<1>5. Forest(o, table, root)
  BY <1>1, <1>3, ForestHandOver
<1>6. Maps(o, table, mp)
  <2>1. \A q \in Page, u \in Spaces, i, j \in Index : o[q] = LastOf(u, i, j) => own[q] = o[q]
    BY <1>2, <1>3 DEF NoTable
  <2>2. \A q \in Page, u \in Spaces, i, j \in Index : own[q] = LastOf(u, i, j) => own[q] = o[q]
    BY <1>2, <1>3 DEF NoTable
  <2> QED  BY <2>1, <2>2, MapsFrame
<1>7. HasPages(o, pages, pc)
  BY <1>2, OtherRoles DEF HasPages
<1>8. WalkOK(o)'
  <2>1. \A u \in Spaces : pc[u].at # "walk"
    BY VmAssumption DEF WalkOK
  <2>2. walk = NoWalk
    BY <2>1 DEF WalkOK
  <2> QED  BY <1>4, <2>1, <2>2 DEF WalkOK
<1>9. TasksOK(mp)' /\ TaskTyped'
  BY <1>4 DEF TasksOK, TaskTyped
<1>10. Forest(o, table', root') /\ Maps(o, table', mp) /\ Owners(o, page_bitmap', kept', raw') /\ HasPages(o, pages', pc')
  BY <1>1, <1>4, <1>5, <1>6, <1>7
<1>11. MemInv(o, mp)'
  BY <1>8, <1>9, <1>10 DEF MemInv
<1> QED  BY <1>4, <1>9, <1>11 DEF UserInv

(* Other code takes a page, for good or for a while. *)
LEMMA TakeStep ==
  ASSUME UserInv, KeepPage \/ TakeRaw
  PROVE  UserInv' /\ [PageNext]_pagevars
<1>1. /\ PageInv /\ page_bitmap \in [Page -> BOOLEAN] /\ ~vm_panicked /\ TaskTyped
  BY Unfold
<1>2. PICK own, mp :
        /\ Forest(own, table, root) /\ Maps(own, table, mp) /\ Owners(own, page_bitmap, kept, raw)
        /\ HasPages(own, pages, pc) /\ TasksOK(mp) /\ WalkOK(own)
        /\ own \in [Page -> Roles]
  BY Unfold
<1>3. page_alloc /\ page_result' # NULL /\ masked = NULL /\ UNCHANGED vmvars /\ UNCHANGED taskvars
  BY DEF KeepPage, TakeRaw
<1>4. PageInv' /\ [PageNext]_pagevars
  BY <1>1, <1>3, AllocGives
<1>5. PICK p \in Page : page_result' = p /\ ~page_bitmap[p] /\ page_bitmap' = [page_bitmap EXCEPT ![p] = TRUE]
  BY <1>1, <1>3, AllocGives
<1>6. own[p] = Free
  BY <1>2, <1>5 DEF Owners
<1>7. page_bitmap'[p] /\ \A q \in Page : q # p => (page_bitmap'[q] <=> page_bitmap[q])
  BY <1>1, <1>5
<1>8. CASE KeepPage
  <2>1. kept' = kept \cup {p} /\ raw' = raw
    BY <1>5, <1>8 DEF KeepPage
  <2>2. Owners([own EXCEPT ![p] = Kept], page_bitmap', kept', raw')
    BY <1>2, <1>6, <1>7, <2>1, OtherRoles DEF Owners
  <2> QED  BY <1>1, <1>2, <1>3, <1>4, <1>6, <2>2, OtherCode
<1>9. CASE TakeRaw
  <2>1. raw' = raw \cup {p} /\ kept' = kept
    BY <1>5, <1>9 DEF TakeRaw
  <2>2. Owners([own EXCEPT ![p] = Raw], page_bitmap', kept', raw')
    BY <1>2, <1>6, <1>7, <2>1, OtherRoles DEF Owners
  <2> QED  BY <1>1, <1>2, <1>3, <1>4, <1>6, <2>2, OtherCode
<1> QED  BY <1>8, <1>9

(* The accelerator system call gives a page back. *)
LEMMA FreeRawStep ==
  ASSUME UserInv, NEW p \in raw, FreeRaw(p)
  PROVE  UserInv' /\ [PageNext]_pagevars
<1>1. /\ PageInv /\ page_bitmap \in [Page -> BOOLEAN] /\ ~vm_panicked /\ TaskTyped
  BY Unfold
<1>2. PICK own, mp :
        /\ Forest(own, table, root) /\ Maps(own, table, mp) /\ Owners(own, page_bitmap, kept, raw)
        /\ HasPages(own, pages, pc) /\ TasksOK(mp) /\ WalkOK(own)
        /\ own \in [Page -> Roles]
  BY Unfold
<1>3. page_free(p) /\ masked = NULL /\ raw' = raw \ {p} /\ kept' = kept /\ UNCHANGED vmvars /\ UNCHANGED taskvars
  BY DEF FreeRaw
<1>4. p \in Page /\ own[p] = Raw
  BY <1>2 DEF Owners
<1>5. PageInv' /\ [PageNext]_pagevars /\ page_bitmap' = [page_bitmap EXCEPT ![p] = FALSE]
  BY <1>1, <1>3, <1>4, FreeTakesBack
<1>6. ~page_bitmap'[p] /\ \A q \in Page : q # p => (page_bitmap'[q] <=> page_bitmap[q])
  BY <1>1, <1>4, <1>5
<1>7. Owners([own EXCEPT ![p] = Free], page_bitmap', kept', raw')
  BY <1>2, <1>3, <1>4, <1>6, OtherRoles DEF Owners
<1> QED  BY <1>1, <1>2, <1>3, <1>4, <1>5, <1>7, OtherCode

(* Every step keeps the invariant, and is a step of the allocator or leaves *)
(* it alone.                                                                *)
LEMMA UserStepInv == UserInv /\ [UserNext]_uvars => UserInv' /\ [PageNext]_pagevars
<1> SUFFICES ASSUME UserInv, [UserNext]_uvars PROVE UserInv' /\ [PageNext]_pagevars
  OBVIOUS
<1>1. CASE UNCHANGED uvars
  <2>1. UNCHANGED <<pagevars, vmvars, taskvars, kept, raw>>
    BY <1>1 DEF uvars
  <2>2. PageInv' /\ [PageNext]_pagevars
    BY <2>1, PagesUnchanged DEF UserInv
  <2>3. UNCHANGED <<page_bitmap, table, root, walk, masked, vm_panicked, task, pages, pc, kept, raw>>
    BY <2>1 DEF pagevars, vmvars, taskvars
  <2>4. PICK own, mp : MemInv(own, mp)
    BY DEF UserInv
  <2>5. MemInv(own, mp)'
    BY <2>3, <2>4 DEF MemInv, TasksOK, WalkOK
  <2>6. TaskTyped' /\ ~vm_panicked'
    BY <2>3 DEF UserInv, TaskTyped
  <2> QED  BY <2>2, <2>5, <2>6 DEF UserInv
<1>2. ASSUME NEW t \in Spaces, TaskStep(t), UNCHANGED <<kept, raw>> PROVE UserInv' /\ [PageNext]_pagevars
  <2>1. CASE user_task_init(t)
    BY <1>2, <2>1, InitStep
  <2>2. CASE AllocPage(t)
    BY <1>2, <2>2, AllocStep
  <2>3. CASE MapBegin(t)
    BY <1>2, <2>3, MapBeginStep
  <2>4. CASE MapStep(t)
    BY <1>2, <2>4, WalkDownStep, RollbackStep DEF MapStep
  <2>5. CASE MapReturns(t)
    BY <1>2, <2>5, MapReturnsStep
  <2>6. CASE user_task_destroy(t)
    BY <1>2, <2>6, DestroyBeginStep
  <2>7. CASE Unmap(t)
    BY <1>2, <2>7, UnmapStep
  <2>8. CASE DestroySpace(t)
    BY <1>2, <2>8, DestroySpaceStep
  <2>9. CASE FreeTaskPage(t)
    BY <1>2, <2>9, FreeTaskPageStep
  <2> QED  BY <1>2, <2>1, <2>2, <2>3, <2>4, <2>5, <2>6, <2>7, <2>8, <2>9 DEF TaskStep
<1>3. CASE KeepPage \/ TakeRaw
  BY <1>3, TakeStep
<1>4. ASSUME NEW p \in raw, FreeRaw(p) PROVE UserInv' /\ [PageNext]_pagevars
  BY <1>4, FreeRawStep
<1> QED  BY <1>1, <1>2, <1>3, <1>4 DEF UserNext

(* The invariant holds in every reachable state. *)
LEMMA UserInvariant == UserSpec => []UserInv
<1>1. UserInv /\ [UserNext]_uvars => UserInv'
  BY UserStepInv
<1> QED  BY <1>1, UserInitInv, PTL DEF UserSpec

-----------------------------------------------------------------------------
(* What the invariant says of the properties. *)

(* The pages a task has besides its tables are the ones it owns as pages. *)
LEMMA TaskPagesAre ==
  ASSUME TaskTyped, NEW own, HasPages(own, pages, pc), NEW t \in Spaces, NEW p
  PROVE  p \in TaskPages(t) <=> p \in Page /\ \E n \in 1 .. 3 : own[p] = PageOf(t, n)
<1>1. p \in TaskPages(t) <=> p # NULL /\ \E n \in 1 .. 3 : Live(pc[t], n) /\ p = pages[t][n]
  BY DEF TaskPages, Live
<1>2. \A n \in 1 .. 3 : pages[t][n] \in Page \cup {NULL}
  BY DEF TaskTyped
<1>3. \A n \in 1 .. 3, q \in Page : own[q] = PageOf(t, n) <=> pages[t][n] = q /\ Live(pc[t], n)
  BY DEF HasPages
<1>4. ASSUME p # NULL, NEW n \in 1 .. 3, Live(pc[t], n), p = pages[t][n]
      PROVE  p \in Page /\ own[p] = PageOf(t, n)
  BY <1>2, <1>3, <1>4
<1>5. ASSUME p \in Page, NEW n \in 1 .. 3, own[p] = PageOf(t, n)
      PROVE  p # NULL /\ Live(pc[t], n) /\ p = pages[t][n]
  BY <1>3, <1>5, NullFacts
<1> QED  BY <1>1, <1>4, <1>5

(* A task owns p as a table, or as one of its pages. *)
TableOwned(own, t, p) ==
  \/ own[p] = RootOf(t)
  \/ \E i \in Index : own[p] = DirOf(t, i)
  \/ \E i, j \in Index : own[p] = LastOf(t, i, j)
PageOwned(own, t, p) == \E n \in 1 .. 3 : own[p] = PageOf(t, n)

(* Every role is a task's or one of the three others. *)
LEMMA OwnedOnce ==
  ASSUME NEW own, NEW p
  PROVE  /\ \A t \in Spaces : TableOwned(own, t, p) => own[p].kind \in {"root", "dir", "last"} /\ own[p].task = t
         /\ \A t \in Spaces : PageOwned(own, t, p) => own[p].kind = "page" /\ own[p].task = t
         /\ Free.kind = "free" /\ Kept.kind = "kept" /\ Raw.kind = "raw"
BY RoleFields DEF TableOwned, PageOwned, RootOf, DirOf, LastOf, PageOf, Free, Kept, Raw

(* The allocated pages are those that somebody has, each in one role. *)
LEMMA AllAccounted ==
  ASSUME TaskTyped, NEW own \in [Page -> Roles], Forest(own, table, root), Owners(own, page_bitmap, kept, raw),
         HasPages(own, pages, pc)
  PROVE  PagesAccounted
<1>1. ASSUME NEW t \in Spaces, NEW p
      PROVE  /\ p \in Tables(t) <=> p \in Page /\ TableOwned(own, t, p)
             /\ p \in TaskPages(t) <=> p \in Page /\ PageOwned(own, t, p)
  BY TablesAre, TaskPagesAre DEF TableOwned, PageOwned
<1>2. ASSUME NEW t \in Spaces, NEW p
      PROVE  p \in Has(t) <=> p \in Page /\ (TableOwned(own, t, p) \/ PageOwned(own, t, p))
  BY <1>1 DEF Has
<1>3. \A p : p \in UNION {Has(t) : t \in Spaces} <=> \E t \in Spaces : p \in Page /\ (TableOwned(own, t, p) \/ PageOwned(own, t, p))
  BY <1>2
<1>4. \A p : p \in kept \cup raw <=> p \in Page /\ (own[p] = Kept \/ own[p] = Raw)
  BY DEF Owners
<1>5. Taken = kept \cup raw \cup UNION {Has(t) : t \in Spaces}
  <2>1. ASSUME NEW p \in Page
        PROVE  own[p] # Free <=> \/ own[p] = Kept \/ own[p] = Raw
                                 \/ \E t \in Spaces : TableOwned(own, t, p) \/ PageOwned(own, t, p)
    <3>1. own[p] \in {Free, Kept, Raw} \/ \E t \in Spaces : TableOwned(own, t, p) \/ PageOwned(own, t, p)
      BY DEF Roles, TableRole, PageRole, TableOwned, PageOwned
    <3> QED  BY <3>1, OwnedOnce, OtherRoles
  <2>2. \A p : p \in Taken <=> p \in Page /\ own[p] # Free
    BY DEF Taken, Owners
  <2> QED  BY <1>3, <1>4, <2>1, <2>2
<1>6. kept \cap raw = {}
  BY OtherRoles DEF Owners
<1>7. ASSUME NEW t \in Spaces
      PROVE  /\ Tables(t) \cap TaskPages(t) = {}
             /\ Has(t) \cap (kept \cup raw \cup UNION {Has(u) : u \in Spaces \ {t}}) = {}
  <2>1. \A p : ~(p \in Tables(t) /\ p \in TaskPages(t))
    BY <1>1, OwnedOnce
  <2>2. \A p \in Has(t) : p \notin kept \cup raw
    BY <1>2, <1>4, OwnedOnce
  <2>3. \A p \in Has(t), u \in Spaces \ {t} : p \notin Has(u)
    BY <1>2, OwnedOnce
  <2> QED  BY <2>1, <2>2, <2>3
<1> QED  BY <1>5, <1>6, <1>7 DEF PagesAccounted

(* A ready task translates its addresses to its pages. *)
LEMMA ReadyMapped ==
  ASSUME NEW own, Forest(own, table, root), NEW mp, Maps(own, table, mp), TasksOK(mp)
  PROVE  ReadyIsMapped
<1> SUFFICES ASSUME NEW t \in Spaces, task[t] = "READY", NEW n \in 1 .. 4
             PROVE  vm_translate(t, UserVa[n]) = MapsTo(t, n)
  BY DEF ReadyIsMapped
<1>1. mp[t][n] = Target(pages[t], n)
  BY DEF TasksOK, TaskOK
<1>2. vm_translate(t, UserVa[n]) = mp[t][n]
  BY TranslateIs
<1> QED  BY <1>1, <1>2 DEF Target, MapsTo

(* What a task has mapped is the trampoline or a page it still has. *)
LEMMA MappedLive ==
  ASSUME TaskTyped, NEW own, Forest(own, table, root), NEW mp, Maps(own, table, mp), TasksOK(mp)
  PROVE  MappedPagesLive
<1> SUFFICES ASSUME NEW t \in Spaces, NEW e, e \in Leaves(t) PROVE e.pa \in TaskPages(t) \cup {Trampoline}
  BY DEF MappedPagesLive
<1>1. PICK n \in 1 .. 4 : mp[t][n] # NULL /\ e = Leaf(mp[t][n])
  BY LeavesAre
<1>2. PICK c, tk, pg, m : c = pc[t] /\ tk = task[t] /\ pg = pages[t] /\ m = mp[t]
  OBVIOUS
<1>3. TaskOK(c, tk, root[t], pg, m) /\ m[n] # NULL /\ c.at \in Places
  BY <1>1, <1>2 DEF TasksOK, TaskTyped, PcType
<1>4. m[n] = Target(pg, n) /\ c.at # "free"
  <2>1. ~NoMaps(m)
    BY <1>3 DEF NoMaps
  <2>2. tk = "READY" \/ c.at \in {"map", "walk", "unmap"}
    BY <1>3, <2>1 DEF TaskOK, Places
  <2> QED  BY <1>3, <2>2 DEF TaskOK
<1>5. m[n] = Trampoline \/ \E k \in 1 .. 3 : m[n] = pg[k]
  <2>1. n = 1 \/ n = 2 \/ n = 3 \/ n = 4
    OBVIOUS
  <2> QED  BY <1>4, <2>1 DEF Target
<1>6. ASSUME NEW k \in 1 .. 3, m[n] = pg[k] PROVE m[n] \in TaskPages(t)
  BY <1>2, <1>3, <1>4, <1>6 DEF TaskPages
<1>7. e.pa = m[n]
  BY <1>1, <1>2, PteFacts
<1> QED  BY <1>5, <1>6, <1>7

(* Only the end of vm_map_page() ends a walk. *)
LEMMA WalkEnds ==
  ASSUME UserInv, [UserNext]_uvars, walk # NoWalk, walk' = NoWalk
  PROVE  \E t \in Spaces : MapReturns(t)
<1>1. PICK own : WalkOK(own)
  BY Unfold
<1>2. PICK t \in Spaces : pc[t].at = "walk" /\ masked = t /\ walk.space = t
  BY <1>1 DEF WalkOK, Walking
<1>3. t # NULL /\ walk' # walk /\ walk'.space = NULL
  BY VmAssumption DEF NoWalk
<1>4. PICK u \in Spaces : TaskStep(u)
  <2>1. ~UNCHANGED uvars /\ ~UNCHANGED vmvars
    BY <1>3 DEF uvars, vmvars
  <2> QED  BY <2>1 DEF UserNext, KeepPage, TakeRaw, FreeRaw
<1>5. \A at : Here(u, at) => u = t /\ at = "walk"
  BY <1>2, <1>3 DEF Here, MayRun
<1>6. ~user_task_init(u) /\ ~AllocPage(u) /\ ~MapBegin(u) /\ ~user_task_destroy(u)
  BY <1>5 DEF user_task_init, AllocPage, MapBegin, user_task_destroy
<1>7. ~Unmap(u) /\ ~DestroySpace(u) /\ ~FreeTaskPage(u)
  BY <1>5 DEF Unmap, DestroySpace, FreeTaskPage
<1>8. ~MapStep(u)
  <2>1. walk \in WalkType
    BY DEF UserInv, TaskTyped
  <2>2. ~WalkDown(u)
    <3>1. PICK w \in WalkType : w = walk
      BY <2>1
    <3>2. WalkDown(u) => \/ walk' = [w EXCEPT !.new = <<>>, !.rollback = TRUE]
                         \/ \E a : walk' = [w EXCEPT !.at = a, !.level = w.level - 1]
                         \/ walk' = [w EXCEPT !.rollback = TRUE]
                         \/ \E a, x : walk' = [w EXCEPT !.at = a, !.level = w.level - 1, !.new = x]
      BY <3>1 DEF WalkDown
    <3>3. WalkDown(u) => walk'.space = w.space
      BY <3>1, <3>2 DEF WalkType
    <3> QED  BY <1>2, <1>3, <3>1, <3>3
  <2>3. ~Rollback(u)
    BY <1>2, <1>3, <2>1 DEF Rollback, WalkType
  <2> QED  BY <2>2, <2>3 DEF MapStep
<1> QED  BY <1>4, <1>6, <1>7, <1>8 DEF TaskStep

(* A vm_map_page() that fails has given back what it took. *)
LEMMA FailedMapStep ==
  ASSUME UserInv, [UserNext]_uvars, walk # NoWalk, walk' = NoWalk, ~MapOk
  PROVE  Taken' = walk.before
<1>1. PICK t \in Spaces : MapReturns(t)
  BY WalkEnds
<1>2. pc[t].at = "walk" /\ MapEnds(t) /\ UNCHANGED pagevars
  BY <1>1 DEF MapReturns, Here, vm_map_end
<1>3. TookNothing(walk, page_bitmap)
  BY <1>2, Unfold, MapOutcome
<1> QED  BY <1>2, <1>3 DEF TookNothing, Taken, pagevars

-----------------------------------------------------------------------------
(* The memory of user tasks is sound at every step of their building and    *)
(* release: user_task_init(), wherever it runs out of memory, and the       *)
(* release at exit free no page twice, leak and share none, and leave no    *)
(* ready task mapped in part.                                               *)
THEOREM TaskMemorySound == UserSpec => []TaskInv
<1>1. UserInv => TaskInv
  BY Unfold, AllAccounted, ReadyMapped DEF TaskInv, NoDoubleFree
<1> QED  BY <1>1, UserInvariant, PTL

(* No mapping of vm_map_page() outlives the page it leads to.               *)
THEOREM MappingsDieFirst == UserSpec => []MappedPagesLive
<1>1. UserInv => MappedPagesLive
  BY Unfold, MappedLive
<1> QED  BY <1>1, UserInvariant, PTL

(* rollback_allocated_tables() is complete: a vm_map_page() that fails      *)
(* leaves exactly the pages allocated that were allocated before it.        *)
THEOREM FailedMapsUndone == UserSpec => FailedMapLeavesNothing
<1>1. UserInv /\ [UserNext]_uvars => [walk # NoWalk /\ walk' = NoWalk /\ ~MapOk => Taken' = walk.before]_uvars
  BY FailedMapStep
<1> QED  BY <1>1, UserInvariant, PTL DEF UserSpec, FailedMapLeavesNothing

(* Tasks and the other kernel code use the page allocator only as it allows *)
(* (no page_free() of a page that is not allocated), so all that is proved  *)
(* of the allocator holds beneath them.                                     *)
THEOREM TasksUseAllocator == UserSpec => PageSpec
<1>1. UserInit => PageInit
  BY DEF UserInit, VmInit
<1>2. UserInv /\ [UserNext]_uvars => [PageNext]_pagevars
  BY UserStepInv
<1> QED  BY <1>1, <1>2, UserInvariant, PTL DEF UserSpec, PageSpec

(* Beneath the tasks the allocator implements the page pool, and its count  *)
(* of free pages is exact.                                                  *)
THEOREM TasksSeePool == UserSpec => ImplementsPool /\ []FreeCountExact
BY TasksUseAllocator, PageAllocImplementsPool, PageCountCorrect, PTL
=============================================================================
