--------------------------------- MODULE Vm ---------------------------------
(***************************************************************************)
(* The Sv39 page tables of kernel/memory/vm.c on top of the page           *)
(* allocator.  A virtual page is the triple of its table indices, root     *)
(* first.  Each call masks interrupts; the calls that allocate or free     *)
(* several pages take one step per page, and `masked' names the address    *)
(* space whose caller has interrupts masked meanwhile.                     *)
(***************************************************************************)
EXTENDS PageAlloc, Sequences

CONSTANTS
  Spaces,        \* the vm_space_t objects
  Index,         \* indices of the entries of a table
  Trampoline     \* a mapped physical page the allocator does not manage

ASSUME VmAssumption ==
  /\ Index \subseteq Nat /\ Trampoline \notin Page \cup {NULL} /\ NULL \notin Spaces

NoPte == [leaf |-> FALSE, pa |-> NULL]
NewTable == [i \in Index |-> NoPte]

VARIABLES
  table,         \* per page: its contents, should it be a table
  root,          \* per space: its root table
  walk,          \* the vm_map_page() in progress
  masked,        \* the space whose caller has interrupts masked
  vm_panicked    \* page_free() of a page that is not allocated

vmvars == <<table, root, walk, masked, vm_panicked>>

NoWalk == [space |-> NULL, va |-> NULL, level |-> 0, at |-> NULL, new |-> <<>>,
           rollback |-> FALSE, before |-> {}]

VmInit ==
  /\ PageInit
  /\ table = [p \in Page |-> NewTable]
  /\ root = [s \in Spaces |-> NULL]
  /\ walk = NoWalk /\ masked = NULL /\ vm_panicked = FALSE

(* The caller that works on s may take a step. *)
MayRun(s) == ~vm_panicked /\ masked \in {NULL, s}

FreePage(p) ==
  IF page_bitmap[p] THEN page_free(p) /\ UNCHANGED vm_panicked
  ELSE vm_panicked' = TRUE /\ UNCHANGED pagevars

-----------------------------------------------------------------------------
(* vm_walk() without allocation: the last-level table of va, or NULL. *)
Child(p, i) == IF p = NULL \/ table[p][i].leaf THEN NULL ELSE table[p][i].pa
vm_walk(s, va) == Child(Child(root[s], va[1]), va[2])

vm_translate(s, va) ==
  LET t == vm_walk(s, va)
  IN  IF t # NULL /\ table[t][va[3]].leaf THEN table[t][va[3]].pa ELSE NULL

(* vm_space_init() *)
vm_space_init(s) ==
  /\ page_alloc
  /\ IF page_result' = NULL THEN UNCHANGED <<table, root>>
     ELSE /\ table' = [table EXCEPT ![page_result'] = NewTable]
          /\ root' = [root EXCEPT ![s] = page_result']
  /\ UNCHANGED <<walk, masked, vm_panicked>>

(* vm_unmap_page(): the tables on the way stay. *)
vm_unmap_page_Nothing(s, va) == UNCHANGED table
vm_unmap_page(s, va) ==
  IF vm_translate(s, va) = NULL THEN UNCHANGED table
  ELSE table' = [table EXCEPT ![vm_walk(s, va)][va[3]] = NoPte]

-----------------------------------------------------------------------------
(* vm_map_page(), from its irq_save() on. *)
vm_map_begin(s, va) ==
  /\ walk' = [NoWalk EXCEPT !.space = s, !.va = va, !.level = 2, !.at = root[s], !.before = Taken]
  /\ masked' = s
  /\ UNCHANGED <<pagevars, table, root, vm_panicked>>

Slot  == walk.va[3 - walk.level]
Entry == table[walk.at][Slot]

(* One level of vm_walk() with allocation, for the space s. *)
WalkDown(s) ==
  /\ walk.space = s /\ ~walk.rollback /\ walk.level > 0
  /\ IF Entry # NoPte
     THEN /\ walk' = IF Entry.leaf THEN [walk EXCEPT !.new = <<>>, !.rollback = TRUE]
                     ELSE [walk EXCEPT !.at = Entry.pa, !.level = @ - 1]
          /\ UNCHANGED <<pagevars, table>>
     ELSE /\ page_alloc
          /\ IF page_result' = NULL
             THEN walk' = [walk EXCEPT !.rollback = TRUE] /\ UNCHANGED table
             ELSE /\ table' = [table EXCEPT ![page_result'] = NewTable,
                                            ![walk.at][Slot] = [leaf |-> FALSE, pa |-> page_result']]
                  /\ walk' = [walk EXCEPT !.at = page_result', !.level = @ - 1,
                                          !.new = Append(@, <<walk.at, Slot, page_result'>>)]
  /\ UNCHANGED <<root, masked, vm_panicked>>

Rollback_KeepsEntry(s) ==
  LET last == walk.new[Len(walk.new)]
  IN  /\ walk.space = s /\ walk.rollback /\ walk.new # <<>>
      /\ FreePage(last[3])
      /\ walk' = [walk EXCEPT !.new = SubSeq(@, 1, Len(@) - 1)]
      /\ UNCHANGED <<root, masked, table>>

Rollback_NoFree(s) ==
  LET last == walk.new[Len(walk.new)]
  IN  /\ walk.space = s /\ walk.rollback /\ walk.new # <<>>
      /\ table' = [table EXCEPT ![last[1]][last[2]] = NoPte]
      /\ walk' = [walk EXCEPT !.new = SubSeq(@, 1, Len(@) - 1)]
      /\ UNCHANGED <<pagevars, root, masked, vm_panicked>>

(* One iteration of rollback_allocated_tables(): the newest table goes. *)
Rollback(s) ==
  LET last == walk.new[Len(walk.new)]
  IN  /\ walk.space = s /\ walk.rollback /\ walk.new # <<>>
      /\ table' = [table EXCEPT ![last[1]][last[2]] = NoPte]
      /\ FreePage(last[3])
      /\ walk' = [walk EXCEPT !.new = SubSeq(@, 1, Len(@) - 1)]
      /\ UNCHANGED <<root, masked>>

(* The walk is over: no memory, an existing mapping, or the leaf to write. *)
MapEnds(s) == walk.space = s /\ IF walk.rollback THEN walk.new = <<>> ELSE walk.level = 0
MapOk == ~walk.rollback /\ table[walk.at][walk.va[3]] = NoPte

vm_map_end(s, pa) ==
  /\ MapEnds(s)
  /\ table' = IF MapOk THEN [table EXCEPT ![walk.at][walk.va[3]] = [leaf |-> TRUE, pa |-> pa]]
              ELSE table
  /\ walk' = NoWalk /\ masked' = NULL
  /\ UNCHANGED <<pagevars, root, vm_panicked>>

-----------------------------------------------------------------------------
(* vm_space_destroy(): refused while a leaf is left, otherwise the tables   *)
(* go depth first, each before its parent's entry is cleared.               *)
Entries(p)    == {i \in Index : table[p][i] # NoPte}
FirstEntry(p) == CHOOSE i \in Entries(p) : \A j \in Entries(p) : i <= j
Children(p)   == {table[p][i].pa : i \in {j \in Entries(p) : ~table[p][j].leaf}}
Below(p)      == {p} \cup Children(p) \cup UNION {Children(c) : c \in Children(p)}
Tables(s)     == IF root[s] = NULL THEN {} ELSE Below(root[s])
Leaves(s)     == {table[p][i] : p \in Tables(s), i \in Index} \cap [leaf : {TRUE}, pa : Page \cup {Trampoline}]

DestroyBusy(s) == Leaves(s) # {}

FreeTable(parent) ==
  LET i == FirstEntry(parent)
  IN  /\ FreePage(table[parent][i].pa)
      /\ table' = [table EXCEPT ![parent][i] = NoPte]
      /\ UNCHANGED root

FreeTables(s) ==
  LET r == root[s]
      c == table[r][FirstEntry(r)].pa
  IN  IF Entries(r) = {} THEN FreePage(r) /\ root' = [root EXCEPT ![s] = NULL] /\ UNCHANGED table
      ELSE FreeTable(IF Entries(c) = {} THEN r ELSE c)
=============================================================================
