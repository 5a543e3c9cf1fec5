------------------------------ MODULE UserTask ------------------------------
(***************************************************************************)
(* The resources of a user task: user_task_init() with its failures, and   *)
(* the release at exit, of kernel/user/task.c and                          *)
(* kernel/memory/user_space.c.  A task and its address space are the same  *)
(* element of Spaces.  Its caller can be preempted between any two calls   *)
(* that mask interrupts, and other kernel code then allocates and frees    *)
(* pages; except at exit, when the scheduler's switch masks interrupts     *)
(* until the task is destroyed.                                            *)
(***************************************************************************)
EXTENDS Vm

CONSTANT MaxRaw   \* bound: pages the accelerator system call has at a time

VARIABLES
  task,       \* per task: user_task_t.state
  pages,      \* per task: code_page, stack_page and trap_context
  pc,         \* per task: where its caller is
  kept,       \* pages taken for good: the heap's and the kernel's own tables
  raw         \* pages taken for a while: the accelerator system call's

taskvars == <<task, pages, pc>>
uvars    == <<pagevars, vmvars, taskvars, kept, raw>>

(* The four mappings of a task in the order they are made: code, stack,    *)
(* trampoline and trap context, as table indices.                          *)
UserVa == <<<<0, 0, 0>>, <<0, 1, 1>>, <<1, 1, 1>>, <<1, 1, 0>>>>
ASSUME UserVaAssumption == \A n \in 1 .. 4, k \in 1 .. 3 : UserVa[n][k] \in Index
NoPages == <<NULL, NULL, NULL>>
MapsTo(t, n) == <<pages[t][1], pages[t][2], Trampoline, pages[t][3]>>[n]

At(at, n) == [at |-> at, n |-> n, exiting |-> FALSE]
Idle == At("idle", 0)

UserInit ==
  /\ VmInit
  /\ task = [t \in Spaces |-> "UNUSED"]
  /\ pages = [t \in Spaces |-> NoPages]
  /\ pc = [t \in Spaces |-> Idle]
  /\ kept = {} /\ raw = {}

Goto(t, next) == pc' = [pc EXCEPT ![t] = next]
Here(t, at)   == MayRun(t) /\ pc[t].at = at

-----------------------------------------------------------------------------
user_task_can_init(t) ==
  \/ task[t] = "UNUSED"
  \/ task[t] = "DESTROYED" /\ root[t] = NULL /\ pages[t] = NoPages

(* user_task_init() up to its vm_space_init(). *)
user_task_init(t) ==
  /\ Here(t, "idle") /\ user_task_can_init(t)
  /\ vm_space_init(t)
  /\ task' = [task EXCEPT ![t] = "UNUSED"]
  /\ pages' = [pages EXCEPT ![t] = NoPages]
  /\ IF page_result' = NULL THEN UNCHANGED pc ELSE Goto(t, At("alloc", 1))

(* The three page allocations; their results are tested after the last. *)
AllocPage(t) ==
  LET n == pc[t].n
  IN  /\ Here(t, "alloc")
      /\ page_alloc
      /\ pages' = [pages EXCEPT ![t][n] = page_result']
      /\ Goto(t, IF n < 3 THEN At("alloc", n + 1)
                 ELSE IF \E i \in 1 .. 3 : pages'[t][i] = NULL THEN At("unmap", 1)
                 ELSE At("map", 1))
      /\ UNCHANGED <<vmvars, task>>

MapBegin(t) ==
  /\ Here(t, "map")
  /\ vm_map_begin(t, UserVa[pc[t].n])
  /\ Goto(t, [pc[t] EXCEPT !.at = "walk"])
  /\ UNCHANGED <<task, pages>>

MapStep(t) ==
  /\ Here(t, "walk")
  /\ WalkDown(t) \/ Rollback(t)
  /\ UNCHANGED taskvars

(* What user_task_init() does next: on a failure it cleans up, for the last  *)
(* mapping after user_space_map_trap_support() has undone the one before.    *)
AfterMap(n) ==
  IF MapOk THEN (IF n < 4 THEN At("map", n + 1) ELSE Idle)
  ELSE At("unmap", IF n = 4 THEN 0 ELSE 1)

MapReturns(t) ==
  LET next == AfterMap(pc[t].n)
  IN  /\ Here(t, "walk")
      /\ vm_map_end(t, MapsTo(t, pc[t].n))
      /\ Goto(t, next)
      /\ task' = IF next = Idle THEN [task EXCEPT ![t] = "READY"] ELSE task
      /\ UNCHANGED pages

-----------------------------------------------------------------------------
(* A thread exits: user_task_mark_exited() and user_task_destroy(). *)
user_task_destroy(t) ==
  /\ Here(t, "idle") /\ task[t] = "READY"
  /\ task' = [task EXCEPT ![t] = "EXITED"]
  /\ masked' = t
  /\ Goto(t, [At("unmap", 1) EXCEPT !.exiting = TRUE])
  /\ UNCHANGED <<pagevars, table, root, walk, vm_panicked, pages>>

(* user_task_release_resources(): the mappings, the tables, the pages.       *)
(* Unmap 0 is the trampoline's in user_space_map_trap_support().             *)
Unmap(t) ==
  LET n == pc[t].n
  IN  /\ Here(t, "unmap")
      /\ vm_unmap_page(t, UserVa[IF n = 0 THEN 3 ELSE n])
      /\ Goto(t, IF n < 4 THEN [pc[t] EXCEPT !.n = n + 1]
                 ELSE [pc[t] EXCEPT !.at = "destroy", !.n = 0])
      /\ UNCHANGED <<pagevars, root, walk, masked, vm_panicked, task, pages>>

(* vm_space_destroy(), whose result is ignored. *)
DestroySpace(t) ==
  LET over == DestroyBusy(t) \/ Entries(root[t]) = {}
  IN  /\ Here(t, "destroy")
      /\ IF DestroyBusy(t) THEN UNCHANGED <<pagevars, table, root, vm_panicked>> ELSE FreeTables(t)
      /\ masked' = IF over /\ ~pc[t].exiting THEN NULL ELSE t
      /\ IF over THEN Goto(t, [pc[t] EXCEPT !.at = "free", !.n = 1]) ELSE UNCHANGED pc
      /\ UNCHANGED <<walk, task, pages>>

(* The three frees; behind the last one the task forgets everything. *)
FreeTaskPage(t) ==
  LET n == pc[t].n
      p == pages[t][n]
  IN  /\ Here(t, "free")
      /\ IF p = NULL THEN UNCHANGED <<pagevars, vm_panicked>> ELSE FreePage(p)
      /\ IF n < 3
         THEN /\ Goto(t, [pc[t] EXCEPT !.n = n + 1])
              /\ UNCHANGED <<task, pages, root, masked>>
         ELSE /\ Goto(t, Idle)
              /\ task' = [task EXCEPT ![t] = IF pc[t].exiting THEN "DESTROYED" ELSE "UNUSED"]
              /\ pages' = [pages EXCEPT ![t] = NoPages]
              /\ root' = [root EXCEPT ![t] = NULL]
              /\ masked' = NULL
      /\ UNCHANGED <<table, walk>>

TaskStep(t) ==
  \/ user_task_init(t) \/ AllocPage(t) \/ MapBegin(t) \/ MapStep(t) \/ MapReturns(t)
  \/ user_task_destroy(t) \/ Unmap(t) \/ DestroySpace(t) \/ FreeTaskPage(t)

(* Other kernel code takes a page for good, or for a while. *)
KeepPage ==
  /\ ~vm_panicked /\ masked = NULL
  /\ page_alloc /\ page_result' # NULL
  /\ kept' = kept \cup {page_result'}
  /\ UNCHANGED <<vmvars, taskvars, raw>>

TakeRaw ==
  /\ ~vm_panicked /\ masked = NULL /\ Cardinality(raw) < MaxRaw
  /\ page_alloc /\ page_result' # NULL
  /\ raw' = raw \cup {page_result'}
  /\ UNCHANGED <<vmvars, taskvars, kept>>

FreeRaw(p) ==
  /\ ~vm_panicked /\ masked = NULL
  /\ page_free(p)
  /\ raw' = raw \ {p}
  /\ UNCHANGED <<vmvars, taskvars, kept>>

UserNext ==
  \/ \E t \in Spaces : TaskStep(t) /\ UNCHANGED <<kept, raw>>
  \/ KeepPage \/ TakeRaw
  \/ \E p \in raw : FreeRaw(p)
UserSpec == UserInit /\ [][UserNext]_uvars

-----------------------------------------------------------------------------
(* Properties. *)

(* The pages a task has at this point of its life: the tables below its      *)
(* root and the pages it has allocated and not yet freed.                    *)
TaskPages(t) ==
  {pages[t][i] : i \in {j \in 1 .. 3 : pc[t].at = "free" => j >= pc[t].n}} \ {NULL}

(* page_free() never sees a page that is not allocated, wherever an          *)
(* initialisation runs out of memory and whoever allocates in between.       *)
NoDoubleFree == ~vm_panicked

Has(t) == Tables(t) \cup TaskPages(t)

(* No page is leaked and none is shared: at every moment the allocated pages *)
(* are exactly those that somebody has, each in one role.                    *)
PagesAccounted ==
  /\ Taken = kept \cup raw \cup UNION {Has(t) : t \in Spaces}
  /\ kept \cap raw = {}
  /\ \A t \in Spaces :
       /\ Tables(t) \cap TaskPages(t) = {}
       /\ Has(t) \cap (kept \cup raw \cup UNION {Has(u) : u \in Spaces \ {t}}) = {}

(* No mapping outlives its page: what a task's tables map is the trampoline  *)
(* or a page the task still has.                                             *)
MappedPagesLive ==
  \A t \in Spaces : \A e \in Leaves(t) : e.pa \in TaskPages(t) \cup {Trampoline}

(* A task that is ready translates each of its four addresses to the page    *)
(* meant for it, whatever happened during its initialisation.         *)
ReadyIsMapped ==
  \A t \in Spaces : task[t] = "READY" =>
    \A n \in 1 .. 4 : vm_translate(t, UserVa[n]) = MapsTo(t, n)

(* What holds of the memory of tasks at every step of their building and     *)
(* release: no double free, no leak, no sharing, and no ready task that is   *)
(* mapped in part.                                                           *)
TaskInv == NoDoubleFree /\ PagesAccounted /\ ReadyIsMapped

(* A vm_map_page() that fails leaves no page behind: the allocated pages are *)
(* those from before the call.                                               *)
FailedMapLeavesNothing ==
  [][walk # NoWalk /\ walk' = NoWalk /\ ~MapOk => Taken' = walk.before]_uvars
=============================================================================
