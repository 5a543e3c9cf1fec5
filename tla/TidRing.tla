------------------------------ MODULE TidRing -------------------------------
(***************************************************************************)
(* The ring buffers behind the ready queue (tid_queue_t) and the wait      *)
(* queues (wait_queue_t) of kernel/core/thread.c: an array of              *)
(* THREAD_MAX - 1 tids with head, tail and count.  Thread has their        *)
(* contents as sequences; here the array is shown to behave like one.      *)
(***************************************************************************)
EXTENDS TidQueue

CONSTANT THREAD_MAX

Places == THREAD_MAX - 1
Place(ring, i) == (ring.head + i) % Places     \* of the i-th entry, from 0 on

(* The contents, oldest first; tail is where the next entry goes. *)
Contents(ring) == [k \in 1 .. ring.count |-> ring.tids[Place(ring, k - 1)]]
Holds(ring, s) == Contents(ring) = s /\ ring.tail = Place(ring, ring.count)

(* tid_queue_push() and wait_queue_push() on a ring that is not full. *)
queue_push(ring, tid) ==
  [tids |-> [ring.tids EXCEPT ![ring.tail] = tid], head |-> ring.head,
   tail |-> (ring.tail + 1) % Places, count |-> ring.count + 1]

(* tid_queue_pop() and wait_queue_pop() on a ring that is not empty. *)
queue_pop(ring) == [ring EXCEPT !.head = (@ + 1) % Places, !.count = @ - 1]

(* The loop of wait_queue_remove() that closes the gap at offset `found':   *)
(* one assignment per turn, in the order of the turns.                      *)
AfterTurn(ring, turns) ==
  LET after[n \in 0 .. Len(turns)] ==
        IF n = 0 THEN ring.tids
        ELSE LET tids == after[n - 1]
             IN  [tids EXCEPT ![Place(ring, turns[n])] = tids[Place(ring, turns[n] + 1)]]
  IN  after
MoveUp(ring, turns) == AfterTurn(ring, turns)[Len(turns)]

Turns(from, to)        == [n \in 1 .. to - from + 1 |-> from + n - 1]
CloseRing_FromTheEnd(ring, found) == MoveUp(ring, Reverse(Turns(found, ring.count - 2)))
CloseRing(ring, found) == MoveUp(ring, Turns(found, ring.count - 2))

wait_queue_remove(ring, tid) ==
  LET Found == {i \in 0 .. ring.count - 1 : ring.tids[Place(ring, i)] = tid}
  IN IF Found = {} THEN ring
     ELSE [tids |-> CloseRing(ring, Min(Found)), head |-> ring.head,
           tail |-> Place(ring, ring.count - 1), count |-> ring.count - 1]

(* A ring with contents s and its head at h; unused places hold u. *)
RingOf(s, h, u) ==
  LET offset(p) == (p + Places - h) % Places
  IN [tids  |-> [p \in 0 .. Places - 1 |-> IF offset(p) < Len(s) THEN s[offset(p) + 1] ELSE u],
      head  |-> h, tail |-> (h + Len(s)) % Places, count |-> Len(s)]
=============================================================================
