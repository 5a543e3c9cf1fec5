------------------------------ MODULE FifoLock ------------------------------
(***************************************************************************)
(* What a mutex promises (docs/design/sync.md): at most one owner, waiters *)
(* served in arrival order by direct hand-over, no barging past a waiter,  *)
(* and a waiter with a timeout may give up its place at any moment.        *)
(***************************************************************************)
EXTENDS TidQueue

CONSTANTS Locks, Clients, Nobody

VARIABLES holder, queue     \* per lock: its owner, and the clients waiting

Init ==
  /\ holder = [l \in Locks |-> Nobody]
  /\ queue  = [l \in Locks |-> <<>>]

(* A free lock has no waiters to overtake. *)
Acquire(c, l) ==
  /\ holder[l] = Nobody /\ queue[l] = <<>>
  /\ holder' = [holder EXCEPT ![l] = c]
  /\ UNCHANGED queue

Wait(c, l) ==
  /\ holder[l] \notin {Nobody, c} /\ c \notin ToSet(queue[l])
  /\ queue' = [queue EXCEPT ![l] = Append(@, c)]
  /\ UNCHANGED holder

GiveUp(c, l) ==
  /\ c \in ToSet(queue[l])
  /\ queue' = [queue EXCEPT ![l] = queue_remove(@, c)]
  /\ UNCHANGED holder

Release(l) ==
  /\ holder[l] # Nobody
  /\ IF queue[l] = <<>>
     THEN holder' = [holder EXCEPT ![l] = Nobody] /\ UNCHANGED queue
     ELSE /\ holder' = [holder EXCEPT ![l] = Head(queue[l])]
          /\ queue'  = [queue EXCEPT ![l] = Tail(@)]

Next ==
  \E l \in Locks : \/ Release(l)
                   \/ \E c \in Clients : Acquire(c, l) \/ Wait(c, l) \/ GiveUp(c, l)

Spec == Init /\ [][Next]_<<holder, queue>>
=============================================================================
