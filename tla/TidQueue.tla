------------------------------ MODULE TidQueue ------------------------------
(***************************************************************************)
(* The bounded arrays of thread ids of kernel/core/thread.c seen as        *)
(* sequences: what the shifting loops of the wait and sleep queues do to   *)
(* the entries.                                                            *)
(***************************************************************************)
EXTENDS Integers, SequencesExt

(* The loop of wait_queue_remove() and sleep_queue_remove() after the entry *)
(* at position i is found: the entries behind it move up by one.            *)
CloseGap(s, i) == [k \in 1 .. Len(s) - 1 |-> IF k < i THEN s[k] ELSE s[k + 1]]

(* The loop of sleep_queue_insert(): the entries from position i on move    *)
(* back by one and make room for e.                                         *)
OpenGap(s, i, e) ==
  [k \in 1 .. Len(s) + 1 |-> IF k < i THEN s[k] ELSE IF k = i THEN e ELSE s[k - 1]]

(* The position the search loop of a removal stops at. *)
FirstAt(s, tid) ==
  CHOOSE k \in DOMAIN s : s[k] = tid /\ \A j \in 1 .. k - 1 : s[j] # tid

(* wait_queue_remove() and sleep_queue_remove(): without an entry for tid   *)
(* they report failure and change nothing.                                  *)
queue_remove(s, tid) == IF tid \in ToSet(s) THEN CloseGap(s, FirstAt(s, tid)) ELSE s

(* No thread id is queued twice. *)
HasNoDuplicates(s) == \A i, j \in DOMAIN s : s[i] = s[j] => i = j
=============================================================================
