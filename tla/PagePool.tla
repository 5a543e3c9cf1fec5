------------------------------ MODULE PagePool ------------------------------
(***************************************************************************)
(* What a page allocator promises: it hands out a page nobody has, or      *)
(* refuses when every page is handed out, and takes back what was handed   *)
(* out.  No order among the pages is promised.                             *)
(***************************************************************************)
CONSTANTS Pages, NoPage
VARIABLES taken, answer

Init == taken = {} /\ answer = NoPage

Grant(p) == p \in Pages \ taken /\ taken' = taken \cup {p} /\ answer' = p
Refuse   == taken = Pages /\ answer' = NoPage /\ UNCHANGED taken
GiveBack(p) == p \in taken /\ taken' = taken \ {p} /\ UNCHANGED answer

Next == Refuse \/ \E p \in Pages : Grant(p) \/ GiveBack(p)
Spec == Init /\ [][Next]_<<taken, answer>>
=============================================================================
