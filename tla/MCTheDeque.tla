------------------------------ MODULE MCTheDeque ------------------------------
(***************************************************************************)
(* TheDeque with the worker names as model values.  States are identified  *)
(* that differ only in values nobody reads before they are written again:  *)
(* slots outside the deque, and where the owner's last operation was to    *)
(* continue.                                                               *)
(***************************************************************************)
EXTENDS TheDeque

Live(v, places) == IF pc \in places THEN v ELSE NoOne

View ==
  <<head, tail, exc, protected_tail, saved, locks, frame_ff, pc, tpc,
    [i \in Slot |-> IF i \in head..(Top - 1) \/ (i = Top /\ pc = "pushing") THEN ltq[i] ELSE 0],
    Live(op, {"calling", "want", "locked"}), Live(after, {"unlock", "clear"}),
    pushed, resumed, stolen, guarded, Live(bypass, {"want"})>>
===============================================================================
