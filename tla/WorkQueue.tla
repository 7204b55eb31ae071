------------------------------ MODULE WorkQueue ------------------------------
(***************************************************************************)
(* What a worker's deque promises, without locks, pointers or races.       *)
(*                                                                         *)
(* The continuations a worker has made available form one sequence, oldest *)
(* first.  The worker adds and removes at the young end; anybody else      *)
(* removes at the old end.  Every operation is one atomic step, so each    *)
(* continuation leaves the queue once, either because the worker returned  *)
(* to it or because it was stolen.                                         *)
(***************************************************************************)
EXTENDS Naturals, Sequences

VARIABLES
  queue,     \* continuations that can be returned to or stolen, oldest first
  pushed,    \* how many continuations were ever made available
  resumed,   \* the continuations the worker itself returned to
  stolen     \* the continuations somebody took from the old end

vars == <<queue, pushed, resumed, stolen>>

Init ==
  /\ queue = << >>
  /\ pushed = 0
  /\ resumed = {}
  /\ stolen = {}

\* A spawn makes the continuation of the spawning function available.
Push ==
  /\ pushed' = pushed + 1
  /\ queue' = Append(queue, pushed')
  /\ UNCHANGED <<resumed, stolen>>

\* A spawned function returns to its parent, the youngest continuation.
Pop ==
  /\ queue # << >>
  /\ resumed' = resumed \union {queue[Len(queue)]}
  /\ queue' = SubSeq(queue, 1, Len(queue) - 1)
  /\ UNCHANGED <<pushed, stolen>>

\* The oldest continuation is taken.
Steal ==
  /\ queue # << >>
  /\ stolen' = stolen \union {Head(queue)}
  /\ queue' = Tail(queue)
  /\ UNCHANGED <<pushed, resumed>>

Next == Push \/ Pop \/ Steal

Spec == Init /\ [][Next]_vars
==============================================================================
