------------------------------ MODULE CilkFor ------------------------------
(***************************************************************************)
(* The cilk_for loop of cilkrts: the choice of the grain size and the      *)
(* divide and conquer over the iterations, in the unsigned type count_t of *)
(* the trip count (32 or 64 bits).  An active call of cilk_for_recursive   *)
(* is the range of iterations it has left; a spawn splits it in two, which *)
(* go on independently, on whatever workers they run.  The body of the     *)
(* loop is external: one call of it runs a whole range.                    *)
(***************************************************************************)
EXTENDS Integers, FiniteSets

CONSTANTS CountRange, \* 2^32 or 2^64: the number of values of count_t
          MaxCount,   \* the largest trip count of a loop
          Grains,     \* the grain sizes a program may request
          P,          \* g->P
          GrainCap    \* 2048

ASSUME CilkForAssumption ==
  /\ CountRange \in Nat /\ MaxCount \in Nat /\ MaxCount < CountRange
  /\ Grains \subseteq Int /\ P \in Nat \ {0} /\ GrainCap \in Nat \ {0}

VARIABLES
  running,   \* inside __cilkrts_cilk_for
  count,     \* the trip count of the loop
  grain,     \* gs
  calls,     \* the active calls of cilk_for_recursive
  runs       \* the ranges the body was called with

vars == <<running, count, grain, calls, runs>>

-----------------------------------------------------------------------------
\* Arithmetic in count_t.
count_t(n) == n % CountRange

Px8 == 8 * P

\* Mutant: the division is not rounded up.
ShareRoundedDown(c) == count_t(c) \div Px8

\* The count divided by 8 times the number of workers, rounded up.
Share(c) == count_t(c + Px8 - 1) \div Px8

grainsize(req, c, under_ptool) ==
  CASE req > 0     -> req
    [] req <= 0 /\ (c < 1 \/ under_ptool) -> 1
    [] OTHER       -> IF Share(c) > GrainCap THEN GrainCap ELSE Share(c)

Init ==
  /\ running = FALSE /\ count = 0 /\ grain = 1
  /\ calls = {} /\ runs = {}

\* __cilkrts_cilk_for_32 and _64, and cilk_for_root: an empty loop returns.
CilkFor(c, req, under_ptool) ==
  /\ ~running
  /\ c > 0
  /\ running' = TRUE /\ count' = c
  /\ grain' = grainsize(req, c, under_ptool)
  /\ calls' = {<<0, c>>} /\ runs' = {}

Size(r) == count_t(r[2] - r[1])

Mid(r) == count_t(r[1] + Size(r) \div 2)

\* Mutant: the continuation starts after the middle.
ContinuationSkips(r) == <<Mid(r) + 1, r[2]>>

\* low = mid; goto tail_recurse.
Continuation(r) == <<Mid(r), r[2]>>

TooLarge(r) == Size(r) > grain

\* The first half is spawned, the continuation goes on with the second.
Spawn(r) ==
  /\ r \in calls /\ TooLarge(r)
  /\ calls' = (calls \ {r}) \cup {<<r[1], Mid(r)>>, Continuation(r)}
  /\ UNCHANGED <<running, count, grain, runs>>

call_cilk_for_loop_body(r) ==
  /\ r \in calls /\ ~TooLarge(r)
  /\ calls' = calls \ {r}
  /\ runs' = runs \cup {r}
  /\ UNCHANGED <<running, count, grain>>

\* The implicit sync of cilk_for_root.
Return ==
  /\ running /\ calls = {}
  /\ running' = FALSE
  /\ UNCHANGED <<count, grain, calls, runs>>

Loop ==
  \/ \E r \in calls : Spawn(r) \/ call_cilk_for_loop_body(r)
  \/ Return

Next ==
  \/ \E c \in 0..MaxCount, req \in Grains, tool \in BOOLEAN : CilkFor(c, req, tool)
  \/ Loop

Spec == Init /\ [][Next]_vars

\* The workers go on with every active call.
FairSpec == Spec /\ WF_vars(Loop)

-----------------------------------------------------------------------------
\* A range of iterations, and the iterations of it.
Ranges == (0..MaxCount) \X (0..MaxCount)
Iterations(r) == r[1]..(r[2] - 1)

TypeOK ==
  /\ running \in BOOLEAN /\ count \in 0..MaxCount /\ grain \in Nat
  /\ calls \subseteq Ranges /\ runs \subseteq Ranges

\* Whatever the trip count and the grain size, and whichever calls run first,
\* every iteration is in exactly one active call or one range the body was
\* called with: at the end of the loop each iteration was run exactly once.
EachIterationOnce ==
  /\ UNION {Iterations(r) : r \in calls \cup runs} = 0..(count - 1)
  /\ \A r, s \in calls \cup runs : r # s => Iterations(r) \cap Iterations(s) = {}
  /\ \A r \in calls \cap runs : Iterations(r) = {}

\* "Invariant: count > 0, grain >= 1" (cilk_for_recursive).
CallInvariant ==
  running => grain >= 1 /\ \A r \in calls : Size(r) > 0

\* Every loop ends.
LoopEnds == running ~> ~running
=============================================================================
