----------------------------- MODULE FiberPool -----------------------------
(***************************************************************************)
(* The pools of fibers (stacks) of cilkrts: one per worker, touched only   *)
(* by the thread that runs the worker, and a root pool behind a lock.  An  *)
(* allocation looks in the worker's pool, then in the root pool, and each  *)
(* of them may take a fiber from the heap while its total is below its     *)
(* limit.  A fiber given back to a full pool pushes fibers to the root     *)
(* pool or to the heap.  Fibers can be given back by another worker than   *)
(* the one that allocated them, so a worker's total can go negative; this  *)
(* surplus moves to the root pool.                                         *)
(*                                                                         *)
(* A critical section of the root lock is one step.  The one access to the *)
(* root pool outside it, the test whether it is full, is a step of its     *)
(* own.  The array of a pool is the set of the fibers in it.               *)
(***************************************************************************)
EXTENDS Integers, FiniteSets, FiniteSetsExt

CONSTANTS Workers,      \* the workers, each with a pool
          Root,         \* the pool of the global state
          Fibers,       \* the fibers the heap can hold at once
          NoFiber,
          P,            \* g->P
          NStacks,      \* g->max_stacks as set by the user, 0 for no limit
          LocalStacks,  \* g->fiber_pool_size as set by the user
          SharedStacks, \* g->global_fiber_pool_size as set by the user
          Batch         \* B, fibers freed per acquisition of the lock

Pools == Workers \cup {Root}

ASSUME FiberPoolAssumption ==
  /\ Root \notin Workers /\ NoFiber \notin Fibers /\ IsFiniteSet(Fibers)
  /\ P \in Nat \ {0} /\ NStacks \in Nat
  /\ LocalStacks \in Nat /\ SharedStacks \in Nat /\ Batch \in Nat \ {0}
  /\ NStacks = 0 => LocalStacks > 0

\* cilkg_init_global_state sizes the pools from the settings when the number
\* of stacks is limited.
LocalSize ==
  LET share == NStacks \div P
      size  == IF share < LocalStacks THEN share ELSE LocalStacks
  IN  IF NStacks = 0 THEN LocalStacks ELSE IF size <= 0 THEN 1 ELSE size

\* Mutant: the size of the root pool is left as the user set it.
GlobalSizeUnadjusted == SharedStacks

GlobalSize == IF NStacks = 0 THEN SharedStacks ELSE P * (LocalSize + 1)

\* The limit __cilkrts_init_internal sets on the root pool.
IntMax == 2147483647
StackLimit ==
  IF NStacks = 0 THEN IntMax ELSE IF NStacks < P THEN P ELSE NStacks

max_size(p) == IF p = Root THEN GlobalSize ELSE LocalSize
alloc_max(p) == IF p = Root THEN StackLimit ELSE 0

VARIABLES
  fibers,   \* pool->fibers, the inactive fibers of each pool
  total,    \* pool->total
  heap,     \* the fibers that exist
  used,     \* the fibers in the hands of the scheduler
  pc,       \* where the call on each pool is
  at,       \* the pool an allocation searches
  back,     \* fiber_to_return
  to_free,  \* fibers_to_free
  closing   \* __cilkrts_deinit_internal has begun

vars == <<fibers, total, heap, used, pc, at, back, to_free, closing>>

Goto(p, l) == pc' = [pc EXCEPT ![p] = l]

Init ==
  /\ fibers = [p \in Pools |-> {}]
  /\ total = [p \in Pools |-> 0]
  /\ heap = {} /\ used = {}
  /\ pc = [p \in Pools |-> "idle"]
  /\ at = [w \in Workers |-> w]
  /\ back = [p \in Pools |-> NoFiber]
  /\ to_free = [p \in Pools |-> {}]
  /\ closing = FALSE

-----------------------------------------------------------------------------
(* cilk_fiber::allocate, by a worker that is about to steal *)

Allocate(w) ==
  /\ ~closing /\ pc[w] = "idle"
  /\ at' = [at EXCEPT ![w] = w]
  /\ Goto(w, "search")
  /\ UNCHANGED <<fibers, total, heap, used, back, to_free, closing>>

\* A fiber of the pool that is searched.
FromPool(w) ==
  /\ pc[w] = "search"
  /\ \E f \in fibers[at[w]] :
       /\ fibers' = [fibers EXCEPT ![at[w]] = @ \ {f}]
       /\ used' = used \cup {f}
  /\ Goto(w, "idle")
  /\ UNCHANGED <<total, heap, at, back, to_free, closing>>

\* A fiber is counted before it is allocated, under the lock of the pool.
increment_pool_total(p) == total' = [total EXCEPT ![p] = @ + 1]

\* Mutant: <= for <.
MayAllocateOneMore(p) == total[p] <= alloc_max(p)

MayAllocate(p) == total[p] < alloc_max(p)

CountNew(w) ==
  /\ pc[w] = "search" /\ fibers[at[w]] = {}
  /\ MayAllocate(at[w])
  /\ increment_pool_total(at[w])
  /\ Goto(w, "heap")
  /\ UNCHANGED <<fibers, heap, used, at, back, to_free, closing>>

\* The search goes on in the parent, or fails when there is none.
SearchParent(w) ==
  /\ at' = [at EXCEPT ![w] = Root]
  /\ Goto(w, IF at[w] = Root THEN "idle" ELSE "search")

NotHere(w) ==
  /\ pc[w] = "search" /\ fibers[at[w]] = {}
  /\ ~MayAllocate(at[w])
  /\ SearchParent(w)
  /\ UNCHANGED <<fibers, total, heap, used, back, to_free, closing>>

allocate_from_heap(w) ==
  /\ pc[w] = "heap"
  /\ \E f \in Fibers \ heap :
       /\ heap' = heap \cup {f}
       /\ used' = used \cup {f}
  /\ Goto(w, "idle")
  /\ UNCHANGED <<fibers, total, at, back, to_free, closing>>

\* The heap has no memory for a fiber: the count is taken back.
HeapFails(w) ==
  /\ pc[w] = "heap"
  /\ total' = [total EXCEPT ![at[w]] = @ - 1]
  /\ SearchParent(w)
  /\ UNCHANGED <<fibers, heap, used, back, to_free, closing>>

-----------------------------------------------------------------------------
(* cilk_fiber::deallocate_self, once the last reference to f is removed *)

PutBack(w, f) ==
  /\ ~closing /\ pc[w] = "idle" /\ f \in used
  /\ used' = used \ {f}
  /\ Cardinality(fibers[w]) < max_size(w)
  /\ fibers' = [fibers EXCEPT ![w] = @ \cup {f}]
  /\ UNCHANGED <<total, heap, pc, at, back, to_free, closing>>

PoolFull(w, f) ==
  /\ ~closing /\ pc[w] = "idle" /\ f \in used
  /\ used' = used \ {f}
  /\ Cardinality(fibers[w]) >= max_size(w)
  /\ back' = [back EXCEPT ![w] = f]
  /\ Goto(w, "parent")
  /\ UNCHANGED <<fibers, total, heap, at, to_free, closing>>

(* cilk_fiber_pool_move_fibers_to_parent_pool *)

\* The test whether the parent is full, without its lock.
TestParent(w) ==
  /\ pc[w] = "parent"
  /\ Goto(w, IF Cardinality(fibers[Root]) >= max_size(Root)
               THEN "room" ELSE "move")
  /\ UNCHANGED <<fibers, total, heap, used, at, back, to_free, closing>>

num_to_keep(p) ==
  IF closing THEN 0 ELSE max_size(p) \div 2 + max_size(p) \div 4

\* How many fibers fit in the parent, of those the pool need not keep.
Movable(w) ==
  LET surplus == Cardinality(fibers[w]) - num_to_keep(w)
      space   == max_size(Root) - Cardinality(fibers[Root])
      n       == IF surplus < space THEN surplus ELSE space
  IN  IF n < 0 THEN 0 ELSE n

\* Mutant: pool->total = 0 is missing.
PassSurplusTwice(w) ==
  total' = IF total[w] < 0 THEN [total EXCEPT ![Root] = @ + total[w]] ELSE total

\* A negative total is passed on to the parent.
PassSurplus(w) ==
  total' = IF total[w] < 0
             THEN [total EXCEPT ![Root] = @ + total[w], ![w] = 0]
             ELSE total


\* Mutant: --pool->size is missing.
MoveToParentCopies(w) ==
  /\ pc[w] = "move"
  /\ \E moved \in kSubset(Movable(w), fibers[w]) :
       fibers' = [fibers EXCEPT ![Root] = @ \cup moved]
  /\ PassSurplus(w)
  /\ Goto(w, "room")
  /\ UNCHANGED <<heap, used, at, back, to_free, closing>>

MoveToParent(w) ==
  /\ pc[w] = "move"
  /\ \E moved \in kSubset(Movable(w), fibers[w]) :
       fibers' = [fibers EXCEPT ![w] = @ \ moved, ![Root] = @ \cup moved]
  /\ PassSurplus(w)
  /\ Goto(w, "room")
  /\ UNCHANGED <<heap, used, at, back, to_free, closing>>

(* cilk_fiber_pool_free_fibers_from_pool *)

\* Mutant: a pool that is destroyed is treated like a full one.
keepOne(p) == max_size(p) - 1

\* num_to_keep, as its two callers give it.
keep(p) == IF closing THEN 0 ELSE max_size(p) - 1

Returned(p) == {back[p]} \ {NoFiber}

\* Mutant: < for <=.
SmallEnoughStrict(p, n) == Cardinality(fibers[p]) - n < keep(p)

\* Whether the pool is below its threshold once n fibers have left it.
SmallEnough(p, n) == Cardinality(fibers[p]) - n <= keep(p)

\* One round of the loop: up to Batch fibers leave the pool, and if it is
\* then small enough the last fiber is put back.
MakeRoom(p) ==
  /\ pc[p] = "room"
  /\ LET excess == Cardinality(fibers[p]) - keep(p)
         n == IF excess < 0 THEN 0 ELSE IF excess < Batch THEN excess ELSE Batch
         last == SmallEnough(p, n)
     IN  \E gone \in kSubset(n, fibers[p]) :
           /\ to_free' = [to_free EXCEPT ![p] = gone]
           /\ total' = [total EXCEPT ![p] = @ - n]
           /\ fibers' = [fibers EXCEPT ![p] =
                           (@ \ gone) \cup (IF last THEN Returned(p) ELSE {})]
           /\ back' = [back EXCEPT ![p] = IF last THEN NoFiber ELSE @]
           /\ Goto(p, IF last THEN "free_last" ELSE "free")
  /\ UNCHANGED <<heap, used, at, closing>>

deallocate_to_heap(p) ==
  /\ pc[p] \in {"free", "free_last"}
  /\ heap' = heap \ to_free[p]
  /\ to_free' = [to_free EXCEPT ![p] = {}]
  /\ Goto(p, IF pc[p] = "free" THEN "room" ELSE
             IF closing THEN "gone" ELSE "idle")
  /\ UNCHANGED <<fibers, total, used, at, back, closing>>

-----------------------------------------------------------------------------
(* The end of the runtime: no call is active and no fiber in use.  The     *)
(* pools are destroyed one after the other, the root pool last.            *)

Shutdown ==
  /\ ~closing /\ used = {} /\ \A w \in Workers : pc[w] = "idle"
  /\ closing' = TRUE
  /\ UNCHANGED <<fibers, total, heap, used, pc, at, back, to_free>>

cilk_fiber_pool_destroy(p) ==
  /\ closing /\ pc[p] = "idle"
  /\ \A q \in Pools : pc[q] \in {"idle", "gone"}
  /\ p = Root => \A w \in Workers : pc[w] = "gone"
  /\ Goto(p, IF p = Root THEN "room" ELSE "parent")
  /\ UNCHANGED <<fibers, total, heap, used, at, back, to_free, closing>>

-----------------------------------------------------------------------------
Search(w) == FromPool(w) \/ CountNew(w) \/ NotHere(w)

Release(p) == MakeRoom(p) \/ deallocate_to_heap(p)

Step(w) ==
  \/ Search(w) \/ allocate_from_heap(w) \/ HeapFails(w)
  \/ TestParent(w) \/ MoveToParent(w)

Next ==
  \/ \E w \in Workers : Allocate(w) \/ Step(w)
  \/ \E w \in Workers : \E f \in Fibers : PutBack(w, f) \/ PoolFull(w, f)
  \/ \E p \in Pools : Release(p) \/ cilk_fiber_pool_destroy(p)
  \/ Shutdown

Spec == Init /\ [][Next]_vars

\* A thread that has begun a call goes on with it.
FairSpec ==
  /\ Spec
  /\ \A w \in Workers : WF_vars(Step(w))
  /\ \A p \in Pools : WF_vars(Release(p) \/ cilk_fiber_pool_destroy(p))

-----------------------------------------------------------------------------
TypeOK ==
  /\ fibers \in [Pools -> SUBSET Fibers]
  /\ total \in [Pools -> Int]
  /\ heap \subseteq Fibers /\ used \subseteq Fibers
  /\ pc \in [Pools -> {"idle", "search", "heap", "parent", "move", "room",
                       "free", "free_last", "gone"}]
  /\ at \in [Workers -> Pools]
  /\ back \in [Pools -> Fibers \cup {NoFiber}]
  /\ to_free \in [Pools -> SUBSET Fibers]
  /\ closing \in BOOLEAN

\* Where a fiber can be: with the scheduler, in a pool, or on its way back
\* to a pool or to the heap.
Held(p) == fibers[p] \cup to_free[p] \cup ({back[p]} \ {NoFiber})

\* Every fiber that exists is in exactly one place, and no pool holds a fiber
\* that was returned to the heap: no stack is given to two frames or lost,
\* whoever returns it.
OnePlace ==
  /\ heap = used \cup UNION {Held(p) : p \in Pools}
  /\ \A p \in Pools :
       /\ Held(p) \cap used = {}
       /\ fibers[p] \cap to_free[p] = {}
       /\ back[p] \notin fibers[p] \cup to_free[p]
       /\ \A q \in Pools \ {p} : Held(p) \cap Held(q) = {}

\* The totals of all pools, negative ones included, add up to the number of
\* fibers that exist, but for those counted and not yet allocated and those
\* taken out and not yet freed: the surplus that a worker passes on is
\* neither lost nor counted twice.
TotalsAddUp ==
  MapThenSumSet(LAMBDA p : total[p], Pools)
    = Cardinality(heap) + Cardinality({w \in Workers : pc[w] = "heap"})
      - MapThenSumSet(LAMBDA p : Cardinality(to_free[p]), Pools)

\* No array of a pool overflows, and there are never more stacks than the
\* user allowed, although a pool is unlocked before the heap is called and a
\* worker may allocate on its own account what it freed before.
WithinLimits ==
  /\ Cardinality(heap) <= StackLimit
  /\ \A p \in Pools : Cardinality(fibers[p]) <= max_size(p)

\* What a worker keeps from the others: the fibers in its pool, and those it may
\* still allocate on its own account because it freed as many.
Withheld(w) == Cardinality(fibers[w]) - total[w]

\* When the number of stacks is limited, a worker keeps from the others no more
\* than its pool holds or, if there are more stacks than the root pool has room
\* for, no more than that excess; however many fibers of other workers it is
\* handed.  The sizes cilkg_init_global_state computes are to keep a worker from
\* hogging the stacks.  They do not keep it from having every stack that is free:
\* with ten stacks and two workers a worker may keep four, two of them in its pool.
HoardIsBounded ==
  NStacks > 0 =>
    \A w \in Workers : Withheld(w) <= Max({LocalSize, StackLimit - P * (LocalSize + 1)})

\* A shutdown gives every fiber back to the heap.
ShutdownFreesAll == closing ~> (heap = {} /\ pc[Root] = "gone")

\* A call on a pool ends: the loops that make room and search do.
CallsEnd == \A w \in Workers : pc[w] # "idle" ~> pc[w] \in {"idle", "gone"}
=============================================================================
