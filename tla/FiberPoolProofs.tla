-------------------------- MODULE FiberPoolProofs --------------------------
(***************************************************************************)
(* Proof that a fiber of cilkrts is never in two places, for any number of *)
(* workers, any sizes of the pools and any limit.                          *)
(***************************************************************************)
EXTENDS FiberPool, FiniteSetTheorems, TLAPS

\* What a call leaves behind: the buffer is empty but while it is freed, and
\* no fiber waits to be returned outside deallocate_self.
Quiet ==
  \A p \in Pools :
    /\ pc[p] \notin {"free", "free_last"} => to_free[p] = {}
    /\ pc[p] \in {"idle", "search", "heap", "free_last", "gone"}
         => back[p] = NoFiber

\* The inductive invariant.
FiberInv == TypeOK /\ OnePlace /\ Quiet

\* OnePlace, as a statement about one fiber at a time.
Placed ==
  /\ \A f : f \in heap <=> (f \in used \/ \E p \in Pools : f \in Held(p))
  /\ \A p \in Pools : \A f :
       /\ f \in Held(p) => f \notin used
       /\ f \in fibers[p] => f \notin to_free[p]
       /\ f = back[p] => f \notin fibers[p] /\ f \notin to_free[p]
       /\ \A q \in Pools \ {p} : f \in Held(p) => f \notin Held(q)

\* The two forms of OnePlace agree.
LEMMA PlacedIsOnePlace == Placed <=> OnePlace
  BY DEF Placed, OnePlace

\* What kSubset returns.
LEMMA KSubset == ASSUME NEW n, NEW S, NEW T \in kSubset(n, S) PROVE T \subseteq S
  BY DEF kSubset

\* The pools are finite and their sizes are numbers.
LEMMA Sizes ==
  /\ \A S \in SUBSET Fibers : Cardinality(S) \in Nat
  /\ \A p \in Pools : keep(p) \in Int
<1>1. \A S \in SUBSET Fibers : Cardinality(S) \in Nat
      BY FiberPoolAssumption, FS_Subset, FS_CardinalityType
<1>2. NStacks \div P \in Int  BY FiberPoolAssumption
<1>3. LocalSize \in Int  BY FiberPoolAssumption, <1>2 DEF LocalSize
<1>4. GlobalSize \in Int  BY FiberPoolAssumption, <1>3 DEF GlobalSize
<1>5. QED  BY <1>1, <1>3, <1>4 DEF keep, max_size

\* The invariant holds initially.
LEMMA FiberInit == Init => FiberInv
<1> SUFFICES ASSUME Init PROVE FiberInv  OBVIOUS
<1>1. TypeOK
  <2>1. at \in [Workers -> Pools]  BY DEF Init, Pools
  <2>2. /\ fibers \in [Pools -> SUBSET Fibers] /\ to_free \in [Pools -> SUBSET Fibers]
        /\ total \in [Pools -> Int] /\ back \in [Pools -> Fibers \cup {NoFiber}]
        BY DEF Init
  <2>3. QED  BY <2>1, <2>2, Zenon DEF Init, TypeOK
<1>0. Quiet  BY DEF Init, Quiet
<1>2. Placed  BY FiberPoolAssumption, <1>1 DEF Init, Placed, Held, TypeOK
<1>3. QED  BY <1>0, <1>1, <1>2, PlacedIsOnePlace DEF FiberInv

\* An allocation keeps every fiber in one place.
LEMMA AllocateKeeps ==
  ASSUME FiberInv, NEW w \in Workers,
         Allocate(w) \/ Search(w) \/ allocate_from_heap(w) \/ HeapFails(w)
  PROVE  FiberInv'
<1> USE FiberPoolAssumption DEF Pools, FiberInv, Goto
<1>0. Placed  BY PlacedIsOnePlace
<1>1. CASE Allocate(w)
  <2>1. TypeOK' /\ Quiet'  BY <1>1 DEF Allocate, TypeOK, Quiet
  <2>2. Placed'  BY <1>0, <1>1 DEF Allocate, Placed, Held
  <2>3. QED  BY <2>1, <2>2, PlacedIsOnePlace, PTL
<1>2. CASE FromPool(w)
  <2>1. PICK f \in fibers[at[w]] : /\ fibers' = [fibers EXCEPT ![at[w]] = @ \ {f}]
                                   /\ used' = used \cup {f}
        BY <1>2, Zenon DEF FromPool
  <2>2. TypeOK' /\ Quiet'  BY <1>2, <2>1 DEF FromPool, TypeOK, Quiet
  <2>3. Placed'  BY <1>0, <1>2, <2>1 DEF FromPool, Placed, Held, TypeOK
  <2>4. QED  BY <2>2, <2>3, PlacedIsOnePlace, PTL
<1>3. CASE CountNew(w) \/ NotHere(w) \/ HeapFails(w)
  <2>1. TypeOK'  BY <1>3 DEF CountNew, NotHere, HeapFails, SearchParent,
                             increment_pool_total, TypeOK
  <2>2. Quiet'  BY <1>3 DEF CountNew, NotHere, HeapFails, SearchParent, Quiet, TypeOK
  <2>3. Placed'  BY <1>0, <1>3 DEF CountNew, NotHere, HeapFails, Placed, Held
  <2>4. QED  BY <2>1, <2>2, <2>3, PlacedIsOnePlace, PTL
<1>4. CASE allocate_from_heap(w)
  <2>1. PICK f \in Fibers \ heap : heap' = heap \cup {f} /\ used' = used \cup {f}
        BY <1>4 DEF allocate_from_heap
  <2>2. TypeOK' /\ Quiet'  BY <1>4, <2>1 DEF allocate_from_heap, TypeOK, Quiet
  <2>3. Placed'  BY <1>0, <1>4, <2>1 DEF allocate_from_heap, Placed, Held, TypeOK
  <2>4. QED  BY <2>2, <2>3, PlacedIsOnePlace, PTL
<1>5. QED  BY <1>1, <1>2, <1>3, <1>4 DEF Search

\* A fiber that is given back, and those that leave the pool for it, stay in
\* one place each.
LEMMA ReturnKeeps ==
  ASSUME FiberInv, NEW w \in Workers,
         \/ \E f \in Fibers : PutBack(w, f) \/ PoolFull(w, f)
         \/ TestParent(w) \/ MoveToParent(w)
  PROVE  FiberInv'
<1> USE FiberPoolAssumption DEF Pools, FiberInv, Goto
<1>0. Placed  BY PlacedIsOnePlace
<1>1. ASSUME NEW f \in Fibers, PutBack(w, f)  PROVE FiberInv'
  <2>1. TypeOK' /\ Quiet'  BY <1>1 DEF PutBack, TypeOK, Quiet
  <2>2. Placed'  BY <1>0, <1>1 DEF PutBack, Placed, Held, TypeOK
  <2>3. QED  BY <2>1, <2>2, PlacedIsOnePlace, PTL
<1>2. ASSUME NEW f \in Fibers, PoolFull(w, f)  PROVE FiberInv'
  <2>1. TypeOK' /\ Quiet'  BY <1>2 DEF PoolFull, TypeOK, Quiet
  <2>2. Placed'  BY <1>0, <1>2 DEF PoolFull, Placed, Held, TypeOK, Quiet
  <2>3. QED  BY <2>1, <2>2, PlacedIsOnePlace, PTL
<1>3. CASE TestParent(w)
  <2>1. TypeOK' /\ Quiet'  BY <1>3 DEF TestParent, TypeOK, Quiet
  <2>2. Placed'  BY <1>0, <1>3 DEF TestParent, Placed, Held
  <2>3. QED  BY <2>1, <2>2, PlacedIsOnePlace, PTL
<1>4. CASE MoveToParent(w)
  <2>1. PICK moved \in SUBSET fibers[w] :
          fibers' = [fibers EXCEPT ![w] = @ \ moved, ![Root] = @ \cup moved]
        BY <1>4, KSubset, Zenon DEF MoveToParent
  <2>2. TypeOK' /\ Quiet'  BY <1>4, <2>1 DEF MoveToParent, PassSurplus, TypeOK, Quiet
  <2>3. Placed'  BY <1>0, <1>4, <2>1 DEF MoveToParent, Placed, Held, TypeOK
  <2>4. QED  BY <2>2, <2>3, PlacedIsOnePlace, PTL
<1>5. QED  BY <1>1, <1>2, <1>3, <1>4

\* Fibers leave a pool for the heap one batch at a time, and the fiber that
\* was given back enters the pool once.
LEMMA ReleaseKeeps ==
  ASSUME FiberInv, NEW p \in Pools, Release(p) \/ cilk_fiber_pool_destroy(p)
  PROVE  FiberInv'
<1> USE FiberPoolAssumption DEF FiberInv, Goto
<1>0. Placed  BY PlacedIsOnePlace
<1>1. CASE MakeRoom(p)
  <2>1. PICK n \in Int, last \in BOOLEAN, gone \in SUBSET fibers[p] :
          /\ to_free' = [to_free EXCEPT ![p] = gone]
          /\ total' = [total EXCEPT ![p] = @ - n]
          /\ fibers' = [fibers EXCEPT ![p] =
               (@ \ gone) \cup (IF last THEN {back[p]} \ {NoFiber} ELSE {})]
          /\ back' = [back EXCEPT ![p] = IF last THEN NoFiber ELSE @]
          /\ pc' = [pc EXCEPT ![p] = IF last THEN "free_last" ELSE "free"]
    <3> DEFINE excess == Cardinality(fibers[p]) - keep(p)
               m == IF excess < 0 THEN 0
                    ELSE IF excess < Batch THEN excess ELSE Batch
    <3>1. m \in Int  BY Sizes DEF TypeOK
    <3>2. SmallEnough(p, m) \in BOOLEAN  BY DEF SmallEnough
    <3>3. PICK gone \in SUBSET fibers[p] :
            /\ to_free' = [to_free EXCEPT ![p] = gone]
            /\ total' = [total EXCEPT ![p] = @ - m]
            /\ fibers' = [fibers EXCEPT ![p] =
                 (@ \ gone) \cup (IF SmallEnough(p, m) THEN Returned(p) ELSE {})]
            /\ back' = [back EXCEPT ![p] = IF SmallEnough(p, m) THEN NoFiber ELSE @]
            /\ pc' = [pc EXCEPT ![p] =
                         IF SmallEnough(p, m) THEN "free_last" ELSE "free"]
          BY <1>1, KSubset, Zenon DEF MakeRoom
    <3> HIDE DEF m
    <3>4. QED  BY <3>1, <3>2, <3>3, Zenon DEF Returned
  <2>2. TypeOK'  BY <1>1, <2>1 DEF MakeRoom, TypeOK
  <2>3. Quiet'  BY <1>1, <2>1 DEF MakeRoom, TypeOK, Quiet
  <2>4. to_free[p] = {}  BY <1>1 DEF MakeRoom, Quiet
  <2>5. Placed'  BY <1>0, <1>1, <2>1, <2>4 DEF MakeRoom, Placed, Held, TypeOK
  <2>6. QED  BY <2>2, <2>3, <2>5, PlacedIsOnePlace, PTL
<1>2. CASE deallocate_to_heap(p)
  <2>1. TypeOK' /\ Quiet'  BY <1>2 DEF deallocate_to_heap, TypeOK, Quiet
  <2>2. Placed'  BY <1>0, <1>2 DEF deallocate_to_heap, Placed, Held, TypeOK
  <2>3. QED  BY <2>1, <2>2, PlacedIsOnePlace, PTL
<1>3. CASE cilk_fiber_pool_destroy(p)
  <2>1. TypeOK' /\ Quiet'  BY <1>3, Zenon DEF cilk_fiber_pool_destroy, TypeOK, Quiet
  <2>2. Placed'  BY <1>0, <1>3 DEF cilk_fiber_pool_destroy, Placed, Held
  <2>3. QED  BY <2>1, <2>2, PlacedIsOnePlace, PTL
<1>4. QED  BY <1>1, <1>2, <1>3 DEF Release

\* FiberInv is inductive.
THEOREM FiberInvariance == Spec => []FiberInv
<1>1. FiberInv /\ [Next]_vars => FiberInv'
  <2> SUFFICES ASSUME FiberInv, [Next]_vars PROVE FiberInv'  OBVIOUS
  <2>1. ASSUME NEW w \in Workers, Allocate(w) \/ Step(w)  PROVE FiberInv'
        BY <2>1, AllocateKeeps, ReturnKeeps DEF Step
  <2>2. ASSUME NEW w \in Workers,
               \E f \in Fibers : PutBack(w, f) \/ PoolFull(w, f)
        PROVE  FiberInv'
        BY <2>2, ReturnKeeps
  <2>3. ASSUME NEW p \in Pools, Release(p) \/ cilk_fiber_pool_destroy(p)
        PROVE  FiberInv'
        BY <2>3, ReleaseKeeps
  <2>4. CASE Shutdown \/ UNCHANGED vars
    <3>1. UNCHANGED <<fibers, total, heap, used, pc, at, back, to_free>>
          BY <2>4 DEF Shutdown, vars
    <3>2. closing' \in BOOLEAN  BY <2>4, Zenon DEF Shutdown, vars, FiberInv, TypeOK
    <3>3. QED  BY <3>1, <3>2 DEF FiberInv, TypeOK, OnePlace, Held, Quiet
  <2>5. QED  BY <2>1, <2>2, <2>3, <2>4 DEF Next
<1>2. QED  BY FiberInit, <1>1, PTL DEF Spec

\* Every fiber that exists is in exactly one place: a stack is never given to
\* two frames, never lost, and never in a pool once it was returned to the
\* heap (cilk_fiber::allocate and deallocate_self).
THEOREM OnePlaceHolds == Spec => []OnePlace
  BY FiberInvariance, PTL DEF FiberInv
=============================================================================
