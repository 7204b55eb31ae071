--------------------------- MODULE CilkForProofs ---------------------------
(***************************************************************************)
(* Proof that a cilk_for runs every iteration exactly once, for every trip *)
(* count, grain size, number of workers and width of count_t.              *)
(***************************************************************************)
EXTENDS CilkFor, TLAPS

\* Iteration i is one of the range r.
In(i, r) == r[1] <= i /\ i < r[2]

\* EachIterationOnce, as a statement about one iteration at a time.
Partition ==
  /\ \A i \in Int : (0 <= i /\ i < count) <=> \E r \in calls \cup runs : In(i, r)
  /\ \A i \in Int : \A r, s \in calls \cup runs : In(i, r) /\ In(i, s) => r = s
  /\ \A i \in Int : \A r \in calls \cap runs : ~In(i, r)

\* No range is reversed or reaches past the end of the loop.
InLoop == \A r \in calls \cup runs : r[1] <= r[2] /\ r[2] <= count

\* The inductive invariant.
LoopInv == TypeOK /\ InLoop /\ Partition

\* The two forms of EachIterationOnce agree on ranges of numbers.
LEMMA PartitionIsOnce == TypeOK /\ Partition => EachIterationOnce
<1> SUFFICES ASSUME TypeOK, Partition PROVE EachIterationOnce  OBVIOUS
<1>0. \A r \in calls \cup runs : r[1] \in Int /\ r[2] \in Int
      BY DEF TypeOK, Ranges
<1>1. \A r \in calls \cup runs : \A i : i \in Iterations(r) <=> i \in Int /\ In(i, r)
      BY <1>0 DEF Iterations, In
<1>2. count \in Int  BY DEF TypeOK
<1>3. \A i : i \in 0..(count - 1) <=> i \in Int /\ 0 <= i /\ i < count  BY <1>2
<1>4. UNION {Iterations(r) : r \in calls \cup runs} = 0..(count - 1)
      BY <1>1, <1>3 DEF Partition
<1>5. QED  BY <1>1, <1>4 DEF Partition, EachIterationOnce

\* The grain size is a number.
LEMMA GrainType ==
  ASSUME NEW c \in 0..MaxCount, NEW req \in Int, NEW tool \in BOOLEAN
  PROVE  grainsize(req, c, tool) \in Nat
<1>1. Px8 \in Nat \ {0}  BY CilkForAssumption DEF Px8
<1>2. count_t(c + Px8 - 1) \in Nat  BY CilkForAssumption, <1>1 DEF count_t
<1>3. Share(c) \in Nat  BY <1>1, <1>2 DEF Share
<1>4. QED  BY <1>3, CilkForAssumption DEF grainsize

\* The middle of a range that is too large lies in it: nothing wraps around
\* in count_t.
LEMMA MidInRange ==
  ASSUME NEW r \in Ranges, r[1] <= r[2]
  PROVE  Mid(r) \in 0..MaxCount /\ r[1] <= Mid(r) /\ Mid(r) <= r[2]
<1>1. Size(r) = r[2] - r[1]  BY CilkForAssumption DEF Size, count_t, Ranges
<1>2. DEFINE half == Size(r) \div 2
<1>3. half \in Nat /\ half <= Size(r)  BY <1>1 DEF Ranges
<1>4. r[1] \in Int /\ r[2] \in Int /\ 0 <= r[1] /\ r[2] <= MaxCount
      BY DEF Ranges
<1> HIDE DEF half
<1>5. r[1] + half \in 0..MaxCount /\ r[1] <= r[1] + half /\ r[1] + half <= r[2]
      BY <1>1, <1>3, <1>4, CilkForAssumption
<1>6. (r[1] + half) % CountRange = r[1] + half  BY <1>5, CilkForAssumption
<1>7. Mid(r) = r[1] + half  BY <1>6 DEF Mid, count_t, half
<1>8. QED  BY <1>5, <1>7

\* A spawn splits the range of a call and leaves the others alone.
LEMMA SpawnKeeps ==
  ASSUME LoopInv, NEW r \in calls, Spawn(r)  PROVE LoopInv'
<1> DEFINE a == <<r[1], Mid(r)>>
           b == <<Mid(r), r[2]>>
<1>1. r \in Ranges /\ r[1] <= r[2] /\ r[2] <= count
      BY DEF LoopInv, TypeOK, InLoop
<1>2. Mid(r) \in 0..MaxCount /\ r[1] <= Mid(r) /\ Mid(r) <= r[2]
      BY <1>1, MidInRange
<1>3. /\ calls' = (calls \ {r}) \cup {a, b}
      /\ UNCHANGED <<running, count, grain, runs>>
      BY DEF Spawn, Continuation
<1>4. TypeOK'  BY <1>1, <1>2, <1>3 DEF LoopInv, TypeOK, Ranges
<1>5. InLoop'  BY <1>1, <1>2, <1>3 DEF LoopInv, TypeOK, InLoop, Ranges
<1>6. \A i \in Int : /\ In(i, r) <=> In(i, a) \/ In(i, b)
                     /\ ~(In(i, a) /\ In(i, b))
      BY <1>1, <1>2 DEF In, Ranges
<1> HIDE DEF a, b
<1>7. Partition'  BY <1>3, <1>6 DEF LoopInv, Partition
<1>8. QED  BY <1>4, <1>5, <1>7 DEF LoopInv

\* LoopInv is inductive.
THEOREM LoopInvariance == Spec => []LoopInv
<1>1. Init => LoopInv
  <2> SUFFICES ASSUME Init PROVE LoopInv  OBVIOUS
  <2>1. TypeOK
    <3>1. 0 \in 0..MaxCount /\ 1 \in Nat  BY CilkForAssumption
    <3>2. QED  BY <3>1, Zenon DEF Init, TypeOK
  <2>2. InLoop  BY DEF Init, InLoop
  <2>3. Partition  BY DEF Init, Partition
  <2>4. QED  BY <2>1, <2>2, <2>3 DEF LoopInv
<1>2. LoopInv /\ [Next]_vars => LoopInv'
  <2> SUFFICES ASSUME LoopInv, [Next]_vars PROVE LoopInv'  OBVIOUS
  <2>1. ASSUME NEW c \in 0..MaxCount, NEW req \in Grains, NEW tool \in BOOLEAN,
               CilkFor(c, req, tool)
        PROVE  LoopInv'
    <3>1. grain' \in Nat  BY <2>1, GrainType, CilkForAssumption DEF CilkFor
    <3>2. TypeOK'  BY <2>1, <3>1, CilkForAssumption DEF CilkFor, TypeOK, Ranges
    <3>3. InLoop' /\ Partition'
          BY <2>1 DEF CilkFor, InLoop, Partition, In
    <3>4. QED  BY <3>2, <3>3 DEF LoopInv
  <2>2. ASSUME NEW r \in calls, call_cilk_for_loop_body(r)  PROVE LoopInv'
    <3>1. calls' \cup runs' = calls \cup runs  BY <2>2 DEF call_cilk_for_loop_body
    <3>2. calls' \cap runs' \subseteq calls \cap runs
          BY <2>2 DEF call_cilk_for_loop_body
    <3>3. TypeOK'  BY <2>2 DEF call_cilk_for_loop_body, LoopInv, TypeOK
    <3>4. InLoop' /\ Partition'
          BY <2>2, <3>1, <3>2 DEF call_cilk_for_loop_body, LoopInv, InLoop, Partition
    <3>5. QED  BY <3>3, <3>4 DEF LoopInv
  <2>3. CASE Return  BY <2>3, Zenon DEF Return, LoopInv, TypeOK, InLoop, Partition
  <2>4. CASE UNCHANGED vars  BY <2>4 DEF vars, LoopInv, TypeOK, InLoop, Partition
  <2>5. QED  BY <2>1, <2>2, <2>3, <2>4, SpawnKeeps DEF Next, Loop
<1>3. QED  BY <1>1, <1>2, PTL DEF Spec

\* Every iteration of a cilk_for is run exactly once, however the loop is
\* divided (cilk_for_recursive).
THEOREM EachIterationOnceHolds == Spec => []EachIterationOnce
  BY LoopInvariance, PartitionIsOnce, PTL DEF LoopInv
=============================================================================
