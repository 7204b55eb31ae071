-------------------------- MODULE ReducerProtocol --------------------------
(***************************************************************************)
(* The reducer protocol of src/cilkrts/runtime/scheduler.c: how the views  *)
(* of reducers and the pending exceptions of a frame's stolen children are *)
(* combined when a child returns to a stolen parent and when the parent    *)
(* stalls at a sync.  Reductions run user code, so the parent's frame lock *)
(* is released while maps are merged and everything to the left must be    *)
(* looked up again afterwards.                                             *)
(*                                                                         *)
(* One parent frame and its children 1..N, left to right.  Index 0 is the  *)
(* worker on the parent, index i the worker on child i.  A reducer map is  *)
(* the sequence of the strands whose updates it holds, <<>> when NULL: the *)
(* merge of two maps is their concatenation, left before right.  In serial *)
(* order child i is strand 2i-1 and the parent's code after it strand 2i.  *)
(* A section under the parent's lock is one action.                        *)
(***************************************************************************)
EXTENDS SerialOrder, FiniteSets

CONSTANTS N,          \* bound: children stolen away from
          MaxThrows,  \* bound: strands that throw
          None        \* no exception

ASSUME ReducerAssumption == N \in Nat /\ MaxThrows \in Nat /\ None \notin Int

Kids == 1..N
All == 0..N

VARIABLES spawned,               \* children so far
          kids,                  \* children still linked, left to right
          reducer_map, right_reducer_map, children_reducer_map,
          pending_exception, right_pending_exception, child_pending_exception,
          unsynched,             \* CILK_FRAME_UNSYNCHED of the parent
          join_counter, pc,
          updates, thrown        \* history: strands that updated, that threw

maps == <<reducer_map, right_reducer_map, children_reducer_map>>
exceptions == <<pending_exception, right_pending_exception, child_pending_exception>>
tree == <<spawned, kids, unsynched>>
history == <<updates, thrown>>
vars == <<tree, maps, exceptions, join_counter, pc, history>>

Strand(x) == IF x = 0 THEN 2 * spawned ELSE 2 * x - 1

\* Mutant: the later one survives.
MergeExceptionsRight(left, right) == IF right = None THEN left ELSE right

\* __cilkrts_merge_pending_exceptions: the logically earlier one survives.
MergeExceptions(left, right) == IF left = None THEN right ELSE left

Goto(x, l) == pc' = [pc EXCEPT ![x] = l]

Init ==
  /\ spawned = 0 /\ kids = <<>> /\ unsynched = FALSE /\ join_counter = 1
  /\ reducer_map = [x \in All |-> <<>>]
  /\ right_reducer_map = [i \in Kids |-> <<>>]
  /\ children_reducer_map = <<>>
  /\ pending_exception = [x \in All |-> None]
  /\ right_pending_exception = [i \in Kids |-> None]
  /\ child_pending_exception = None
  /\ pc = [x \in All |-> IF x = 0 THEN "run" ELSE "new"]
  /\ updates = {} /\ thrown = {}
-----------------------------------------------------------------------------
(***************************************************************************)
(* User code.                                                              *)
(***************************************************************************)
Running(x) == pc[x] = "run" /\ pending_exception[x] = None

\* A strand updates the reducer in its worker's map (__cilkrts_hyper_lookup).
Update(x) ==
  /\ Running(x)
  /\ Strand(x) \notin updates
  /\ reducer_map' = [reducer_map EXCEPT ![x] = Append(@, Strand(x))]
  /\ updates' = updates \cup {Strand(x)}
  /\ UNCHANGED <<tree, right_reducer_map, children_reducer_map, exceptions,
                 join_counter, pc, thrown>>

Throw(x) ==
  /\ Running(x) /\ Cardinality(thrown) < MaxThrows
  /\ x = 0 => unsynched
  /\ pending_exception' = [pending_exception EXCEPT ![x] = Strand(x)]
  /\ thrown' = thrown \cup {Strand(x)}
  /\ UNCHANGED <<tree, maps, right_pending_exception, child_pending_exception,
                 join_counter, pc, updates>>

\* The parent spawns a child and its continuation is stolen: the child is
\* linked as the rightmost, its worker keeps the map, the thief starts with none.
StolenSpawn ==
  /\ Running(0) /\ spawned < N
  /\ spawned' = spawned + 1
  /\ kids' = Append(kids, spawned + 1)
  /\ reducer_map' = [reducer_map EXCEPT ![0] = <<>>, ![spawned + 1] = reducer_map[0]]
  /\ unsynched' = TRUE
  /\ join_counter' = join_counter + 1
  /\ Goto(spawned + 1, "run")
  /\ UNCHANGED <<right_reducer_map, children_reducer_map, exceptions, history>>
-----------------------------------------------------------------------------
(***************************************************************************)
(* A child i returns to its stolen parent.                                 *)
(***************************************************************************)

\* Mutant: siblings are not looked at.
LeftOfParent(i) == 0

\* Where child i is linked.
Place(i) == CHOOSE j \in DOMAIN kids : kids[j] = i

\* compute_left_ptrs_for_spawn_return: the left sibling, or 0 for the parent.
LeftOf(i) == IF Place(i) = 1 THEN 0 ELSE kids[Place(i) - 1]

LeftMap(l) == IF l = 0 THEN children_reducer_map ELSE right_reducer_map[l]

\* Deposit map m at the left l, right map r at child i.
Deposit(l, m, i, r) ==
  /\ children_reducer_map' = IF l = 0 THEN m ELSE children_reducer_map
  /\ right_reducer_map' = [k \in Kids |-> IF k = l THEN m
                                          ELSE IF k = i THEN r ELSE right_reducer_map[k]]

\* splice_exceptions_for_spawn: the child's own, then those to its right.
SpliceExceptions(i, l) ==
  LET left == IF l = 0 THEN child_pending_exception ELSE right_pending_exception[l]
      m == MergeExceptions(MergeExceptions(left, pending_exception[i]),
                           right_pending_exception[i]) IN
  /\ child_pending_exception' = IF l = 0 THEN m ELSE child_pending_exception
  /\ right_pending_exception' = [k \in Kids |-> IF k = l THEN m
                                   ELSE IF k = i THEN None ELSE right_pending_exception[k]]
  /\ pending_exception' = [pending_exception EXCEPT ![i] = None]

\* finish_spawn_return_on_user_stack: the child is unlinked.
Finish(i) ==
  /\ kids' = SubSeq(kids, 1, Place(i) - 1) \o SubSeq(kids, Place(i) + 1, Len(kids))
  /\ Goto(i, "spliced")

\* Cases 0, 1, 2 and 4 of the three maps left, middle, right: at most one has
\* to be moved.
Trivial(i) ==
  \/ reducer_map[i] = <<>> /\ right_reducer_map[i] = <<>>
  \/ LeftMap(LeftOf(i)) = <<>> /\ (reducer_map[i] = <<>> \/ right_reducer_map[i] = <<>>)

FastPath(i) ==
  LET l == LeftOf(i) IN
  /\ pc[i] = "run" /\ Trivial(i)
  /\ Deposit(l, LeftMap(l) \o reducer_map[i] \o right_reducer_map[i], i, <<>>)
  /\ reducer_map' = [reducer_map EXCEPT ![i] = <<>>]
  /\ SpliceExceptions(i, l)
  /\ Finish(i)
  /\ UNCHANGED <<spawned, unsynched, join_counter, history>>

\* One turn of the slow path.  The maps are slid to the left; if a middle map
\* is left all three are taken out, the lock is released, and they are merged
\* into the worker's map; otherwise the child is done.
SlowPath(i) ==
  LET l == LeftOf(i)
      left == IF LeftMap(l) = <<>> THEN reducer_map[i] ELSE LeftMap(l)
      m1 == IF LeftMap(l) = <<>> THEN <<>> ELSE reducer_map[i]
      middle == IF m1 = <<>> THEN right_reducer_map[i] ELSE m1
      right == IF m1 = <<>> THEN <<>> ELSE right_reducer_map[i] IN
  /\ \/ pc[i] = "slow"
     \/ pc[i] = "run" /\ ~Trivial(i)
  /\ SpliceExceptions(i, l)
  /\ IF middle = <<>>
     THEN /\ Deposit(l, left, i, right)
          /\ reducer_map' = [reducer_map EXCEPT ![i] = <<>>]
          /\ Finish(i)
     ELSE /\ Deposit(l, <<>>, i, <<>>)
          /\ reducer_map' = [reducer_map EXCEPT ![i] = left \o middle \o right]
          /\ Goto(i, "slow")
          /\ UNCHANGED kids
  /\ UNCHANGED <<spawned, unsynched, join_counter, history>>

-----------------------------------------------------------------------------
(***************************************************************************)
(* The parent stalls at a sync, and is resumed by the last to arrive.      *)
(***************************************************************************)

\* Mutant: children that are still linked are not looked at.
LeftOfSyncParent == 0

\* compute_left_ptrs_for_sync: the rightmost child, or 0.
LeftOfSync == IF kids = <<>> THEN 0 ELSE kids[Len(kids)]

\* Fast path at a sync: nothing to deposit.
SyncFastPath ==
  /\ pc[0] = "run" /\ unsynched
  /\ reducer_map[0] = <<>> /\ pending_exception[0] = None
  /\ Goto(0, "stalled")
  /\ UNCHANGED <<tree, maps, exceptions, join_counter, history>>

\* One turn of the slow path at a sync.
SyncSlowPath ==
  LET l == LeftOfSync
      left == IF LeftMap(l) = <<>> THEN reducer_map[0] ELSE LeftMap(l)
      middle == IF LeftMap(l) = <<>> THEN <<>> ELSE reducer_map[0]
      e == MergeExceptions(IF l = 0 THEN child_pending_exception
                                    ELSE right_pending_exception[l],
                           pending_exception[0]) IN
  /\ \/ pc[0] = "slow"
     \/ /\ pc[0] = "run" /\ unsynched
        /\ reducer_map[0] # <<>> \/ pending_exception[0] # None
  /\ child_pending_exception' = IF l = 0 THEN e ELSE child_pending_exception
  /\ right_pending_exception' = [k \in Kids |-> IF k = l THEN e
                                                ELSE right_pending_exception[k]]
  /\ pending_exception' = [pending_exception EXCEPT ![0] = None]
  /\ IF middle = <<>>
     THEN /\ Deposit(l, left, 0, <<>>)
          /\ reducer_map' = [reducer_map EXCEPT ![0] = <<>>]
          /\ Goto(0, "stalled")
     ELSE /\ Deposit(l, <<>>, 0, <<>>)
          /\ reducer_map' = [reducer_map EXCEPT ![0] = left \o middle]
          /\ Goto(0, "slow")
  /\ UNCHANGED <<tree, join_counter, history>>

\* Mutant: the counter is tested before it is decremented.
LastArrivalNever == join_counter = 0

\* decjoin returns zero.
LastArrival == join_counter = 1

\* provably_good_steal after x arrived, and setup_for_execution_reducers and
\* _exceptions on the worker that resumes the parent.
Arrive(x) ==
  /\ pc[x] = IF x = 0 THEN "stalled" ELSE "spliced"
  /\ IF LastArrival
     THEN /\ unsynched' = FALSE
          /\ pending_exception' = [pending_exception EXCEPT
                                     ![0] = MergeExceptions(child_pending_exception, @)]
          /\ child_pending_exception' = None
          /\ reducer_map' = [reducer_map EXCEPT ![0] = IF children_reducer_map # <<>>
                                                       THEN children_reducer_map ELSE @]
          /\ children_reducer_map' = <<>>
          /\ pc' = [pc EXCEPT ![x] = "done", ![0] = "run"]
          /\ UNCHANGED join_counter
     ELSE /\ join_counter' = join_counter - 1
          /\ Goto(x, IF x = 0 THEN "waiting" ELSE "done")
          /\ UNCHANGED <<unsynched, reducer_map, children_reducer_map,
                         pending_exception, child_pending_exception>>
  /\ UNCHANGED <<spawned, kids, right_reducer_map, right_pending_exception, history>>
-----------------------------------------------------------------------------
UserCode == StolenSpawn \/ \E x \in All : Update(x) \/ Throw(x)

Runtime(x) == \/ x # 0 /\ (FastPath(x) \/ SlowPath(x))
              \/ x = 0 /\ (SyncFastPath \/ SyncSlowPath)
              \/ Arrive(x)

Next == UserCode \/ \E x \in All : Runtime(x)

Spec == Init /\ [][Next]_vars

\* Each worker's thread runs on.
FairSpec == Spec /\ \A x \in All : WF_vars(Runtime(x))
-----------------------------------------------------------------------------
\* The values the fields of the frames and workers hold; the join counter never
\* drops to zero unnoticed nor exceeds the children plus the worker.
TypeOK ==
  /\ spawned \in 0..N /\ kids \in Seq(Kids) /\ unsynched \in BOOLEAN
  /\ join_counter \in 1..(N + 1)
  /\ reducer_map \in [All -> Seq(0..(2 * N))]
  /\ right_reducer_map \in [Kids -> Seq(0..(2 * N))]
  /\ children_reducer_map \in Seq(0..(2 * N))
  /\ pending_exception \in [All -> 0..(2 * N) \cup {None}]
  /\ right_pending_exception \in [Kids -> 0..(2 * N) \cup {None}]
  /\ child_pending_exception \in 0..(2 * N) \cup {None}
  /\ pc \in [All -> {"new", "run", "slow", "stalled", "waiting", "spliced", "done"}]
  /\ updates \subseteq 0..(2 * N) /\ thrown \subseteq 0..(2 * N)

\* Every element of s is less than every element of t.
Before(s, t) == \A a \in Content(s), b \in Content(t) : a < b

\* The places of the frame from left to right: what finished children left
\* (place 0), the children that are linked, and the worker on the frame.
Places == 0..(Len(kids) + 1)

\* The maps at each place.
View(j) == IF j = 0 THEN children_reducer_map
           ELSE IF j > Len(kids) THEN reducer_map[0]
           ELSE reducer_map[kids[j]] \o right_reducer_map[kids[j]]

\* No update is lost, duplicated or combined out of the serial order, whatever
\* the children and the parent deposit while a reduction has the lock released.
ViewsInOrder ==
  /\ \A j \in Places : Increasing(View(j))
  /\ \A j, k \in Places : j < k => Before(View(j), View(k))
  /\ UNION {Content(View(j)) : j \in Places} = updates

\* A frame that is synched has every update in the map of its worker.
SynchedMap ==
  pc[0] = "run" /\ ~unsynched
    => Increasing(reducer_map[0]) /\ Content(reducer_map[0]) = updates

\* The pending exceptions at each place, left to right.
Exc(e) == IF e = None THEN <<>> ELSE <<e>>
Pending(j) == IF j = 0 THEN Exc(child_pending_exception)
              ELSE IF j > Len(kids) THEN Exc(pending_exception[0])
              ELSE Exc(pending_exception[kids[j]]) \o Exc(right_pending_exception[kids[j]])

\* The exception a serial execution would have thrown first is never discarded
\* or overtaken: it is the leftmost pending one, which the frame rethrows after
\* the sync.
FirstExceptionKept ==
  thrown # {} =>
    \E j \in Places :
      /\ Pending(j) # <<>> /\ \A k \in Places : k < j => Pending(k) = <<>>
      /\ \A s \in thrown : Pending(j)[1] <= s

\* Merging with the lock released comes to an end: every sync is crossed.
SyncCrossed == (pc[0] # "run") ~> (pc[0] = "run")
=============================================================================
