# Verification of the Cilk runtime

This directory holds TLA+ models of the work-stealing runtime in
`src/cilkrts/runtime` and of the task pool of oneTBB, the runtime it is compared
with; the TLC configurations that check them on small instances; and TLAPS
proofs for the deque, the reducer protocol, the signal tree, the fiber pools and
`cilk_for`. The Unix build is the one modelled. Line numbers refer to `src/cilkrts/runtime/scheduler.c`
unless another file is named; `PROJECT.json` maps every definition to the lines
it models.

## 1. The system

A Cilk program runs on *workers*: `P - 1` system workers, which the runtime
starts, and one user worker for each thread of the program that enters Cilk.
A `cilk_spawn` puts the continuation of the spawning function on the worker's
deque and runs the child; an idle worker steals the oldest continuation of
another one. A `cilk_sync` waits for the children.

| Part | Code | State | Operations | What makes it hard |
|---|---|---|---|---|
| Deque, THE protocol | `cilk_fake.h`, `cilk-abi.c`, `scheduler.c`, `worker_mutex.c` | `head tail exc protected_tail ltq`, worker lock, steal lock, `do_not_steal`, `frame_ff` | push, pop, slow-path pop, pop on an exception, steal, promote, disallow/restore stealing, lock, trylock | owner without a lock against thieves with one; order of single loads and stores; an unfair mutex |
| Full frame tree | `scheduler.c`, `full_frame.c`, `local_state.c`, `cilk-abi.c` | frames with parent, children, join counter, sync master, two fibers; per worker `frame_ff`, `next_frame_ff`, team, last full frame | bind, spawn, call, return (spawn, call, initial), sync, provably good steal, detach for steal, change of team, replay waits | who brings a counter to zero; which worker and which stack resumes a frame; several user threads |
| Reducers and exceptions | `scheduler.c`, `reducer_impl.cpp`, `except-gcc.cpp` | maps and pending exceptions of the worker, to the right of each child, and of the children | update, throw, return of a child (fast/slow), sync (fast/slow), resume | the frame lock is released while user code reduces |
| Sleep, wake, start, stop | `scheduler.c`, `signal_node.c`, `sysdep-unix.c`, `cilk-abi.c`, `cilk_api.c`, `global_state.cpp` | published, `workers_running`, `work_done`, `Q`, signal nodes, semaphores, global OS mutex | init, start, bind, unbind, wake, sleep, suspend, resume, end, join | messages down a tree while it changes its mind; lost wakeups; unlocked tests at binding |
| Fiber pools | `cilk_fiber.cpp`, `global_state.cpp` | two levels of pools, totals and limits | allocate, give back, move to the root pool, free, destroy | totals that go negative; limits across concurrent transfers; a test without the lock |
| oneTBB task pool | `oneTBB/src/tbb/arena_slot.h`, `.cpp`, `mailbox.h`, `arena.h`, `arena.cpp` | `head tail task_pool`, cells with holes, proxies, mailbox, `my_pool_state` | spawn, get, steal, relocate, mail, advertise, snapshot | owner against thieves with omitted tasks; a proxy in two places; a snapshot without a lock |
| Reducer map | `reducer_impl.cpp` | hash table | lookup, insert, rehash, merge | data structure |
| Frame allocator | `frame_malloc.c` | free lists per worker and global | allocate, free, batch transfer | limits |
| Record and replay | `record-replay.cpp` | log, per-worker position | record, match, wait | waits inserted in the scheduler |
| Pedigrees | `pedigrees.c` | rank and parent | bump on spawn and sync | must not depend on the schedule |
| `cilk_for` | `cilk-abi-cilk-for.cpp` | none | grain size, recursive halving | counter width |

They interact as follows. The deque decides *who* runs a continuation; the tree
records it and decides who resumes a frame that was suspended; the reducer
protocol runs when a child returns to a stolen parent and at a sync, before the
join counter is decremented; the signal tree decides which workers look for
work at all.

The fiber pools supply the stack a thief needs before it steals; `cilk_for` is
code above the spawn tree, whose spawns are those of `SpawnTree`.

The repository also contains the rest of oneTBB, benchmark programs, compiler
shims and experiment scripts. They run on or beside the runtime and are not
modelled.

### What has to be right

* Deque: each continuation is run exactly once; a steal finds what it takes;
  the owner is not starved.
* Tree: join counters are exact; a sync is crossed once, after all children,
  on the right stack and the right thread; every computation returns.
* Reducers: no update lost, doubled or reordered; the serially first exception
  is the one rethrown.
* Fiber pools: no stack is handed out twice or lost, the user's limit on stacks
  holds, and shutdown gives all of them back.
* `cilk_for`: every iteration runs once and the loop ends.
* oneTBB task pool: every task runs once, wherever it is spawned, omitted,
  moved, mailed or stolen; isolation holds; work is not forgotten.
* Signal tree: no wakeup is lost, workers sleep when nobody is in Cilk,
  shutdown ends, and entering and ending Cilk exclude each other.

## 2. Modules

| Module | Role |
|---|---|
| `WorkQueue` | abstract: a queue with atomic push, pop and steal |
| `TheDeque` | one worker's deque, every shared load and store a step |
| `ForkJoin` | abstract: fork-join execution of a tree of functions |
| `SpawnTree` | workers, full frames, teams, fibers; refines `ForkJoin` |
| `ReducerProtocol` | one frame, its stolen children, their maps and exceptions |
| `SignalTree` | start, sleep, wake and stop of system workers; entering and ending Cilk |
| `FiberPool` | the pools of fibers of the workers and the root pool |
| `CilkFor` | grain size and recursive halving of a loop, in a counter of finite width |
| `TaskPool` | an arena slot of oneTBB with proxies, a mailbox and the arena's state |
| `SerialOrder` | sequences and places that hold strands in serial order, for `ReducerProtocol` and its proofs |
| `TheDequeProofs` | proofs about `TheDeque` |
| `SerialOrderProofs`, `ReducerStrands`, `ReducerSteps`, `ReducerProofs` | proofs about `SerialOrder` and `ReducerProtocol` |
| `SignalTreeProofs`, `FiberPoolProofs`, `CilkForProofs` | proofs about `SignalTree`, `FiberPool` and `CilkFor` |
| `MC...` | instances for TLC |

The modules are stacked by abstraction. `SpawnTree` takes a steal or a pop as
one step because `TheDeque` refines `WorkQueue`, whose operations are atomic.
`ReducerProtocol` looks at one frame of the tree and refines the moment between
a child's last instruction and its decrement of the join counter. `SignalTree`
leaves out what workers do when they have work.

### TheDeque

Pointers into the array `ltq` are offsets, continuations are numbered in the
order they are pushed. The owner is at one of ten places (`pc`), each thief at
one of fourteen (`tpc`), which are the points between two shared accesses:

* push: `DetachStore`, `DetachPublish` (`__cilk_fake_detach`);
* pop: `UndoDetachStore`, `UndoDetachCheck` (`__cilkrts_undo_detach`), with the
  locked `THEExceptionCheck` behind it, and `PopTail` when a spawned function
  returns with an exception;
* the worker lock: `SetDoNotSteal`, `AcquireLock`, `ReleaseLock`,
  `ClearDoNotSteal`, in the order of the code (the flag is cleared after the
  release);
* a thief: the unlocked quick check, `worker_trylock_other` in four steps, the
  look at the victim, `increment_E`, the two loads of `can_steal_from`, then
  either `DetachForSteal` or `DecrementE`;
* `LeaveFrame` clears `frame_ff` without a lock, as `run_scheduling_stack_fcn`
  does; `DisallowStealing` and `RestoreStealing` set `protected_tail`.

No push compares `tail` with `ltq_limit`: `DetachStore` writes wherever `tail`
points, also beyond the `LtqSize` slots of the array. What lies there is
idealised: the words a behaviour can reach (`Slot`) keep what the owner puts into
them, as memory that nobody else uses would. So the model says what the protocol
does in an overrun, not what the overrun destroys.

Between the store and the load on either side the code has a full fence; that
is why an interleaving of single accesses is a sound memory model here. User
code may do anything at `pc = "user"`: push, pop (also from an empty deque, as
a spawned function whose parent was stolen does), throw, sync.

### SpawnTree

A function instance is a number. `stack[w]` is the chain of active instances of
a worker from the one that its full frame stands for to the current one; the
deque is derived from it (`HeadOfDeque`). `home[f]` is a history variable: the
fiber the instance was started on. The steps under a frame lock are one action.
A thief takes the victim's worker lock (`TryLock`), looks at the team
(`CheckTeam`), and then steals or fails; in between the victim goes on.
`DetachForSteal` promotes the chain of called frames down to the looted one.
`SpawnReturn` and `Sync` run on the user stack and leave the frame to the
scheduler, where `DoReturnFromSpawn` and `DoSync` decrement the counter
(`ProvablyGoodSteal`). With `Replay`, the worker that the log names as the one
to continue waits and tries again (`WaitForContinue`, `RetrySync`); the log
itself is a nondeterministic choice.

### ReducerProtocol

A parent and its children `1..N` from left to right. A map is the sequence of
*strands* whose updates it holds: merging concatenates, so the order of views
can be read off. `SlowPath` and `SyncSlowPath` are one turn of the loops at
3624 and 3816: slide maps to the left, take all three out, release the lock.
The merge itself happens while others run; its result is in the worker's map
when the loop takes the lock again. `Arrive` is the decrement, and for the last
one the resumption of the parent.

### SignalTree

Each system worker `n` signals `2n + 1` and `2n + 2`. `signal_node_msg(_, 1)`
is a store and then a post, in two steps; `signal_node_wait` is a test and then
a wait. A thread that finds all slots taken gets an overflow worker. What is
done under the global OS mutex is one step, unless it posts or joins.
`__cilkrts_suspend` needs a worker, counted or overflow; `__cilkrts_resume` asks
for none, so any thread in user code may call it, and returns to where it was.
It takes no lock: if Cilk is ended between its store and its post, the thread is
left with a freed node (`"dangling"`). A call of `__cilkrts_bug`, or a use of
freed state, is recorded in `failed` and ends the behaviour.

### FiberPool

A pool is the set of the fibers in its array and its `total`. An allocation
searches the worker's pool and then the root pool (`at`); a fiber is counted
(`CountNew`) before the heap is asked with the lock released, and the count is
taken back if the heap has none (`HeapFails`). A fiber that comes back to a full
pool waits in `back` while the root pool is tested without its lock
(`TestParent`), fibers and a negative total are moved there (`MoveToParent`),
and the rest is freed in batches (`MakeRoom`, `deallocate_to_heap`). Any worker
may give back any fiber, as after a steal. Destruction runs the same code with
`closing` set. `LocalSize`, `GlobalSize` and `StackLimit` are computed from the
user's settings as `cilkg_init_global_state` does.

### CilkFor

An active call of `cilk_for_recursive` is a range. `Spawn` replaces it by two,
which go on in any order: that is all the schedule can influence. Arithmetic
wraps at `CountRange`, which stands for 2^32 or 2^64; `GrainCap` is the 2048 of
the code.

### TaskPool

The positions of the pool are `cells`; a hole is `NULL`, a position nobody may
read is `Poisoned`, as a build with assertions makes it. The owner's `get_task`
is `GetTask`, `DecrementTail`, `CheckHead`, `Acquire` (under the lock), `TakeAtT`
and `FinishGetTask`, which restores bounds and leaves a hole if tasks were
omitted because of isolation. A thief's `steal_task` is `LockTaskPool`,
`IncrementHead`, `CheckTail` and one of `BackOff`, `SkipHole`, `Omit`, `Take`,
then `UnlockTaskPool`. `Spawn` may mail a proxy; `Extracted` is the
compare-and-swap on its tag. Both sides go on to `advertise_new_work`
(`LoadState`, `MarkFull`, `MarkAgain`), against a thread that takes a snapshot
(`BeginSnapshot` ... `EndSnapshot`). `raced` is a history variable. The model is
sequentially consistent; the code's fences are at `--tail` and `++head`, and the
one it leaves out on purpose, when spawning, only concerns wakeups.

## 3. What is checked

`cd tla; tlc -workers 2 -config X.cfg M`. State counts are of the instances in
the configurations.

| Run | Configuration | Instance | Distinct states |
|---|---|---|---|
| `deque` | `MCTheDeque.cfg` | 1 owner, 2 thieves, 2 slots, 3 pushes | 223,076 (up to dead values) |
| `spawn_tree` | `MCSpawnTree.cfg` | 2 users, 2 system workers, 5 functions, replay | 541,621 (with symmetry) |
| `spawn_tree_live` | `MCSpawnTreeLive.cfg` | 1 user, 2 system workers, 4 functions | 15,315 |
| `reducers` | `MCReducer.cfg` | 3 stolen children, 2 throwing strands | 293,426 |
| `signal_tree` | `MCSignalTree.cfg` | 3 system workers, 3 threads, 2 slots, suspends | 2,303,154 (with symmetry) |
| `signal_tree_live` | `MCSignalTreeLive.cfg` | 3 system workers, 2 threads, 2 slots | 174,422 |
| `fiber_pool` | `MCFiberPool.cfg` | 2 workers, at most 10 stacks, pools of 2 and 6 | 29,683 (up to the names of fibers) |
| `cilk_for` | `MCCilkFor.cfg` | up to 12 iterations, 6 grain requests | 28,951 |
| `task_pool` | `MCTaskPool.cfg` | owner, thief, recipient and watcher, 3 tasks, pool of 2 | 1,833,883 |

**Deque.** `ExactlyOnce`: every continuation ever pushed is unclaimed, returned
to or stolen, and only one of these. `ExcTracksHead`: `exc` is `head`, plus one
exactly while a thief is between `increment_E` and its resolution, so the owner
takes the slow path only against a real thief. `DetachIsSound`: a thief that
passed the protocol finds a frame although `frame_ff` is cleared without a
lock, and takes a slot of the array although pushes may have gone beyond it. `GuardedNotStolen`: what is pushed after stealing was disallowed is not
stolen. `AtMostOneBypass` and `OwnerGetsLock`: `do_not_steal` bounds how often
the owner is overtaken, and it gets its lock. `ImplementsWorkQueue`: the
refinement.

**Tree.** `JoinCounts` gives the meaning of a join counter: live children plus
a worker that holds the frame. `HeldOnce`: no frame is in two hands, and none is
in nobody's unless a child will resume it. `SyncWaits`: no sync is crossed while
a child lives, also when replaying. `RunsOnHomeStack`, `FibersDisjoint`: after a
sync a function is back on the stack it started on, and no stack is recorded in
two frames. `NextFrameKept`: the unlocked push into the leader's one-element
queue never overwrites a frame. `TeamIsTree`, `LeaderCrossesLastSync`: workers
stay with their team's computation, and it ends on the thread that began it.
`ImplementsForkJoin`: the refinement. `InitialReturns`: every computation ends.

**Reducers.** `ViewsInOrder`: the maps of a frame read from left to right hold
every update once and in serial order, in every state, also while a merge is
under way. `SynchedMap`: after the sync they are all in the worker's map.
`FirstExceptionKept`: the serially first exception is never dropped or
overtaken. `SyncCrossed`: the loops that merge with the lock released end.

**Signal tree.** `NoLostWakeup`: a worker that waits on its semaphore although
it should run has a post coming. `ChildrenRoused`: a worker that searches, works
or has exited has told its children to run. `WorkersWake`, `WorkersSleep`, `ShutdownEnds`: what these are
for.

**Fiber pools.** `OnePlace`: a fiber that exists is with the scheduler, in one
pool or on its way, and in no pool once it is freed. `TotalsAddUp`: the totals,
negative ones included, add up to the fibers that exist, but for those counted
and not yet allocated, or taken out and not yet freed. `WithinLimits`: no array
overflows although fullness is tested without the lock, and there are never more
stacks than allowed. `HoardIsBounded`: what a worker keeps from the others,
the fibers in its pool and those it may allocate on its own account because it
freed as many, is at most its pool or the excess of the limit over the size of
the root pool, whichever is more (4 of the 10 stacks here, which is reached; see
section 5).
`CallsEnd`, `ShutdownFreesAll`: the loops end, and nothing is leaked.

**`cilk_for`.** `EachIterationOnce`: active and finished ranges partition the
iterations. `LoopEnds`: splitting makes progress, whatever the grain. (The
invariant written in `cilk_for_recursive` is `CallInvariant`, see section 5.)

**Task pool.** `ExactlyOnce`: a task is executed once, also one in a proxy.
`ProxyFreedLast`: a proxy is freed when the second of its two places lets go of
it, not before and not never. `Arbitration`: owner and thief never look at the
same position, nor anyone at a poisoned one. `InReach`: between its operations
the owner leaves no task outside `head..tail` or in an unpublished pool.
`IsolationKept`: a thread in an isolated region gets tasks of that region only.
`NoWorkForgotten`: once all is quiet, the arena is not declared empty while it
has a task, though snapshots read bounds that are being bumped. Excepted are
tasks spawned while a thief has the head above the tail: `arena.h:514-519`
accepts this for spawning, and without the exception TLC finds it.

Each module also states its types (`TypeOK`). They are part of the inductive
invariants proved for `TheDeque`, `ReducerProtocol`, `FiberPool` and `CilkFor`; in the other modules
they document the variables, and hold of the instances above when added to their
configurations.

Every property has a mutant, a plausible slip in one definition (named
`Mutant:` in the comments), under which TLC reports it violated.

### Bounds

* Deque: three pushes into two slots reach the full deque, the empty one and an
  overrun, the race for the last frame with both thieves, a reset by
  `setup_for_execution` with a thief between its checks, and reuse of a slot; the
  proofs below hold for any number of slots and pushes. `View` identifies states
  that differ in values nobody reads again: slots outside the deque, and the
  owner's last operation once it is over.
* Tree: five functions on four workers, in one computation or two, allow a called chain to be promoted, a
  frame to be stolen from twice, two children outstanding at a sync and a steal
  from a thief. There are as many fibers as functions: the pool's limit is not
  examined here.
* Reducers: with three children the middle one has a neighbour on either side,
  which is where a map can be deposited during a merge. Two strands that throw
  are what it takes for one exception to meet another.
* Signal tree: three system workers are the smallest tree in which the root has
  two children; three threads with two slots give an overflow worker beside two
  counted ones. `SemValueMax` 1 makes the limit of a semaphore reachable (the
  system's is much larger); `MaxFailures` 0 is the smallest threshold, and
  others only delay the root's look at its signal.

* Fiber pools: with at most ten stacks and pools of two and six (the sizes the
  code computes for `P` = 2) both pools get full, the limit is reached, a surplus
  moves to the root pool and a batch of two is not enough at shutdown; the heap
  may fail at any allocation. `View` identifies states that differ in the names
  of fibers only: no action and no property but `OnePlace` looks at names, and
  whether `OnePlace` holds is part of the view.
* `cilk_for`: counts up to 12 with a width of 32 values stay clear of the wrap,
  and `cilk_for_overflow` goes up to 31. With `P` = 1 and a cap of 4 the grain is
  computed, capped or requested.
* Task pool: three tasks in a pool of two force a relocation and growth, with
  holes from omitted tasks; isolation tags 0 and 1 make each side omit. One thief
  steals, because thieves exclude each other by the lock; the other thread
  receives mail or takes snapshots, not both in one behaviour.

### Fairness

Weak fairness of a thread inside the runtime stands for an operating system that
runs every thread; user code and new attempts to steal are never assumed to
happen. In `SpawnTree`, steps that take the worker's own lock compete with
thieves; strong fairness for them is what `OwnerGetsLock` establishes from weak
fairness in `TheDeque`. A function is assumed to return once it can, and a
worker to finish the work it found; without that no computation ends.
In `FiberPool` and `CilkFor` a worker goes on with the call it has begun. No
liveness is claimed of `TaskPool`: the locks of a pool are spin locks without any
order, so the code does not promise a particular thread that it gets one.
Configurations set `CHECK_DEADLOCK FALSE` where a bounded program may come to
its end (no more functions or children, or the process died); `TheDeque` is
checked for deadlock.

## 4. What is proved

`TheDequeProofs` proves, for any number of thieves, slots and pushes, from the
two assumptions of `TheDeque` (the names of the workers differ; the deque has
at least one slot):

| Theorem | Statement |
|---|---|
| `TypeCorrect` | `Spec => []TypeOK`; in it, `head <= LtqSize` and `exc <= LtqSize + 1` for any number of pushes |
| `ExactlyOnceHolds` | `Spec => []ExactlyOnce` |
| `ExcTracksHeadHolds` | `Spec => []ExcTracksHead` |
| `DetachIsSoundHolds` | `Spec => []DetachIsSound` |
| `GuardedNotStolenHolds` | `Spec => []GuardedNotStolen` |
| `AtMostOneBypassHolds` | `Spec => []AtMostOneBypass` |
| `Refinement` | `Spec => ImplementsWorkQueue` |

`ExactlyOnce` is not inductive: it says nothing of why a thief and the owner do
not take the same frame. The inductive invariant `IInv` adds

* `LockInv`: who holds the worker's lock at each place of the code;
* `IndexInv`: `head <= Top <= pushed`, where `Top` is `tail`, or one more while
  the owner has lowered `tail` and is undecided; the deque is empty at the
  places where the owner has no frame or is about to give it up;
* `ExcTracksHead`: so that an owner who saw `tail >= exc` after lowering `tail`
  knows that no thief is past its increment, and one who saw `tail < exc` waits
  for the lock;
* `ThiefInv`: a thief past its test of `tail` has `head < Top`, and one past its
  test of `protected_tail` has `head < LtqSize`;
* `FrameInv`: `frame_ff` is clear exactly while the owner is in the scheduler;
* `ContentInv`: what the slots between `head` and `Top` hold.

Each step has one of four effects on the unclaimed continuations (`Quiet`,
`PushTop`, `TakeTop`, `TakeHead`), proved per action once; both `ContentInv`
and the refinement follow from the effect alone, with lemmas about a slice of
an array read as a sequence. `GuardInv` and `HandshakeInv` strengthen the two
properties that need more.

`ReducerProofs` proves, for any number of stolen children and of strands that
throw, from `ReducerAssumption` (an exception is not `None`):

| Theorem | Statement |
|---|---|
| `ReducerInvariance` | `Spec => []ReducerInv` |
| `ViewsInOrderHolds` | `Spec => []ViewsInOrder` |
| `SynchedMapHolds` | `Spec => []SynchedMap` |
| `FirstExceptionKeptHolds` | `Spec => []FirstExceptionKept` |

`ViewsInOrder` is not inductive: it does not say that the next update of a child
that still runs fits where the child is, nor what children hold that are not
linked. `ReducerInv` names the places of a frame by the child (`Spots`) instead
of by the position, which changes when a sibling is unlinked, and says

* `KidsInv`: the linked children are those that run or merge, in spawn order, and
  the others hold nothing;
* `ParentInv`: the join counter counts the children that have not arrived and the
  worker until it waits (as an enumeration, `Enumerated`), and a worker that
  stalls holds nothing;
* `MapInv`: the strands at the places are in serial order (`Serial`), all updates
  are there, and `2g - 1`, the strand of a running child `g`, fits at its place;
* `ThrowInv`: the same for pending exceptions, of which the first one thrown is
  still there.

`SerialOrderProofs` has the three ways in which places change: a place hands what
it holds to its left neighbour (`SerialShift`), a strand is added where it fits
(`SerialAdd`), a place is inserted at the right end (`SerialSpawn`). Both paths
of a return are one move of this kind (`PathIsMove`), and so is a turn of the
loop at a sync (`SyncPathIsMove`). `ReducerStrands` states the invariant and shows
that user code and a sync with nothing to deposit keep it, `ReducerSteps` does so
for the moves, `ReducerProofs` for steals and arrivals.

`FiberPoolProofs` proves `FiberInvariance` and `OnePlaceHolds`
(`Spec => []OnePlace`) for any finite set of fibers and any workers and settings
that satisfy `FiberPoolAssumption`. `OnePlace` needs one fact beside the types (`Quiet`): `back` and
`to_free` are empty at the places of a call where the code has handed them on.
One lemma per group of actions (`AllocateKeeps`,
`ReturnKeeps`, `ReleaseKeeps`) keeps the invariant.

`SignalTreeProofs` proves `WakeInvariance`, `NoLostWakeupHolds`
(`Spec => []NoLostWakeup`) and `ChildrenRousedHolds` (`Spec => []ChildrenRoused`)
for any number of workers, threads and slots and any limit of the semaphores,
from `SignalTreeAssumption`. The inductive invariant `WakeInv` says which
children a worker has told at each place of `notify_children` (`ToldRun`; no
other worker writes their words, since a worker has one parent), and that it
posts only to a child it has (`PostsToChild`), and that no worker's thread exists
unless `workers_running` (`NotRunning`, needed where ending Cilk takes a post
away from a thread that is resuming). The system workers' steps are
taken one by one (`WorkerWakes`). A thread writes the root's node only, so its
steps need only show that the root is not left asleep with its word set
(`RootOnly`, used by `NodesKept`, `RootPosted` and `ThreadWakes`). Nothing is
needed about `Q` or the mutex: a wakeup survives whatever the other threads do,
including the shutdowns of `signal_tree_bind`.

`CilkForProofs` proves `LoopInvariance` and `EachIterationOnceHolds`
(`Spec => []EachIterationOnce`) for every width, trip count, grain and number of
workers. The inductive form is `Partition`: each iteration is in exactly one
range, which survives an empty range, and ranges lie within the loop
(`SpawnKeeps`, `MidInRange`). It does not
need the grain to be positive, so it also covers the counts of
`cilk_for_overflow`: no iteration is run twice even there; the loop just does not
end.

Only model-checked: all liveness properties (fairness and `ENABLED` are out of
the prover's reach), the other properties of `FiberPool` and `CilkFor` (sums
over pools are recursive), and the properties of `SpawnTree` and `TaskPool` (its relocation copies with `SelectSeq`, whose result for every
pool needs induction over the sequence).

## 5. Where code and comments disagree

* `spawn_tree_replay_sync`: when a log is replayed and a worker has to wait at a
  sync, `do_sync` (2292) reads `frame_ff` again, which was cleared before
  (`local_state.c:68`), and goes on with a null frame. The loop of
  `do_return_from_spawn` keeps its frame and has no such problem.
* `signal_tree_bind`: the comment in `cilk_api.c` says the mutex protects
  against a thread that binds meanwhile; the tests at 3196 and 3238 are made
  outside it.

* `cilk_for_overflow`: `grainsize` adds `8P - 1` to the count in the type of the
  count (`cilk-abi-cilk-for.cpp:107`). Within `8P - 1` of the largest count this
  wraps, and the grain is 0, although line 92 wants to avoid that and line 256
  states `grain >= 1`. A call with one iteration then spawns an empty range and
  goes on with itself, for ever.

Three more, for which no run is kept:

* Comments at 2808-2810 and 2829-2830 say that a thief proceeds only if
  `head + 1 < protected_tail`; `can_steal_from` (587) tests
  `head < protected_tail`. `GuardedNotStolen` is proved for the code's test, with
  the bound `ltq` that the runtime itself passes, so the comment is off.
* `cilk_api.h:188` says that `__cilkrts_end_cilk` waits for other threads. It
  aborts if `Q` counts one, and does not see threads on overflow workers, under
  which it frees the state.
* `global_state.cpp:534-537` says that with a limit on stacks "each worker gets up
  to one stack in its cache so that no one worker can hog all of the free stacks".
  The code gives it up to `max_stacks / P` (552-553), and a worker can have all
  the stacks that are free: in `MCFiberPool.cfg` one worker allocates all ten and
  gives two back, which stay in its pool while the other worker is refused. The
  surplus of stacks it freed for others comes on top. What does hold is
  `HoardIsBounded`; it gives exactly the one stack of the comment when the limit
  is below `2P`.

## 6. What is not modelled

* In modelled components: exceptions thrown by reduce functions; the promotion
  of the own deque in the tree (`CILK_FORCE_REDUCE`; `scheduler.h` says it is
  known to fail with more than one worker); the text of a replay log; pedigrees
  around a `cilk_for` body; the linked list inside a oneTBB mailbox, its idle flag
  and the demand told to the market.
* Sequential data structures and machine-level code: the reducer hash map, the
  frame allocator (free lists per size, like the fiber pools without their
  limits), variable-length arrays, stack switching, pedigree lists, statistics,
  bug reports, system calls, the Windows port.
* The rest of oneTBB (market, task streams, concurrent monitor, containers,
  algorithms, allocator), the benchmarks of `cilk5`, `gbbs` and `miniFE`, the
  compiler shims and the experiment scripts. They are most of the lines of the
  repository and either systems of their own or programs without shared state of
  their own; the models cover the scheduler cores, a few percent of all lines.

Worth doing next: a proof of `JoinCounts` for `SpawnTree`.
