----------------------------- MODULE SpawnTree -----------------------------
(***************************************************************************)
(* The tree of full frames of src/cilkrts/runtime/scheduler.c: how frames  *)
(* are promoted when work is stolen, how join counters, the one-element    *)
(* next-frame queues, teams and sync masters decide which worker resumes a *)
(* frame, and on which fiber (stack) it is resumed.                        *)
(*                                                                         *)
(* A Cilk function instance is a number f \in Fns.  stack[w] is the chain  *)
(* of instances active on worker w, from the one w's full frame stands for *)
(* (frame_ff) to current_stack_frame; it is empty when frame_ff is NULL.   *)
(* The deque of w holds the instances of stack[w] that are followed by a   *)
(* spawned one, oldest first.  Taking from it is atomic here: TheDeque     *)
(* shows the THE protocol to be a queue.  A section of code under a frame  *)
(* lock is one action.                                                     *)
(***************************************************************************)
EXTENDS Naturals, Sequences, FiniteSets

CONSTANTS Users,     \* user workers, one per thread that enters Cilk
          System,    \* system workers
          NoOne,     \* NULL, where a worker or a fiber is expected
          Fibers,    \* names for the fibers of the pool
          Replay,    \* TRUE when a recorded log is replayed
          MaxFns     \* bound: function instances created

Workers == Users \cup System

Fns == 1..MaxFns

NULL == 0            \* no full frame

ASSUME SpawnTreeAssumption ==
  /\ NoOne \notin Workers \cup Fibers
  /\ Users \cap System = {} /\ Users \cap Fibers = {}
  /\ Replay \in BOOLEAN /\ MaxFns \in Nat

VARIABLES made, parent, kind, tree, done,      \* the program, as in ForkJoin
          home,            \* the fiber an instance was started on
          unsynched,       \* instances with CILK_FRAME_UNSYNCHED set
          full,            \* instances that have a full frame
          join_counter, children, sync_master, fiber_self, fiber_child,
          stack, next_frame_ff, team, last_full_frame,
          lock,            \* lock[w]: the thief that holds w's worker lock
          pc, suspended    \* where w is, and the frame it passes to the runtime

program == <<made, parent, kind, tree, done, home>>
frames == <<unsynched, full, join_counter, children, sync_master,
            fiber_self, fiber_child>>
workers == <<stack, next_frame_ff, team, last_full_frame, lock, pc, suspended>>
vars == <<program, frames, workers>>

Live == (1..made) \ done

Current(w) == stack[w][Len(stack[w])]

\* w->l->frame_ff
FrameFF(w) == IF stack[w] = <<>> THEN NULL ELSE stack[w][1]

\* The position in stack[v] of the frame at the head of v's deque.
HeadOfDeque(v) ==
  {i \in 1..(Len(stack[v]) - 1) :
     /\ kind[stack[v][i + 1]] = "spawn"
     /\ \A j \in 2..i : kind[stack[v][j]] # "spawn"}

FreeFibers == Fibers \ ({fiber_self[f] : f \in Fns} \cup {fiber_child[f] : f \in Fns})

\* A thief allocates a fiber before it tries; every thief under way holds one.
CanAllocateFiber ==
  Cardinality(FreeFibers) > Cardinality({w \in Workers : pc[w] \in {"check_team", "dekker"}})

InUserCode(w) == pc[w] = "user"

Goto(w, l) == pc' = [pc EXCEPT ![w] = l]

Init ==
  /\ made = 0 /\ done = {} /\ unsynched = {} /\ full = {}
  /\ parent = [f \in Fns |-> 0]
  /\ kind = [f \in Fns |-> "none"]
  /\ tree = [f \in Fns |-> NoOne]
  /\ home = [f \in Fns |-> NoOne]
  /\ join_counter = [f \in Fns |-> 0]
  /\ children = [f \in Fns |-> <<>>]
  /\ sync_master = [f \in Fns |-> NoOne]
  /\ fiber_self = [f \in Fns |-> NoOne]
  /\ fiber_child = [f \in Fns |-> NoOne]
  /\ stack = [w \in Workers |-> <<>>]
  /\ next_frame_ff = [w \in Workers |-> NULL]
  /\ team = [w \in Workers |-> NoOne]
  /\ last_full_frame = [u \in Users |-> NULL]
  /\ lock = [w \in Workers |-> NoOne]
  /\ pc = [w \in Workers |-> IF w \in Users THEN "unbound" ELSE "idle"]
  /\ suspended = [w \in Workers |-> NULL]
-----------------------------------------------------------------------------
(***************************************************************************)
(* Compiled code on a worker.                                              *)
(***************************************************************************)

\* A new instance f starts on worker w, on fiber fb.
NewFn(w, f, p, k, fb) ==
  /\ f \in Fns
  /\ made' = f
  /\ parent' = [parent EXCEPT ![f] = p]
  /\ kind' = [kind EXCEPT ![f] = k]
  /\ tree' = [tree EXCEPT ![f] = IF p = 0 THEN w ELSE tree[p]]
  /\ home' = [home EXCEPT ![f] = fb]
  /\ stack' = [stack EXCEPT ![w] = Append(@, f)]
  /\ UNCHANGED done

\* A user thread enters Cilk: a full frame for its initial function, on the
\* thread's own stack.
BindThread(u) ==
  /\ pc[u] = "unbound"
  /\ NewFn(u, made + 1, 0, "initial", u)
  /\ full' = full \cup {made + 1}
  /\ join_counter' = [join_counter EXCEPT ![made + 1] = 1]
  /\ fiber_self' = [fiber_self EXCEPT ![made + 1] = u]
  /\ team' = [team EXCEPT ![u] = u]
  /\ Goto(u, "user")
  /\ UNCHANGED <<unsynched, children, sync_master, fiber_child, next_frame_ff,
                 last_full_frame, lock, suspended>>

\* cilk_spawn (__cilkrts_detach pushes the caller on the deque) or a plain call.
Enter(w, k) ==
  /\ InUserCode(w)
  /\ NewFn(w, made + 1, Current(w), k, fiber_self[FrameFF(w)])
  /\ UNCHANGED <<frames, next_frame_ff, team, last_full_frame, lock, pc, suspended>>

Spawn(w) == Enter(w, "spawn")
Call(w) == Enter(w, "call")

\* The current instance is synched and about to leave its frame.
Leaving(w, k) ==
  /\ InUserCode(w)
  /\ kind[Current(w)] = k
  /\ Current(w) \notin unsynched
  /\ done' = done \cup {Current(w)}
  /\ UNCHANGED <<made, parent, kind, tree, home>>

\* Return to a parent that is still on this worker: pop it (undo_detach for a
\* spawned child).
LeaveFrame(w) ==
  /\ \E k \in {"spawn", "call"} : Leaving(w, k)
  /\ Len(stack[w]) > 1
  /\ stack' = [stack EXCEPT ![w] = SubSeq(@, 1, Len(@) - 1)]
  /\ UNCHANGED <<frames, next_frame_ff, team, last_full_frame, lock, pc, suspended>>

\* finalize_child_for_call and unconditional_steal: splice the frame f out and
\* give its fiber back to its caller p, which loses a child and gains a worker.
FinalizeChildForCall(f, p) ==
  /\ full' = full \ {f}
  /\ join_counter' = [join_counter EXCEPT ![f] = @ - 1, ![p] = (@ - 1) + 1]
  /\ children' = [children EXCEPT ![p] = SelectSeq(@, LAMBDA c : c # f)]
  /\ fiber_self' = [fiber_self EXCEPT ![f] = NoOne, ![p] = fiber_self[f]]

\* Return from a call whose caller was promoted with it: go on with the caller
\* here.
ReturnFromCall(w) ==
  LET f == FrameFF(w)
      p == parent[f] IN
  /\ Leaving(w, "call")
  /\ Len(stack[w]) = 1 /\ lock[w] = NoOne
  /\ FinalizeChildForCall(f, p)
  /\ stack' = [stack EXCEPT ![w] = <<p>>]
  /\ UNCHANGED <<unsynched, sync_master, fiber_child, next_frame_ff, team,
                 last_full_frame, lock, pc, suspended>>

\* The initial function returns to the thread that entered Cilk, which unbinds.
ReturnFromInitial(u) ==
  LET f == FrameFF(u) IN
  /\ Leaving(u, "initial")
  /\ Len(stack[u]) = 1 /\ lock[u] = NoOne
  /\ full' = full \ {f}
  /\ fiber_self' = [fiber_self EXCEPT ![f] = NoOne]
  /\ stack' = [stack EXCEPT ![u] = <<>>]
  /\ Goto(u, "unbound")
  /\ UNCHANGED <<unsynched, join_counter, children, sync_master, fiber_child,
                 next_frame_ff, team, last_full_frame, lock, suspended>>

\* Drop off into the scheduler: clear frame_ff and leave the frame to the
\* function that runs there.
LongjmpIntoRuntime(w, l) ==
  /\ suspended' = [suspended EXCEPT ![w] = FrameFF(w)]
  /\ stack' = [stack EXCEPT ![w] = <<>>]
  /\ Goto(w, l)

\* Mutant: left siblings are not looked at.
LeftmostStackNoSiblings(p, f) == fiber_child[p] = NoOne

\* Left-holder logic: f has no left sibling and no earlier child left its fiber.
LeftmostStack(p, f) == children[p][1] = f /\ fiber_child[p] = NoOne

\* A spawned child returns and finds its parent stolen.  Its fiber goes to the
\* parent if it is the leftmost one left, and is freed otherwise; the child is
\* unlinked from its siblings.
SpawnReturn(w) ==
  LET f == FrameFF(w)
      p == parent[f] IN
  /\ Leaving(w, "spawn")
  /\ Len(stack[w]) = 1 /\ lock[w] = NoOne
  /\ fiber_child' = [fiber_child EXCEPT ![p] = IF LeftmostStack(p, f) THEN fiber_self[f]
                                                                 ELSE @]
  /\ fiber_self' = [fiber_self EXCEPT ![f] = NoOne]
  /\ children' = [children EXCEPT ![p] = SelectSeq(@, LAMBDA c : c # f)]
  /\ LongjmpIntoRuntime(w, "return")
  /\ UNCHANGED <<unsynched, full, join_counter, sync_master, next_frame_ff,
                 team, last_full_frame, lock>>

\* cilk_sync in a frame that had work stolen from it: the fiber it runs on is
\* freed, it cannot be the leftmost one.
Sync(w) ==
  /\ InUserCode(w)
  /\ Current(w) \in unsynched
  /\ fiber_self' = [fiber_self EXCEPT ![FrameFF(w)] = NoOne]
  /\ LongjmpIntoRuntime(w, "sync")
  /\ UNCHANGED <<program, unsynched, full, join_counter, children, sync_master,
                 fiber_child, next_frame_ff, team, last_full_frame, lock>>
-----------------------------------------------------------------------------
(***************************************************************************)
(* The scheduler on a worker.                                              *)
(***************************************************************************)

\* Replaying a log, the worker recorded as the one that went on from this sync
\* waits until it is the last to reach it.
WaitForContinue(w, f) ==
  /\ Replay
  /\ sync_master[f] \in {NoOne, w}
  /\ join_counter[f] # 1
  /\ \A v \in Workers \ {w} :
       ~ \/ pc[v] = "wait_sync" /\ suspended[v] = f
         \/ pc[v] = "wait_return" /\ parent[suspended[v]] = f

\* Mutant: off by one.
LastToSyncEarly(f, counters) == counters[f] <= 2

\* Mutant: tests the counter before decrementing it.
LastToSyncNever(f, counters) == counters[f] = 0

\* decjoin(f) returns zero.
LastToSync(f, counters) == counters[f] = 1

\* Mutant: the sync master is ignored.
ResumeOnSelf(w, f) == w

\* The worker that resumes f after the sync.
ResumeOn(w, f) == IF sync_master[f] = NoOne THEN w ELSE team[w]

\* decjoin(f); the worker that brings it to zero takes f's own fiber back from
\* the leftmost child and queues f, at the team leader if f is to cross the
\* sync that ends the team's parallelism, otherwise on itself.
ProvablyGoodSteal(w, f, counters) ==
  LET to == ResumeOn(w, f) IN
  IF LastToSync(f, counters)
  THEN /\ unsynched' = unsynched \ {f}
       /\ fiber_self' = [fiber_self EXCEPT ![f] = fiber_child[f]]
       /\ fiber_child' = [fiber_child EXCEPT ![f] = NoOne]
       /\ last_full_frame' = [u \in Users |-> IF sync_master[f] # NoOne /\ u = to
                                              THEN NULL ELSE last_full_frame[u]]
       /\ sync_master' = [sync_master EXCEPT ![f] = NoOne]
       /\ next_frame_ff' = [next_frame_ff EXCEPT ![to] = f]
       /\ join_counter' = [counters EXCEPT ![f] = (@ - 1) + 1]
  ELSE /\ join_counter' = [counters EXCEPT ![f] = @ - 1]
       /\ UNCHANGED <<unsynched, fiber_self, fiber_child, last_full_frame,
                      sync_master, next_frame_ff>>

BackToScheduler(w) ==
  /\ Goto(w, "idle")
  /\ suspended' = [suspended EXCEPT ![w] = NULL]

DoSync(w) ==
  LET f == suspended[w] IN
  /\ pc[w] = "sync" /\ lock[w] = NoOne
  /\ \/ /\ WaitForContinue(w, f)
        /\ Goto(w, "wait_sync")
        /\ UNCHANGED <<frames, next_frame_ff, last_full_frame, suspended>>
     \/ /\ ProvablyGoodSteal(w, f, join_counter)
        /\ BackToScheduler(w)
        /\ UNCHANGED <<full, children>>
  /\ UNCHANGED <<program, stack, team, lock>>

\* do_sync's replay loop reads the frame from the worker again, where
\* LongjmpIntoRuntime cleared it; locking a null frame is the end of w.
RetrySync(w) ==
  /\ pc[w] = "wait_sync" /\ lock[w] = NoOne
  /\ Goto(w, IF FrameFF(w) = NULL THEN "null_frame" ELSE "sync")
  /\ suspended' = [suspended EXCEPT ![w] = IF FrameFF(w) = NULL THEN @ ELSE FrameFF(w)]
  /\ UNCHANGED <<program, frames, stack, next_frame_ff, team, last_full_frame, lock>>

\* Mutant: the parent's counter is decremented here as well.
ReturnCountersTwice(w, f) ==
  IF pc[w] = "return" THEN [join_counter EXCEPT ![f] = @ - 1, ![parent[f]] = @ - 1]
                      ELSE join_counter

\* decjoin(f) of the returning child, on the first attempt.
ReturnCounters(w, f) ==
  IF pc[w] = "return" THEN [join_counter EXCEPT ![f] = @ - 1] ELSE join_counter

\* do_return_from_spawn for the child f: the parent loses a child, then f is
\* destroyed.  Its replay loop comes back here with the parent still counted.
DoReturnFromSpawn(w) ==
  LET f == suspended[w]
      counters == ReturnCounters(w, f) IN
  /\ pc[w] \in {"return", "wait_return"} /\ lock[w] = NoOne
  /\ \/ /\ WaitForContinue(w, parent[f])
        /\ join_counter' = counters
        /\ Goto(w, "wait_return")
        /\ UNCHANGED <<unsynched, full, children, sync_master, fiber_self,
                       fiber_child, next_frame_ff, last_full_frame, suspended>>
     \/ /\ ProvablyGoodSteal(w, parent[f], counters)
        /\ full' = full \ {f}
        /\ BackToScheduler(w)
        /\ UNCHANGED children
  /\ UNCHANGED <<program, stack, team, lock>>

\* The scheduling loop finds a frame in the one-element queue and sets it up.
SetupForExecution(w) ==
  /\ pc[w] = "idle" /\ next_frame_ff[w] # NULL /\ lock[w] = NoOne
  /\ stack' = [stack EXCEPT ![w] = <<next_frame_ff[w]>>]
  /\ next_frame_ff' = [next_frame_ff EXCEPT ![w] = NULL]
  /\ Goto(w, "user")
  /\ UNCHANGED <<program, frames, team, last_full_frame, lock, suspended>>

\* A system worker with nothing to do leaves its team, under its own lock.
LoseTeam(w) ==
  /\ w \in System
  /\ pc[w] = "idle" /\ next_frame_ff[w] = NULL
  /\ team[w] # NoOne /\ lock[w] = NoOne
  /\ team' = [team EXCEPT ![w] = NoOne]
  /\ UNCHANGED <<program, frames, stack, next_frame_ff, last_full_frame, lock,
                 pc, suspended>>

\* Mutant: the queue is not looked at first.
TryLockIgnoresQueue(w, v) ==
  /\ pc[w] = "idle"
  /\ w \in System => team[w] = NoOne
  /\ v # w /\ lock[v] = NoOne
  /\ CanAllocateFiber /\ HeadOfDeque(v) # {}
  /\ lock' = [lock EXCEPT ![v] = w]
  /\ Goto(w, "check_team")
  /\ UNCHANGED <<program, frames, stack, next_frame_ff, team, last_full_frame, suspended>>

\* random_steal: a worker without work, which could get a fiber and whose quick
\* check found something in v's deque, gets v's worker lock.
TryLock(w, v) ==
  /\ pc[w] = "idle" /\ next_frame_ff[w] = NULL
  /\ w \in System => team[w] = NoOne
  /\ v # w /\ lock[v] = NoOne
  /\ CanAllocateFiber /\ HeadOfDeque(v) # {}
  /\ lock' = [lock EXCEPT ![v] = w]
  /\ Goto(w, "check_team")
  /\ UNCHANGED <<program, frames, stack, next_frame_ff, team, last_full_frame, suspended>>

UnlockOther(w, v) == lock' = [lock EXCEPT ![v] = NoOne]

\* Mutant: user workers steal from any team.
CheckTeamDropped(w, v) ==
  /\ pc[w] = "check_team" /\ lock[v] = w
  /\ Goto(w, "dekker")
  /\ UNCHANGED <<program, frames, stack, next_frame_ff, team, last_full_frame, lock,
                 suspended>>

\* A user worker gives up on a victim that is not on its team.
CheckTeam(w, v) ==
  /\ pc[w] = "check_team" /\ lock[v] = w
  /\ IF w \in Users /\ team[v] # w
     THEN Goto(w, "idle") /\ UnlockOther(w, v)
     ELSE Goto(w, "dekker") /\ UNCHANGED lock
  /\ UNCHANGED <<program, frames, stack, next_frame_ff, team, last_full_frame, suspended>>

\* No frame_ff, or the dekker protocol finds the deque empty.
StealFails(w, v) ==
  /\ pc[w] = "dekker" /\ lock[v] = w
  /\ HeadOfDeque(v) = {}
  /\ Goto(w, "idle")
  /\ UnlockOther(w, v)
  /\ UNCHANGED <<program, frames, stack, next_frame_ff, team, last_full_frame, suspended>>

\* Where f is in the chain s, and the counting of a Boolean.
At(s, f) == CHOOSE j \in 1..Len(s) : s[j] = f
One(b) == IF b THEN 1 ELSE 0

\* Mutant: parent_ff stays counted for the victim.
DetachJoinKeepsVictim(s) ==
  [f \in Fns |-> IF \A j \in 1..Len(s) : s[j] # f THEN join_counter[f]
     ELSE LET j == At(s, f) IN
          (IF j = 1 THEN join_counter[f] ELSE 0)
          + One(j < Len(s)) + One(j = Len(s) - 1) + One(j = Len(s))]

\* The counters of the chain s of frames from the victim's full frame over the
\* loot to the child: the first leaves the victim, each but the last gets a
\* child, the thief queues the loot and the victim runs the child.
DetachJoin(s) ==
  [f \in Fns |-> IF \A j \in 1..Len(s) : s[j] # f THEN join_counter[f]
     ELSE LET j == At(s, f) IN
          (IF j = 1 THEN join_counter[f] - 1 ELSE 0)
          + One(j < Len(s)) + One(j = Len(s) - 1) + One(j = Len(s))]

\* Mutant: a caller above the loot keeps its fiber.
DetachFibersKeepsCaller(s, fiber) ==
  [fiber_self EXCEPT ![s[Len(s)]] = fiber_self[s[1]], ![s[Len(s) - 1]] = fiber]

\* The child takes over the victim's fiber, the loot the thief's new one, and a
\* caller above the loot has none.
DetachFibers(s, fiber) ==
  [f \in Fns |-> IF \A j \in 1..Len(s) : s[j] # f THEN fiber_self[f]
                 ELSE CASE At(s, f) = Len(s) -> fiber_self[s[1]]
                        [] At(s, f) = Len(s) - 1 -> fiber
                        [] OTHER -> NoOne]

\* detach_for_steal: unroll the victim's call stack up to the looted frame into
\* full frames (the first has one already); the first steal from a user worker
\* since its team last synched makes it the loot's sync master.
DetachForSteal(w, v, i, fiber) ==
  LET s == SubSeq(stack[v], 1, i + 1)
      loot == s[i]
      master == v \in Users /\ last_full_frame[v] = NULL IN
  /\ team' = [team EXCEPT ![w] = team[v]]
  /\ full' = full \cup {s[j] : j \in 1..(i + 1)}
  /\ unsynched' = unsynched \cup {loot}
  /\ join_counter' = DetachJoin(s)
  /\ children' = [f \in Fns |-> IF \E j \in 1..i : s[j] = f
                                THEN Append(children[f], s[At(s, f) + 1])
                                ELSE children[f]]
  /\ fiber_self' = DetachFibers(s, fiber)
  /\ last_full_frame' = IF master THEN [last_full_frame EXCEPT ![v] = loot]
                                  ELSE last_full_frame
  /\ sync_master' = IF master THEN [sync_master EXCEPT ![loot] = v] ELSE sync_master
  /\ next_frame_ff' = [next_frame_ff EXCEPT ![w] = loot]
  /\ stack' = [stack EXCEPT ![v] = SubSeq(@, i + 1, Len(@))]
  /\ UNCHANGED <<fiber_child, program>>

\* The dekker protocol succeeds.
Steal(w, v) ==
  /\ pc[w] = "dekker" /\ lock[v] = w
  /\ \E i \in HeadOfDeque(v) :
       DetachForSteal(w, v, i, CHOOSE fb \in FreeFibers : TRUE)
  /\ Goto(w, "idle")
  /\ UnlockOther(w, v)
  /\ UNCHANGED suspended
-----------------------------------------------------------------------------
\* What the compiled code may do next, and what the runtime does by itself.
UserCode(w) == Spawn(w) \/ Call(w)

Returns(w) == LeaveFrame(w) \/ ReturnFromCall(w) \/ SpawnReturn(w) \/ Sync(w)

Runtime(w) ==
  \/ DoSync(w) \/ RetrySync(w) \/ DoReturnFromSpawn(w)
  \/ SetupForExecution(w)
  \/ \E v \in Workers : CheckTeam(w, v) \/ StealFails(w, v) \/ Steal(w, v)

Next ==
  \/ \E u \in Users : BindThread(u) \/ ReturnFromInitial(u)
  \/ \E w \in Workers :
       \/ UserCode(w) \/ Returns(w) \/ Runtime(w) \/ LoseTeam(w)
       \/ \E v \in Workers : TryLock(w, v)

Spec == Init /\ [][Next]_vars

\* Every worker that has something to execute executes it (weak fairness of
\* its thread); that a worker gets its own lock when thieves compete for it is
\* OwnerGetsLock of TheDeque, hence strong fairness of the steps that take it.
Fairness ==
  /\ \A u \in Users : SF_vars(ReturnFromInitial(u))
  /\ \A w \in Workers : SF_vars(Returns(w)) /\ SF_vars(Runtime(w))

FairSpec == Spec /\ Fairness
-----------------------------------------------------------------------------
\* One conjunct per variable: the values the fields and flags of the code hold.
TypeOK ==
  /\ made \in 0..MaxFns
  /\ parent \in [Fns -> 0..MaxFns]
  /\ kind \in [Fns -> {"none", "initial", "spawn", "call"}]
  /\ tree \in [Fns -> Users \cup {NoOne}]
  /\ done \subseteq 1..made /\ unsynched \subseteq Live /\ full \subseteq 1..made
  /\ home \in [Fns -> Users \cup Fibers \cup {NoOne}]
  /\ join_counter \in [Fns -> Nat]
  /\ sync_master \in [Fns -> Users \cup {NoOne}]
  /\ fiber_self \in [Fns -> Users \cup Fibers \cup {NoOne}]
  /\ fiber_child \in [Fns -> Users \cup Fibers \cup {NoOne}]
  /\ \A f \in Fns : children[f] \in Seq(Fns)
  /\ \A w \in Workers : stack[w] \in Seq(Fns)
  /\ next_frame_ff \in [Workers -> 0..MaxFns]
  /\ team \in [Workers -> Users \cup {NoOne}]
  /\ last_full_frame \in [Users -> 0..MaxFns]
  /\ lock \in [Workers -> Workers \cup {NoOne}]
  /\ suspended \in [Workers -> 0..MaxFns]
  /\ pc \in [Workers -> {"unbound", "idle", "user", "sync", "wait_sync", "return",
                         "wait_return", "null_frame", "check_team", "dekker"}]

On(w) == {stack[w][i] : i \in DOMAIN stack[w]}

\* w refers to the full frame of f.
Refers(w, f) == \/ FrameFF(w) = f
                \/ next_frame_ff[w] = f
                \/ suspended[w] = f /\ pc[w] # "wait_return"

\* A full frame's join counter is at all times the number of its children that
\* have not been destroyed plus one for a worker that runs it, has it queued or
\* is passing it to the runtime: so the counter reaches zero exactly when the
\* last of them is gone (incjoin, decjoin, push_next_frame, make_child).
JoinCounts ==
  \A f \in full :
    join_counter[f] = Cardinality({c \in full : parent[c] = f})
                      + Cardinality({w \in Workers : Refers(w, f)})

\* Every live function is in exactly one place: on one worker's stack, queued
\* at one worker, passed to the runtime by one worker, or suspended in a full
\* frame until a child of it returns; none is ever held twice.
HeldOnce ==
  \A f \in Live :
    LET holders == {w \in Workers : f \in On(w) \/ next_frame_ff[w] = f
                                                \/ suspended[w] = f} IN
    /\ Cardinality(holders) <= 1
    /\ holders = {} => f \in full /\ \E c \in full : parent[c] = f

\* A function that runs past a sync (it is current, not marked unsynched) has
\* no spawned child left, whichever workers the children ran on.
SyncWaits ==
  \A w \in Workers : InUserCode(w) /\ Current(w) \notin unsynched
    => \A c \in Live : parent[c] # Current(w)

\* A function that is synched runs on the stack it was started on, wherever
\* and by whomever it is resumed: the leftmost child hands that fiber up.
RunsOnHomeStack ==
  \A w \in Workers : \A f \in On(w) :
    f \notin unsynched => fiber_self[FrameFF(w)] = home[f]

\* No fiber is recorded in two full frames, so none is ever run by two workers
\* or freed while a suspended frame still needs it.
FibersDisjoint ==
  /\ \A f, g \in full : f # g /\ fiber_self[f] # NoOne => fiber_self[f] # fiber_self[g]
  /\ \A f, g \in full : f # g /\ fiber_child[f] # NoOne => fiber_child[f] # fiber_child[g]
  /\ \A f, g \in full : fiber_self[f] # NoOne => fiber_self[f] # fiber_child[g]

\* A worker's team is the user thread whose computation it holds: user workers
\* never help another thread, and a frame that goes back to "the team leader"
\* goes to the right thread.
TeamIsTree ==
  \A w \in Workers : \A f \in On(w) \cup {next_frame_ff[w], suspended[w]} :
    f # NULL /\ f \in Live => tree[f] = team[w]

\* When nothing of a user thread's computation is unsynched, all of it is back
\* on that thread's own worker: only the team leader crosses the last sync.
LeaderCrossesLastSync ==
  \A u \in Users :
    (\A f \in unsynched : tree[f] # u)
      => \A w \in Workers \ {u} : \A f \in On(w) \cup {next_frame_ff[w]} :
            f # NULL => tree[f] # u

\* A frame in a worker's one-element queue is never overwritten by another: it
\* leaves the queue only when that worker takes it (push_next_frame asserts an
\* empty queue, and another worker pushes into the team leader's unlocked).
NextFrameKept ==
  [][\A w \in Workers : next_frame_ff[w] # NULL
       => next_frame_ff'[w] \in {NULL, next_frame_ff[w]}]_vars

FJ == INSTANCE ForkJoin

\* The workers, deques and join counters together execute the program's tree
\* as fork-join requires (scheduler.c): no function returns before what it
\* spawned and called.
ImplementsForkJoin == FJ!Spec

\* Every initial function returns to its thread, however its work was stolen:
\* no continuation is lost and no worker waits for ever.
InitialReturns == \A f \in Fns : [](f \in Live /\ kind[f] = "initial" => <>(f \in done))

\* do_sync has a frame whenever it locks one (CILK_ASSERT(ff) at its entry).
SyncHasFrame == \A w \in Workers : pc[w] # "null_frame"
=============================================================================
