------------------------------- MODULE TheDeque -------------------------------
(***************************************************************************)
(* The deque of one worker and the THE protocol (scheduler.c, cilk-abi.c,  *)
(* cilk_fake.h) by which the worker and its thieves agree on who executes  *)
(* a continuation.                                                         *)
(*                                                                         *)
(* The worker that owns the deque pushes and pops at tail without a lock.  *)
(* A thief takes the worker's lock, announces itself by raising exc, and   *)
(* takes the frame at head.  They meet on the last frame: the worker       *)
(* lowers tail and then reads exc, a thief raises exc and then reads tail, *)
(* with a full fence between the store and the load on either side.  Every *)
(* shared load and store of that exchange is a step of its own here, in    *)
(* the order of the code; the fences are what justifies interleaving them. *)
(*                                                                         *)
(* Pointers into the ltq array are offsets from its start, so ltq itself   *)
(* is 0 and ltq_limit is LtqSize.  Continuations are numbered in the order *)
(* they are pushed.                                                        *)
(***************************************************************************)
EXTENDS Integers, Sequences

CONSTANTS
  Owner,      \* the worker whose deque this is
  Thieves,    \* the other workers
  NoOne,      \* the owner field of a free mutex
  LtqSize,    \* g->ltqsize, the number of slots of the array
  MaxFrames   \* bound: how many continuations are pushed in a behaviour

ASSUME WorkersAssumption ==
  /\ Owner \notin Thieves
  /\ NoOne \notin Thieves \union {Owner}

ASSUME SizesAssumption ==
  /\ LtqSize \in Nat \ {0}
  /\ MaxFrames \in Nat

VARIABLES
  head, tail, exc, protected_tail,   \* w->head, w->tail, w->exc, ...
  ltq,            \* the slots: the number of a continuation, 0 when never used
  lock,           \* w->l->lock
  steal_lock,     \* w->l->steal_lock
  do_not_steal,   \* w->l->do_not_steal
  frame_ff,       \* w->l->frame_ff # NULL
  pc,             \* where the owner is
  op,             \* which locked operation the owner is executing
  after,          \* where the owner goes once it has released its lock
  saved,          \* the result of __cilkrts_disallow_stealing, -1 if none
  tpc,            \* where each thief is
  pushed,         \* history: continuations pushed so far
  resumed,        \* history: continuations the owner returned to
  stolen,         \* history: continuations taken at head
  guarded,        \* history: continuations pushed since stealing was disallowed
  bypass          \* history: thieves that took lock since do_not_steal was set, up to 2

index == <<head, tail, exc, ltq>>
locks == <<lock, steal_lock, do_not_steal>>
own == <<pc, op, after>>
history == <<pushed, resumed, stolen, guarded, bypass>>
vars == <<index, protected_tail, saved, locks, frame_ff, own, tpc, history>>

OwnerPc == {"user", "pushing", "undone", "calling", "want", "locked", "unlock",
            "clear", "leaving", "sched"}
OwnerOp == {"THE", "pop", "promote", "setup"}
ThiefPc == {"idle", "quick", "try", "flag", "trylock", "drop", "won", "locked",
            "incE", "chkT", "chkP", "decE", "detach", "unlock"}

Frame == 1..MaxFrames

\* The words from ltq on that a behaviour can reach, one for each push.  The array
\* is the first LtqSize of them.  No push compares tail with ltq_limit; the words
\* beyond the array are taken to be memory that nobody else uses.
Slot == 0..(MaxFrames - 1)

\* The values the code's fields hold.  However far the owner pushes, head never
\* passes ltq_limit, because can_steal_from compares it with protected_tail, and
\* exc passes it by one at most; tail is at most one before the start of ltq.
TypeOK ==
  /\ head \in 0..LtqSize
  /\ tail \in -1..MaxFrames
  /\ exc \in 0..(LtqSize + 1)
  /\ protected_tail \in {0, LtqSize}
  /\ ltq \in [Slot -> 0..MaxFrames]
  /\ lock \in Thieves \union {Owner, NoOne}
  /\ steal_lock \in Thieves \union {NoOne}
  /\ do_not_steal \in BOOLEAN
  /\ frame_ff \in BOOLEAN
  /\ pc \in OwnerPc
  /\ op \in OwnerOp
  /\ after \in {"user", "leaving"}
  /\ saved \in {-1, 0, LtqSize}
  /\ tpc \in [Thieves -> ThiefPc]
  /\ pushed \in 0..MaxFrames
  /\ resumed \subseteq Frame
  /\ stolen \subseteq Frame
  /\ guarded \subseteq Frame
  /\ bypass \in Nat

Init ==
  /\ head = 0 /\ tail = 0 /\ exc = 0 /\ protected_tail = LtqSize
  /\ ltq = [i \in Slot |-> 0]
  /\ lock = NoOne /\ steal_lock = NoOne /\ do_not_steal = FALSE
  /\ frame_ff = FALSE
  /\ pc = "sched" /\ op = "setup" /\ after = "user" /\ saved = -1
  /\ tpc = [t \in Thieves |-> "idle"]
  /\ pushed = 0 /\ resumed = {} /\ stolen = {} /\ guarded = {} /\ bypass = 0

-------------------------------------------------------------------------------
(* The owner.                                                                *)

Goto(there) == pc' = there /\ UNCHANGED <<op, after>>

\* __cilk_fake_detach, first store: *tail = sf->call_parent, whatever tail is.
DetachStore ==
  /\ pc = "user" /\ pushed < MaxFrames
  /\ ltq' = [ltq EXCEPT ![tail] = pushed + 1]
  /\ Goto("pushing")
  /\ UNCHANGED <<head, tail, exc, protected_tail, saved, locks, frame_ff, tpc, history>>

\* __cilk_fake_detach, second store: w->tail = tail + 1 publishes the slot.
DetachPublish ==
  /\ pc = "pushing"
  /\ tail' = tail + 1
  /\ pushed' = pushed + 1
  /\ guarded' = IF saved = -1 THEN guarded ELSE guarded \union {pushed'}
  /\ Goto("user")
  /\ UNCHANGED <<head, exc, ltq, protected_tail, saved, locks, frame_ff, tpc,
                 resumed, stolen, bypass>>

\* __cilkrts_undo_detach up to its fence: w->tail = tail - 1.
UndoDetachStore ==
  /\ pc = "user"
  /\ tail' = tail - 1
  /\ Goto("undone")
  /\ UNCHANGED <<head, exc, ltq, protected_tail, saved, locks, frame_ff, tpc, history>>

\* Mutant: compares with head, which a thief moves only after exc.
UndoDetachCheckHead ==
  /\ pc = "undone"
  /\ IF tail < head
     THEN pc' = "calling" /\ op' = "THE" /\ UNCHANGED <<after, resumed>>
     ELSE Goto("user") /\ resumed' = resumed \union {ltq[tail]}
  /\ UNCHANGED <<index, protected_tail, saved, locks, frame_ff, tpc, pushed, stolen,
                 guarded, bypass>>

\* __cilkrts_undo_detach after its fence: t < w->exc calls for the slow path,
\* otherwise the owner returns to the continuation it popped.
UndoDetachCheck ==
  /\ pc = "undone"
  /\ IF tail < exc
     THEN pc' = "calling" /\ op' = "THE" /\ UNCHANGED <<after, resumed>>
     ELSE Goto("user") /\ resumed' = resumed \union {ltq[tail]}
  /\ UNCHANGED <<index, protected_tail, saved, locks, frame_ff, tpc, pushed, stolen,
                 guarded, bypass>>

\* __cilkrts_return_exception: a spawned function returns with an exception.
ReturnException ==
  /\ pc = "user"
  /\ pc' = "calling" /\ op' = "pop"
  /\ UNCHANGED <<index, protected_tail, saved, locks, frame_ff, after, tpc, history>>

\* __cilkrts_hyper_lookup under CILK_FORCE_REDUCE promotes the whole deque.
PromoteOwnDeque ==
  /\ pc = "user"
  /\ pc' = "calling" /\ op' = "promote"
  /\ UNCHANGED <<index, protected_tail, saved, locks, frame_ff, after, tpc, history>>

\* __cilkrts_c_sync: every continuation pushed by the frame has been popped.
Sync ==
  /\ pc = "user" /\ head = tail
  /\ Goto("leaving")
  /\ UNCHANGED <<index, protected_tail, saved, locks, frame_ff, tpc, history>>

\* run_scheduling_stack_fcn: the owner gives up its full frame, without a lock.
LeaveFrame ==
  /\ pc = "leaving"
  /\ frame_ff' = FALSE
  /\ Goto("sched")
  /\ UNCHANGED <<index, protected_tail, saved, locks, tpc, history>>

\* The scheduling loop has a frame to run.
Resume ==
  /\ pc = "sched"
  /\ pc' = "calling" /\ op' = "setup"
  /\ UNCHANGED <<index, protected_tail, saved, locks, frame_ff, after, tpc, history>>

\* __cilkrts_disallow_stealing(w, NULL).  A nested call changes nothing.
DisallowStealing ==
  /\ pc = "user" /\ saved = -1
  /\ saved' = protected_tail
  /\ protected_tail' = 0
  /\ UNCHANGED <<index, locks, frame_ff, own, tpc, history>>

\* __cilkrts_restore_stealing(w, saved).
RestoreStealing ==
  /\ pc = "user" /\ saved # -1
  /\ protected_tail' = saved
  /\ saved' = -1
  /\ guarded' = {}
  /\ UNCHANGED <<index, locks, frame_ff, own, tpc, pushed, resumed, stolen, bypass>>

\* __cilkrts_worker_lock, first half: tell thieves to stay out of the way.
SetDoNotSteal ==
  /\ pc = "calling"
  /\ do_not_steal' = TRUE
  /\ bypass' = 0
  /\ Goto("want")
  /\ UNCHANGED <<index, protected_tail, saved, lock, steal_lock, frame_ff, tpc,
                 pushed, resumed, stolen, guarded>>

\* __cilkrts_worker_lock, second half: spin until the mutex is ours.
AcquireLock ==
  /\ pc = "want" /\ lock = NoOne
  /\ lock' = Owner
  /\ Goto("locked")
  /\ UNCHANGED <<index, protected_tail, saved, steal_lock, do_not_steal, frame_ff,
                 tpc, history>>

\* The locked part of __cilkrts_c_THE_exception_check.
THEExceptionCheck ==
  /\ pc = "locked" /\ op = "THE"
  /\ exc' = head
  /\ IF head < tail + 1
     THEN /\ resumed' = resumed \union {ltq[tail]}
          /\ after' = "user"
          /\ UNCHANGED tail
     ELSE /\ tail' = tail + 1
          /\ after' = "leaving"
          /\ UNCHANGED resumed
  /\ pc' = "unlock"
  /\ UNCHANGED <<head, ltq, protected_tail, saved, locks, frame_ff, op, tpc, pushed,
                 stolen, guarded, bypass>>

\* The locked part of __cilkrts_pop_tail.
PopTail ==
  /\ pc = "locked" /\ op = "pop"
  /\ IF head < tail
     THEN /\ tail' = tail - 1
          /\ resumed' = resumed \union {ltq[tail - 1]}
          /\ after' = "user"
     ELSE /\ after' = "leaving"
          /\ UNCHANGED <<tail, resumed>>
  /\ pc' = "unlock"
  /\ UNCHANGED <<head, exc, ltq, protected_tail, saved, locks, frame_ff, op, tpc,
                 pushed, stolen, guarded, bypass>>

can_steal_from == head < tail /\ head < protected_tail

\* One turn of the loop of __cilkrts_promote_own_deque: dekker_protocol on the
\* owner's own deque and, when it succeeds, detach_for_steal.
PromoteOne ==
  /\ pc = "locked" /\ op = "promote"
  /\ can_steal_from
  /\ head' = head + 1 /\ exc' = exc + 1
  /\ stolen' = stolen \union {ltq[head]}
  /\ UNCHANGED <<tail, ltq, protected_tail, saved, locks, frame_ff, own, tpc, pushed,
                 resumed, guarded, bypass>>

PromoteDone ==
  /\ pc = "locked" /\ op = "promote"
  /\ ~can_steal_from
  /\ pc' = "unlock" /\ after' = "user"
  /\ UNCHANGED <<index, protected_tail, saved, locks, frame_ff, op, tpc, history>>

\* The locked part of setup_for_execution: an empty deque at the start of ltq.
SetupForExecution ==
  /\ pc = "locked" /\ op = "setup"
  /\ head' = 0 /\ tail' = 0 /\ exc' = 0
  /\ frame_ff' = TRUE
  /\ pc' = "unlock" /\ after' = "user"
  /\ UNCHANGED <<ltq, protected_tail, saved, locks, op, tpc, history>>

\* __cilkrts_worker_unlock releases the mutex before it clears the flag.
ReleaseLock ==
  /\ pc = "unlock"
  /\ lock' = NoOne
  /\ Goto("clear")
  /\ UNCHANGED <<index, protected_tail, saved, steal_lock, do_not_steal, frame_ff,
                 tpc, history>>

ClearDoNotSteal ==
  /\ pc = "clear"
  /\ do_not_steal' = FALSE
  /\ Goto(after)
  /\ UNCHANGED <<index, protected_tail, saved, lock, steal_lock, frame_ff, tpc, history>>

-------------------------------------------------------------------------------
(* A thief, in random_steal.                                                 *)

Step(t, from, to) ==
  /\ tpc[t] = from
  /\ tpc' = [tpc EXCEPT ![t] = to]
  /\ UNCHANGED <<protected_tail, saved, do_not_steal, frame_ff, own, pushed, resumed,
                 guarded, ltq, tail>>

\* The check before engaging in the protocol, two loads without a lock.
QuickCheckTail(t) ==
  /\ head < tail
  /\ Step(t, "idle", "quick")
  /\ UNCHANGED <<head, exc, lock, steal_lock, stolen, bypass>>

QuickCheckProtected(t) ==
  /\ Step(t, "quick", IF head < protected_tail THEN "try" ELSE "idle")
  /\ UNCHANGED <<head, exc, lock, steal_lock, stolen, bypass>>

\* worker_trylock_other: compete for the right to disturb the victim.
TryStealLock(t) ==
  /\ IF steal_lock = NoOne
     THEN Step(t, "try", "flag") /\ steal_lock' = t
     ELSE Step(t, "try", "idle") /\ UNCHANGED steal_lock
  /\ UNCHANGED <<head, exc, lock, stolen, bypass>>

\* Mutant: the flag is not looked at.
CheckDoNotStealDropped(t) ==
  /\ Step(t, "flag", "trylock")
  /\ UNCHANGED <<head, exc, lock, steal_lock, stolen, bypass>>

\* worker_trylock_other: leave the victim alone when it wants its own lock.
CheckDoNotSteal(t) ==
  /\ Step(t, "flag", IF do_not_steal THEN "drop" ELSE "trylock")
  /\ UNCHANGED <<head, exc, lock, steal_lock, stolen, bypass>>

TryLock(t) ==
  /\ IF lock = NoOne
     THEN /\ Step(t, "trylock", "won")
          /\ lock' = t
          /\ bypass' = IF pc = "want" THEN IF bypass = 0 THEN 1 ELSE 2 ELSE bypass
     ELSE Step(t, "trylock", "drop") /\ UNCHANGED <<lock, bypass>>
  /\ UNCHANGED <<head, exc, steal_lock, stolen>>

\* worker_trylock_other: unlock steal_lock and return the status.
ReleaseStealLock(t) ==
  /\ Step(t, "won", "locked") \/ Step(t, "drop", "idle")
  /\ steal_lock' = NoOne
  /\ UNCHANGED <<head, exc, lock, stolen, bypass>>

\* A user worker fails on a victim of another team; an idle victim has no frame.
CheckVictim(t) ==
  /\ \/ Step(t, "locked", "unlock")
     \/ frame_ff /\ Step(t, "locked", "incE")
  /\ UNCHANGED <<head, exc, lock, steal_lock, stolen, bypass>>

\* dekker_protocol: increment_E and its fence.
IncrementE(t) ==
  /\ Step(t, "incE", "chkT")
  /\ exc' = exc + 1
  /\ UNCHANGED <<head, lock, steal_lock, stolen, bypass>>

\* Mutant: an empty deque passes the test.
CheckTailOffByOne(t) ==
  /\ Step(t, "chkT", IF head <= tail THEN "chkP" ELSE "decE")
  /\ UNCHANGED <<head, exc, lock, steal_lock, stolen, bypass>>

\* dekker_protocol: the two loads of can_steal_from, tail first.
CheckTail(t) ==
  /\ Step(t, "chkT", IF head < tail THEN "chkP" ELSE "decE")
  /\ UNCHANGED <<head, exc, lock, steal_lock, stolen, bypass>>

\* Mutant: protected_tail is not looked at.
CheckProtectedDropped(t) ==
  /\ Step(t, "chkP", "detach") \/ Step(t, "chkP", "decE")
  /\ UNCHANGED <<head, exc, lock, steal_lock, stolen, bypass>>

\* Mutant: an aborted replay steal does not take back increment_E.
CheckProtectedKeepsE(t) ==
  /\ \/ head < protected_tail /\ Step(t, "chkP", "detach")
     \/ Step(t, "chkP", "unlock")
  /\ UNCHANGED <<head, exc, lock, steal_lock, stolen, bypass>>

\* When replaying a log, a frame other than the recorded one is left alone.
CheckProtected(t) ==
  /\ \/ head < protected_tail /\ Step(t, "chkP", "detach")
     \/ Step(t, "chkP", "decE")
  /\ UNCHANGED <<head, exc, lock, steal_lock, stolen, bypass>>

DecrementE(t) ==
  /\ Step(t, "decE", "unlock")
  /\ exc' = exc - 1
  /\ UNCHANGED <<head, lock, steal_lock, stolen, bypass>>

\* Mutant: head is not advanced.
DetachForStealKeepsHead(t) ==
  /\ Step(t, "detach", "unlock")
  /\ stolen' = stolen \union {ltq[head]}
  /\ UNCHANGED <<head, exc, lock, steal_lock, bypass>>

\* detach_for_steal: the frame at head is the loot, the victim keeps a child.
DetachForSteal(t) ==
  /\ Step(t, "detach", "unlock")
  /\ head' = head + 1
  /\ stolen' = stolen \union {ltq[head]}
  /\ UNCHANGED <<exc, lock, steal_lock, bypass>>

\* worker_unlock_other.
UnlockOther(t) ==
  /\ Step(t, "unlock", "idle")
  /\ lock' = NoOne
  /\ UNCHANGED <<head, exc, steal_lock, stolen, bypass>>

-------------------------------------------------------------------------------
OwnerUser ==
  \/ DetachStore \/ UndoDetachStore \/ ReturnException \/ PromoteOwnDeque
  \/ Sync \/ Resume \/ DisallowStealing \/ RestoreStealing

OwnerRuntime ==
  \/ DetachPublish \/ UndoDetachCheck \/ LeaveFrame
  \/ SetDoNotSteal \/ AcquireLock \/ ReleaseLock \/ ClearDoNotSteal
  \/ THEExceptionCheck \/ PopTail \/ PromoteOne \/ PromoteDone \/ SetupForExecution

ThiefStart(t) == QuickCheckTail(t)

ThiefRuntime(t) ==
  \/ QuickCheckProtected(t) \/ TryStealLock(t) \/ CheckDoNotSteal(t) \/ TryLock(t)
  \/ ReleaseStealLock(t) \/ CheckVictim(t) \/ IncrementE(t) \/ CheckTail(t)
  \/ CheckProtected(t) \/ DecrementE(t) \/ DetachForSteal(t) \/ UnlockOther(t)

Next ==
  \/ OwnerUser
  \/ OwnerRuntime
  \/ \E t \in Thieves : ThiefStart(t) \/ ThiefRuntime(t)

Spec == Init /\ [][Next]_vars

\* Threads inside the runtime are scheduled; what user code does next, and
\* whether a thief tries again, is not promised.
FairSpec ==
  /\ Spec
  /\ WF_vars(OwnerRuntime)
  /\ \A t \in Thieves : WF_vars(ThiefRuntime(t))
-------------------------------------------------------------------------------
(* Properties.                                                               *)

\* The owner has lowered tail but does not know yet whether the frame is its.
Undecided == pc = "undone" \/ (op = "THE" /\ pc \in {"calling", "want", "locked"})

\* One past the youngest continuation that nobody has claimed.
Top == IF Undecided THEN tail + 1 ELSE tail

Unclaimed == {ltq[i] : i \in head..(Top - 1)}

\* Every continuation that was ever pushed is in exactly one place: unclaimed in
\* the deque, returned to by its worker (undo_detach, THE_exception_check,
\* pop_tail), or stolen (detach_for_steal).  None is lost and none runs twice,
\* however the unlocked pop interleaves with the thieves.
ExactlyOnce ==
  /\ resumed \intersect stolen = {}
  /\ Unclaimed \intersect (resumed \union stolen) = {}
  /\ Unclaimed \union resumed \union stolen = 1..pushed
  /\ \A i, j \in head..(Top - 1) : i < j => ltq[i] < ltq[j]

\* A worker that is busy raising the exception pointer of the victim.
InDekker(t) == tpc[t] \in {"chkT", "chkP", "decE", "detach"}

\* exc is head, plus one exactly while one thief is between increment_E and the
\* resolution of its attempt; so the owner enters the slow path only when a
\* thief is really contending for the frame ("ASSERT(E >= H)" in
\* dekker_protocol, and reset_THE_exception).
ExcTracksHead ==
  exc = IF \E t \in Thieves : InDekker(t) THEN head + 1 ELSE head

\* A thief past dekker_protocol detaches from a victim that still has a full
\* frame, and the slot it takes is unclaimed and in the array, although
\* run_scheduling_stack_fcn clears frame_ff without the lock, and the owner pops
\* without it and pushes without a look at ltq_limit.
DetachIsSound ==
  \A t \in Thieves : tpc[t] = "detach" => frame_ff /\ head < Top /\ head < LtqSize

\* A continuation pushed while stealing is disallowed is not stolen before it is
\* allowed again: the store to protected_tail precedes the one to tail, and
\* can_steal_from reads them in the opposite order.
GuardedNotStolen == guarded \intersect stolen = {}

\* The owner waits for the thief inside its critical section, if any, and for at
\* most one other thief (the comment in worker_trylock_other).
AtMostOneBypass == bypass <= 1

\* The owner always gets its lock: do_not_steal keeps thieves from starving it,
\* although the mutex itself promises no order.
OwnerGetsLock == pc = "want" ~> pc = "locked"

\* Seen from outside, the deque is a queue with atomic Push, Pop and Steal.
WQ == INSTANCE WorkQueue
        WITH queue <- [i \in 1..(Top - head) |-> ltq[head + i - 1]]

\* Every step of the protocol is a step of the atomic queue, or changes nothing
\* that the queue shows.
ImplementsWorkQueue == WQ!Spec
===============================================================================
