------------------------------ MODULE TaskPool ------------------------------
(***************************************************************************)
(* The task pool of an arena slot of oneTBB (arena_slot.h, arena_slot.cpp):*)
(* the deque the owner of the slot spawns tasks to and gets them from, and *)
(* thieves steal from; the proxies that put a task with an affinity both   *)
(* in this pool and in another thread's mailbox (mailbox.h); and the state *)
(* of the arena that says whether there may be work (arena::my_pool_state).*)
(*                                                                         *)
(* A load or store of head, tail, task_pool or my_pool_state is a step of  *)
(* its own, in the order of the program, wherever owner and thief can      *)
(* meet; what the owner does to a pool that is locked or not published is  *)
(* one step, but for a relocation, which a snapshot may see half done.     *)
(* The mailbox is an atomic queue here.  A position nobody may read is     *)
(* poisoned, as in a build with TBB_USE_ASSERT.                            *)
(***************************************************************************)
EXTENDS Integers, Sequences, SequencesExt, FiniteSets

CONSTANTS Owner,      \* the thread that occupies the slot
          Thieves,    \* the other threads of the arena
          Recipient,  \* the thief tasks are mailed to
          Stealers,   \* the thieves that steal
          Watchers,   \* the thieves that pause and take snapshots
          MaxTasks,   \* bound: tasks spawned
          Modes,      \* bound: how many tasks are mailed, and are there snapshots?
          Isolations, \* isolation tags, of which 0 is no_isolation
          MinSize     \* min_task_pool_size

ASSUME TaskPoolAssumption ==
  /\ Owner \notin Thieves /\ Recipient \in Thieves /\ Watchers \cup Stealers \subseteq Thieves
  /\ MaxTasks \in Nat /\ Modes \subseteq [mailed : Nat, snapshots : BOOLEAN]
  /\ 0 \in Isolations /\ MinSize \in Nat \ {0}

Threads == {Owner} \cup Thieves
Tasks == 1..MaxTasks
NULL == 0              \* no task; in a position of the pool, a hole
Poisoned == -1

VARIABLES
  mode,            \* chosen at the start
  task_pool,       \* EmptyTaskPool, LockedTaskPool or the pool
  head, tail,
  cells,           \* task_pool_ptr[0], task_pool_ptr[1], ...
  spawned,         \* tasks 1..spawned were spawned, in this order
  isolation_of,    \* task_accessor::isolation
  tag,             \* of a proxy: task_and_tag; "plain" for other tasks
  mail,            \* the mailbox of Recipient
  pool_state,      \* SNAPSHOT_EMPTY, SNAPSHOT_FULL or busy: the thread
  executions,      \* how often a task was returned to be executed
  raced,           \* history: tasks spawned while a thief had the head past the tail
  pc, isolation, result, tasks_omitted, snapshot,  \* of each thread
  T, T0, bound, task_pool_empty,                   \* of get_task; bound is H0
  H, H0                                            \* of steal_task

pool == <<task_pool, head, tail, cells>>
tasks == <<mode, spawned, isolation_of, tag, mail, raced>>
owner == <<T, T0, bound, task_pool_empty>>
thief == <<H, H0>>
thread == <<isolation, result, tasks_omitted, snapshot>>
vars == <<pool, tasks, pool_state, owner, thief, thread, executions, pc>>

Init ==
  /\ task_pool = "empty" /\ head = 0 /\ tail = 0 /\ cells = <<>>
  /\ mode \in Modes /\ spawned = 0 /\ mail = <<>> /\ raced = {}
  /\ isolation_of = [t \in Tasks |-> 0] /\ tag = [t \in Tasks |-> "plain"]
  /\ pool_state = "empty"
  /\ executions = [t \in Tasks |-> 0]
  /\ pc = [x \in Threads |-> "idle"]
  /\ isolation = [x \in Threads |-> 0] /\ result = [x \in Threads |-> NULL]
  /\ tasks_omitted = [x \in Threads |-> FALSE]
  /\ snapshot = [x \in Threads |-> "full"]
  /\ T = 0 /\ T0 = 0 /\ bound = 0 /\ task_pool_empty = FALSE
  /\ H = [x \in Thieves |-> 0] /\ H0 = [x \in Thieves |-> 0]

Goto(x, l) == pc' = [pc EXCEPT ![x] = l]

Size == Len(cells)                       \* my_task_pool_size
At(i) == cells[i + 1]
PoisonFrom(n) == [i \in 1..n |-> Poisoned]

\* x returns to its caller with nothing, and calls again some time.
Idle(x) ==
  /\ Goto(x, "idle")
  /\ isolation' = [isolation EXCEPT ![x] = 0]
  /\ result' = [result EXCEPT ![x] = NULL]
  /\ tasks_omitted' = [tasks_omitted EXCEPT ![x] = FALSE]
  /\ snapshot' = [snapshot EXCEPT ![x] = "full"]
-----------------------------------------------------------------------------
(***************************************************************************)
(* Spawning, by the owner.                                                 *)
(***************************************************************************)

\* r1::spawn: a task with an affinity is mailed to that thread first, in a
\* proxy that is in both places.
Spawn(i, mailed) ==
  /\ pc[Owner] = "idle" /\ spawned < MaxTasks
  /\ mailed => Cardinality({t \in 1..spawned : tag[t] # "plain"}) < mode.mailed
  /\ spawned' = spawned + 1
  /\ isolation_of' = [isolation_of EXCEPT ![spawned + 1] = i]
  /\ tag' = [tag EXCEPT ![spawned + 1] = IF mailed THEN "both" ELSE "plain"]
  /\ mail' = IF mailed THEN Append(mail, spawned + 1) ELSE mail
  /\ Goto(Owner, "prepare")
  /\ UNCHANGED <<mode, raced, pool, pool_state, owner, thief, thread, executions>>

\* The task is stored above the tail.
Store(c) ==
  /\ cells' = [c EXCEPT ![tail + 1] = spawned]
  /\ Goto(Owner, "commit")
  /\ UNCHANGED <<task_pool, head, tail, tasks, pool_state, owner, thief, thread, executions>>

\* prepare_task_pool when there is room, or no pool yet.
StoreInPool ==
  /\ pc[Owner] = "prepare"
  /\ \/ tail + 1 <= Size /\ Store(cells)
     \/ Size = 0 /\ Store(PoisonFrom(MinSize))

\* acquire_task_pool before a relocation; nobody else can lock a pool that is
\* not published.
AcquireToRelocate ==
  /\ pc[Owner] = "prepare" /\ Size > 0 /\ tail + 1 > Size
  /\ task_pool # "locked"
  /\ task_pool' = IF task_pool = "empty" THEN "empty" ELSE "locked"
  /\ Goto(Owner, "relocate")
  /\ UNCHANGED <<head, tail, cells, tasks, pool_state, owner, thief, thread, executions>>

\* Mutant: the last task is not copied.
KeptTasksShort == SelectSeq(SubSeq(cells, head + 1, tail - 1), LAMBDA t : t # NULL)

\* The tasks of the pool without the holes.
KeptTasks == SelectSeq(SubSeq(cells, head + 1, tail), LAMBDA t : t # NULL)

\* The pool is doubled if moving the tasks to its beginning frees too little.
NewSize ==
  IF Len(KeptTasks) + 1 > Size - MinSize \div 4 THEN 2 * Size ELSE Size

\* The rest of prepare_task_pool, but for the tail.  bound keeps the new one.
Relocate ==
  /\ pc[Owner] = "relocate"
  /\ cells' = KeptTasks \o PoisonFrom(NewSize - Len(KeptTasks))
  /\ head' = 0
  /\ bound' = Len(KeptTasks)
  /\ Goto(Owner, "relocated")
  /\ UNCHANGED <<task_pool, tail, tasks, pool_state, T, T0, task_pool_empty, thief, thread,
                 executions>>

\* commit_relocated_tasks and release_task_pool; there is room now.
CommitRelocated ==
  /\ pc[Owner] = "relocated"
  /\ tail' = bound
  /\ bound' = 0
  /\ task_pool' = IF task_pool = "empty" THEN "empty" ELSE "published"
  /\ Goto(Owner, "prepare")
  /\ UNCHANGED <<head, cells, tasks, pool_state, T, T0, task_pool_empty, thief, thread,
                 executions>>

\* commit_spawned_tasks, publish_task_pool; spawn_and_notify goes on to
\* advertise the work.
CommitSpawned ==
  /\ pc[Owner] = "commit"
  /\ tail' = tail + 1
  /\ task_pool' = IF task_pool = "empty" THEN "published" ELSE task_pool
  /\ raced' = IF mode.snapshots /\ head > tail THEN raced \cup {spawned} ELSE raced
  /\ Goto(Owner, "advertise")
  /\ UNCHANGED <<head, cells, mode, spawned, isolation_of, tag, mail, pool_state, owner, thief, thread,
                 executions>>
-----------------------------------------------------------------------------
(***************************************************************************)
(* get_task, by the owner.                                                 *)
(***************************************************************************)

GetTask(i) ==
  /\ pc[Owner] = "idle" /\ task_pool # "empty"
  /\ isolation' = [isolation EXCEPT ![Owner] = i]
  /\ T0' = tail
  /\ Goto(Owner, "decrement")
  /\ UNCHANGED <<pool, tasks, pool_state, T, bound, task_pool_empty, thief, result,
                 tasks_omitted, snapshot, executions>>

\* T = --tail
DecrementTail ==
  /\ pc[Owner] = "decrement"
  /\ tail' = tail - 1 /\ T' = tail - 1
  /\ Goto(Owner, "check")
  /\ UNCHANGED <<task_pool, head, cells, tasks, pool_state, T0, bound, task_pool_empty, thief,
                 thread, executions>>

\* Mutant: the test lets a position go that a thief has claimed.
HeadReachedLate == head > T + 1

HeadReached == head > T

CheckHead ==
  /\ pc[Owner] = "check"
  /\ Goto(Owner, IF HeadReached THEN "acquire" ELSE "take")
  /\ UNCHANGED <<pool, tasks, pool_state, owner, thief, thread, executions>>

\* Under the lock of the pool, no thief is at work: decide who gets the last
\* task.  An empty pool is reset and left.
Acquire ==
  /\ pc[Owner] = "acquire" /\ task_pool = "published"
  /\ bound' = head
  /\ IF head >= T THEN /\ head' = 0 /\ tail' = 0 /\ task_pool' = "empty"
                       /\ task_pool_empty' = TRUE
                  ELSE UNCHANGED <<head, tail, task_pool, task_pool_empty>>
  /\ Goto(Owner, IF head > T THEN "finish" ELSE "take")
  /\ UNCHANGED <<cells, tasks, pool_state, T, T0, thief, thread, executions>>

\* Mutant: tasks without isolation are let through.
IsolatedTagged(x, t) == isolation_of[t] # 0 /\ isolation[x] \notin {0, isolation_of[t]}

\* isolation != no_isolation && isolation != task_accessor::isolation(*result)
Isolated(x, t) == isolation[x] # 0 /\ isolation[x] # isolation_of[t]

\* Mutant: whoever gets the task frees the proxy.
ExtractedFreed(t, from) == [tag EXCEPT ![t] = "freed"]

\* extract_task<from_bit> and, if it returns nothing, the deletion of the
\* proxy: the side that comes first gets the task, the other frees the proxy.
Extracted(t, from) ==
  [tag EXCEPT ![t] = IF @ # "both" THEN "freed"
                     ELSE IF from = "pool" THEN "mailbox" ELSE "pool"]

\* get_task_impl and the end of the loop of get_task.  Once a task was omitted
\* positions are kept, as holes if they hold nothing.
TakeAtT ==
  LET t == At(T)
      omit == t > 0 /\ Isolated(Owner, t)
      got == t > 0 /\ ~omit /\ tag[t] \in {"plain", "both"}
      omitted == tasks_omitted[Owner] \/ omit IN
  /\ pc[Owner] = "take"
  /\ result' = [result EXCEPT ![Owner] = IF got THEN t ELSE NULL]
  /\ tasks_omitted' = [tasks_omitted EXCEPT ![Owner] = omitted]
  /\ tag' = IF t > 0 /\ ~omit /\ tag[t] # "plain" THEN Extracted(t, "pool") ELSE tag
  /\ cells' = [cells EXCEPT ![T + 1] = IF got \/ ~omitted THEN Poisoned
                                       ELSE IF omit THEN t ELSE NULL]
  /\ T0' = IF ~got /\ ~omitted THEN T ELSE T0
  /\ Goto(Owner, IF got \/ task_pool_empty THEN "finish" ELSE "decrement")
  /\ UNCHANGED <<task_pool, head, tail, mode, spawned, isolation_of, mail, raced, pool_state, T, bound,
                 task_pool_empty, thief, isolation, snapshot, executions>>

\* task_pool_ptr[T] = nullptr
Hole == [cells EXCEPT ![T + 1] = NULL]

\* The head to be restored; a task that was obtained was at H0.
RestoredHead == IF result[Owner] # NULL THEN bound + 1 ELSE bound

\* The end of get_task: the tasks that were omitted are made available again.
FinishGetTask ==
  /\ pc[Owner] = "finish"
  /\ T' = 0 /\ T0' = 0 /\ bound' = 0 /\ task_pool_empty' = FALSE
  /\ \/ /\ ~tasks_omitted[Owner]
        /\ Goto(Owner, "return")
        /\ UNCHANGED pool
     \/ /\ tasks_omitted[Owner] /\ task_pool_empty /\ RestoredHead >= T0
        /\ Goto(Owner, "return")
        /\ UNCHANGED pool
     \/ /\ tasks_omitted[Owner] /\ task_pool_empty /\ RestoredHead < T0
        /\ head' = RestoredHead /\ tail' = T0 /\ task_pool' = "published"
        /\ Goto(Owner, "advertise")
        /\ UNCHANGED cells
     \/ /\ tasks_omitted[Owner] /\ ~task_pool_empty
        /\ cells' = Hole /\ tail' = T0
        /\ Goto(Owner, "advertise")
        /\ UNCHANGED <<head, task_pool>>
  /\ UNCHANGED <<tasks, pool_state, thief, thread, executions>>
-----------------------------------------------------------------------------
(***************************************************************************)
(* steal_task, by a thief.                                                 *)
(***************************************************************************)

\* lock_task_pool; arena::steal_task gives up on an empty pool.
LockTaskPool(x, i) ==
  /\ x \in Stealers /\ pc[x] = "idle" /\ task_pool = "published"
  /\ task_pool' = "locked"
  /\ isolation' = [isolation EXCEPT ![x] = i]
  /\ H0' = [H0 EXCEPT ![x] = head]
  /\ Goto(x, "increment")
  /\ UNCHANGED <<head, tail, cells, tasks, pool_state, owner, H, result, tasks_omitted, snapshot,
                 executions>>

\* H = ++head
IncrementHead(x) ==
  /\ pc[x] = "increment"
  /\ head' = head + 1
  /\ H' = [H EXCEPT ![x] = head + 1]
  /\ Goto(x, "look")
  /\ UNCHANGED <<task_pool, tail, cells, tasks, pool_state, owner, H0, thread, executions>>

CheckTail(x) ==
  /\ pc[x] = "look"
  /\ Goto(x, IF H[x] > tail THEN "back_off" ELSE "steal")
  /\ UNCHANGED <<pool, tasks, pool_state, owner, thief, thread, executions>>

\* Nothing is left below the tail: the head goes back.
BackOff(x) ==
  /\ pc[x] = "back_off"
  /\ head' = H0[x]
  /\ Goto(x, "unlock")
  /\ UNCHANGED <<task_pool, tail, cells, tasks, pool_state, owner, thief, thread, executions>>

\* A hole: the beginning of the pool is cleaned of it.
SkipHole(x) ==
  /\ pc[x] = "steal" /\ At(H[x] - 1) = NULL
  /\ IF tasks_omitted[x] THEN UNCHANGED <<cells, H0>>
     ELSE /\ cells' = [cells EXCEPT ![H[x]] = Poisoned]
          /\ H0' = [H0 EXCEPT ![x] = H[x]]
  /\ Goto(x, "increment")
  /\ UNCHANGED <<task_pool, head, tail, tasks, pool_state, owner, H, thread, executions>>

\* A task that may not be taken: isolated, or in a proxy its recipient is
\* likely to take.
Omit(x) ==
  LET t == At(H[x] - 1) IN
  /\ pc[x] = "steal" /\ t > 0
  /\ Isolated(x, t) \/ tag[t] = "both"
  /\ tasks_omitted' = [tasks_omitted EXCEPT ![x] = TRUE]
  /\ Goto(x, "increment")
  /\ UNCHANGED <<pool, tasks, pool_state, owner, thief, isolation, result, snapshot, executions>>

\* Mutant: the head is not moved back over tasks that were omitted.
HeadAfterStealKept(x) == head

HeadAfterSteal(x) == IF tasks_omitted[x] THEN H0[x] ELSE head

\* A task, or a proxy nobody waits for.
Take(x) ==
  LET t == At(H[x] - 1) IN
  /\ pc[x] = "steal" /\ t > 0 /\ ~Isolated(x, t)
  /\ result' = [result EXCEPT ![x] = t]
  /\ cells' = [cells EXCEPT ![H[x]] = IF tasks_omitted[x] THEN NULL ELSE Poisoned]
  /\ head' = HeadAfterSteal(x)
  /\ Goto(x, "unlock")
  /\ UNCHANGED <<task_pool, tail, tasks, pool_state, owner, thief, isolation, tasks_omitted,
                 snapshot, executions>>

\* Mutant: no news about the tasks that were omitted.
AfterUnlockQuiet(x) == "return"

\* The head was bumped over tasks that were omitted: the arena may look empty.
AfterUnlock(x) == IF tasks_omitted[x] THEN "advertise" ELSE "return"

UnlockTaskPool(x) ==
  /\ pc[x] = "unlock"
  /\ task_pool' = "published"
  /\ H' = [H EXCEPT ![x] = 0] /\ H0' = [H0 EXCEPT ![x] = 0]
  /\ Goto(x, AfterUnlock(x))
  /\ UNCHANGED <<head, tail, cells, tasks, pool_state, owner, thread, executions>>

\* The mailbox of Recipient: the first proxy whose isolation fits.
PopMail(i) ==
  LET fits == {j \in 1..Len(mail) : i = 0 \/ isolation_of[mail[j]] = i} IN
  /\ pc[Recipient] = "idle" /\ fits # {}
  /\ \E j \in fits :
       /\ \A k \in fits : j <= k
       /\ result' = [result EXCEPT ![Recipient] = mail[j]]
       /\ mail' = RemoveAt(mail, j)
  /\ isolation' = [isolation EXCEPT ![Recipient] = i]
  /\ Goto(Recipient, "mailed")
  /\ UNCHANGED <<pool, mode, spawned, isolation_of, tag, raced, pool_state, owner, thief, tasks_omitted,
                 snapshot, executions>>

\* The end of get_task, arena::steal_task or get_mailbox_task: the task is
\* returned to be executed.  A thief and the recipient still have to extract
\* the task of a proxy.
Return(x) ==
  LET t == result[x]
      proxy == x # Owner /\ t # NULL /\ tag[t] # "plain"
      got == t # NULL /\ (proxy => tag[t] = "both") IN
  /\ pc[x] \in {"return", "mailed"}
  /\ tag' = IF proxy THEN Extracted(t, IF pc[x] = "mailed" THEN "mailbox" ELSE "pool")
                     ELSE tag
  /\ executions' = [u \in Tasks |-> IF got /\ u = t THEN executions[u] + 1 ELSE executions[u]]
  /\ isolation_of' = [u \in Tasks |-> IF u = t /\ ~proxy /\ tag[t] = "plain" THEN 0
                                      ELSE isolation_of[u]]
  /\ raced' = raced \ {t}
  /\ Idle(x)
  /\ UNCHANGED <<pool, mode, spawned, mail, pool_state, owner, thief>>
-----------------------------------------------------------------------------
(***************************************************************************)
(* The state of the arena.                                                 *)
(***************************************************************************)

\* advertise_new_work
LoadState(x) ==
  /\ pc[x] = "advertise"
  /\ snapshot' = [snapshot EXCEPT ![x] = pool_state]
  /\ Goto(x, IF pool_state = "full" THEN "return" ELSE "mark_full")
  /\ UNCHANGED <<pool, tasks, pool_state, owner, thief, isolation, result, tasks_omitted,
                 executions>>

\* Busy was read, and the snapshot taken since says empty.
EmptiedMeanwhile(x) == snapshot[x] # "empty" /\ pool_state = "empty"

\* The compare-and-swap to SNAPSHOT_FULL and, if the state went from busy to
\* empty, a second one.
MarkFull(x) ==
  /\ pc[x] = "mark_full"
  /\ \/ /\ pool_state = snapshot[x]
        /\ pool_state' = "full"
        /\ snapshot' = [snapshot EXCEPT ![x] = "full"]
        /\ Goto(x, "return")
     \/ /\ EmptiedMeanwhile(x)
        /\ snapshot' = [snapshot EXCEPT ![x] = "empty"]
        /\ Goto(x, "mark_again")
        /\ UNCHANGED pool_state
     \/ /\ pool_state # snapshot[x] /\ ~EmptiedMeanwhile(x)
        /\ snapshot' = [snapshot EXCEPT ![x] = "full"]
        /\ Goto(x, "return")
        /\ UNCHANGED pool_state
  /\ UNCHANGED <<pool, tasks, owner, thief, isolation, result, tasks_omitted,
                 executions>>

MarkAgain(x) ==
  /\ pc[x] = "mark_again"
  /\ pool_state' = IF pool_state = "empty" THEN "full" ELSE pool_state
  /\ Goto(x, "return")
  /\ UNCHANGED <<pool, tasks, owner, thief, thread, executions>>

\* is_out_of_work: permission to take the snapshot.
BeginSnapshot(x) ==
  /\ x \in Watchers /\ mode.snapshots /\ pc[x] = "idle" /\ pool_state = "full"
  /\ pool_state' = x
  /\ Goto(x, "scan")
  /\ UNCHANGED <<pool, tasks, owner, thief, thread, executions>>

ScanPool(x) ==
  /\ pc[x] = "scan"
  /\ Goto(x, IF task_pool = "empty" THEN "absent" ELSE "scan_head")
  /\ UNCHANGED <<pool, tasks, pool_state, owner, thief, thread, executions>>

ScanHead(x) ==
  /\ pc[x] = "scan_head"
  /\ H' = [H EXCEPT ![x] = head]
  /\ Goto(x, "scan_tail")
  /\ UNCHANGED <<pool, tasks, pool_state, owner, H0, thread, executions>>

ScanTail(x) ==
  /\ pc[x] = "scan_tail"
  /\ Goto(x, IF H[x] < tail THEN "present" ELSE "absent")
  /\ UNCHANGED <<pool, tasks, pool_state, owner, thief, thread, executions>>

\* The compare-and-swap from busy succeeds.
SnapshotValid(x) == pool_state = x

\* Nobody has declared work meanwhile: the arena is empty, or full again.
EndSnapshot(x) ==
  /\ pc[x] \in {"present", "absent"}
  /\ H' = [H EXCEPT ![x] = 0]
  /\ pool_state' = IF ~SnapshotValid(x) THEN pool_state
                   ELSE IF pc[x] = "absent" THEN "empty" ELSE "full"
  /\ Goto(x, "idle")
  /\ UNCHANGED <<pool, tasks, owner, H0, thread, executions>>

-----------------------------------------------------------------------------
OwnerStep ==
  \/ StoreInPool \/ AcquireToRelocate \/ Relocate \/ CommitRelocated \/ CommitSpawned
  \/ DecrementTail \/ CheckHead \/ Acquire \/ TakeAtT \/ FinishGetTask
  \/ \E i \in Isolations : GetTask(i) \/ \E mailed \in BOOLEAN : Spawn(i, mailed)

ThiefStep(x) ==
  \/ IncrementHead(x) \/ BackOff(x) \/ CheckTail(x) \/ SkipHole(x) \/ Omit(x) \/ Take(x)
  \/ UnlockTaskPool(x)
  \/ \E i \in Isolations : LockTaskPool(x, i)
  \/ BeginSnapshot(x) \/ ScanPool(x) \/ ScanHead(x) \/ ScanTail(x) \/ EndSnapshot(x)

Next ==
  \/ OwnerStep
  \/ \E x \in Thieves : ThiefStep(x)
  \/ \E i \in Isolations : PopMail(i)
  \/ \E x \in Threads : \/ LoadState(x) \/ MarkFull(x) \/ MarkAgain(x)
                        \/ Return(x)

Spec == Init /\ [][Next]_vars
-----------------------------------------------------------------------------
\* One conjunct per variable: the values the fields and locals hold.
TypeOK ==
  /\ task_pool \in {"empty", "locked", "published"}
  /\ head \in 0..(Size + 1) /\ tail \in -1..Size
  /\ \A i \in 1..Size : cells[i] \in Tasks \cup {NULL, Poisoned}
  /\ spawned \in 0..MaxTasks
  /\ isolation_of \in [Tasks -> Isolations]
  /\ tag \in [Tasks -> {"plain", "both", "pool", "mailbox", "freed"}]
  /\ \A j \in 1..Len(mail) : mail[j] \in Tasks
  /\ pool_state \in {"empty", "full"} \cup Thieves
  /\ executions \in [Tasks -> Nat]
  /\ isolation \in [Threads -> Isolations] /\ result \in [Threads -> Tasks \cup {NULL}]
  /\ tasks_omitted \in [Threads -> BOOLEAN]
  /\ snapshot \in [Threads -> {"empty", "full"} \cup Thieves]
  /\ T \in -1..Size /\ T0 \in 0..Size /\ bound \in 0..(Size + 1)
  /\ task_pool_empty \in BOOLEAN
  /\ H \in [Thieves -> 0..(Size + 1)] /\ H0 \in [Thieves -> 0..Size]

Cells(t) == {i \in 1..Size : cells[i] = t}
Storing(t) == t = spawned /\ pc[Owner] \in {"prepare", "relocate", "relocated"}
One(b) == IF b THEN 1 ELSE 0

\* Whatever the owner and the thieves do at the same time, and however holes,
\* restored bounds and relocations move it: a task is at one position of the
\* pool, with one thread, or was executed, once (get_task, steal_task).  A task
\* in a proxy, which is in a pool and in a mailbox, is taken from only one of
\* them (extract_task).
ExactlyOnce ==
  \A t \in 1..spawned :
    executions[t]
      + (IF tag[t] = "plain"
           THEN Cardinality(Cells(t)) + Cardinality({x \in Threads : result[x] = t})
                  + One(Storing(t))
           ELSE One(result[Owner] = t) + One(tag[t] = "both")) = 1

PoolRefs(t) ==
  Cardinality(Cells(t)) + One(Storing(t))
    + Cardinality({x \in Thieves : result[x] = t /\ pc[x] # "mailed"})
MailRefs(t) ==
  Cardinality({j \in 1..Len(mail) : mail[j] = t})
    + Cardinality({x \in Thieves : result[x] = t /\ pc[x] = "mailed"})

\* A proxy is freed exactly when the second of its two places lets go of it:
\* neither place can still reach a freed proxy, and none is left behind
\* (task_and_tag and its cleaner bit).
ProxyFreedLast ==
  \A t \in 1..spawned : tag[t] # "plain" =>
    /\ PoolRefs(t) = One(tag[t] \in {"both", "pool"})
    /\ MailRefs(t) = One(tag[t] \in {"both", "mailbox"})

\* The owner and a thief never look at the same position ("victim/thief
\* arbitration algorithm failure"), and nobody looks at a poisoned one.
Arbitration ==
  /\ pc[Owner] = "take" => T \in 0..(Size - 1) /\ At(T) # Poisoned
  /\ \A x \in Thieves : pc[x] = "steal" =>
       /\ At(H[x] - 1) # Poisoned
       /\ pc[Owner] = "take" => H[x] - 1 # T
  /\ pc[Owner] = "finish" /\ task_pool_empty => bound \in {T, T + 1}

\* Between its operations the owner leaves no task out of the thieves' reach:
\* the tasks in the pool are those from head to tail, and if there is one the
\* pool is published (is_quiescent_local_task_pool_reset).
InReach ==
  pc[Owner] = "idle" /\ task_pool # "locked" =>
    /\ \A i \in 1..Size : cells[i] # Poisoned <=> i \in (head + 1)..tail
    /\ head < tail => task_pool = "published"

\* A thread that waits in an isolated region is given tasks of that region
\* only, from its own pool, by stealing or by mail.
IsolationKept ==
  [][\A x \in Threads, t \in Tasks :
       Return(x) /\ executions'[t] # executions[t]
         => isolation[x] \in {0, isolation_of[t]}]_vars

Quiet == \A x \in Threads : pc[x] = "idle"

\* The arena is not declared empty while there is a task to steal: a snapshot
\* misled by a head or tail that somebody moves is put right by that thread
\* ("can falsely trigger EMPTY state", steal_task).  The exception is a task
\* spawned while a thief that found nothing has yet to move the head back:
\* for spawning, "the missed wakeup is not a correctness problem"
\* (advertise_new_work).
NoWorkForgotten ==
  Quiet /\ pool_state = "empty"
    => \A t \in (1..spawned) \ raced : Cells(t) = {} \/ tag[t] \notin {"plain", "both"}
=============================================================================
