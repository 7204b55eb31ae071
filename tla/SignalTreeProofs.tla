------------------------- MODULE SignalTreeProofs -------------------------
(***************************************************************************)
(* Proof that no wakeup is lost and that no worker leaves a child asleep,  *)
(* for any number of system workers and threads, whatever the threads      *)
(* bind, leave, suspend, resume and shut down.                             *)
(***************************************************************************)
EXTENDS SignalTree, TLAPS

\* The types of what the two properties speak of.
NodeTypes ==
  /\ run \in [Workers -> BOOLEAN]
  /\ sem \in [Workers -> 0 .. SemValueMax]
  /\ pc \in [Workers -> {"none", "waiting", "sem", "rouse", "post", "hush",
                         "search", "work", "exited"}]
  /\ child \in [Workers -> 1 .. 3]
  /\ thread \in [Threads -> Places]

\* Worker w has told its k-th child to run: the children before the one in
\* turn, that one too once the word is stored, and all of them in the end.
Told(w, k) ==
  \/ pc[w] = "rouse" /\ k < child[w]
  \/ pc[w] = "post" /\ k <= child[w]
  \/ pc[w] \in {"search", "work", "exited"}

ToldRun ==
  \A w \in Workers : \A k \in 1 .. 2 :
    2 * w + k \in Workers /\ Told(w, k) => run[2 * w + k]

\* A worker posts to a child it has.
PostsToChild == \A w \in Workers : pc[w] = "post" => HasChild(w)

\* Without workers running there is no thread of one.
NotRunning == workers_running \/ \A w \in Workers : pc[w] \in {"none", "exited"}

\* The inductive invariant.
WakeInv == NodeTypes /\ ToldRun /\ PostsToChild /\ NotRunning /\ NoLostWakeup

\* What SemPost puts in the semaphore.
LEMMA MinOfTwo ==
  ASSUME NEW a \in Int, NEW b \in Int
  PROVE  Min({a, b}) \in {a, b} /\ Min({a, b}) <= a /\ Min({a, b}) <= b
<1>1. \E x \in {a, b} : \A y \in {a, b} : x <= y
  OBVIOUS
<1>2. QED
  BY <1>1 DEF Min

\* A post leaves the semaphore posted and within its limit, and changes no
\* other.
LEMMA Posted ==
  ASSUME NEW w \in Workers, sem \in [Workers -> 0 .. SemValueMax], SemPost(w)
  PROVE  /\ sem' \in [Workers -> 0 .. SemValueMax]
         /\ sem'[w] > 0
         /\ \A v \in Workers \ {w} : sem'[v] = sem[v]
<1> DEFINE m == Min({sem[w] + 1, SemValueMax})
<1>1. SemValueMax \in Int /\ SemValueMax > 0
  BY SignalTreeAssumption
<1>2. sem[w] \in Int /\ sem[w] >= 0
  BY <1>1
<1>3. m \in {sem[w] + 1, SemValueMax} /\ m <= SemValueMax
  BY <1>1, <1>2, MinOfTwo
<1>4. m \in 0 .. SemValueMax /\ m > 0
  BY <1>1, <1>2, <1>3
<1>5. sem' = [sem EXCEPT ![w] = m]
  BY DEF SemPost
<1> HIDE DEF m
<1>6. QED
  BY <1>4, <1>5

\* Workers are natural numbers, without gaps.
LEMMA WorkersAreNumbers ==
  /\ P \in Int
  /\ \A w \in Workers : w \in Int /\ 0 <= w
  /\ \A w \in Int, v \in Workers : 0 <= w /\ w <= v => w \in Workers
  /\ P > 1 => 0 \in Workers
BY SignalTreeAssumption DEF Workers

\* Where a thread can be, spelled out.
LEMMA PlacesSpelled ==
  /\ ResumePlaces = {"resuming out", "resuming in", "resuming overflow"}
  /\ Places = {"out", "in", "overflow", "resuming out", "resuming in", "resuming overflow",
               "init", "start", "bind", "waking", "stopping", "joining", "dangling"}
<1>1. ResumePlaces = {"resuming out", "resuming in", "resuming overflow"}
  <2>1. /\ Resuming["out"] = "resuming out" /\ Resuming["in"] = "resuming in"
        /\ Resuming["overflow"] = "resuming overflow"
    BY DEF Resuming
  <2>2. QED
    BY <2>1, Zenon DEF ResumePlaces, UserPlaces
<1>2. QED
  BY <1>1 DEF Places, UserPlaces

\* The invariant holds initially: no worker has started.
LEMMA WakeInit == Init => WakeInv
<1> SUFFICES ASSUME Init PROVE WakeInv
  OBVIOUS
<1>1. SemValueMax \in Int /\ SemValueMax > 0
  BY SignalTreeAssumption
<1>2. NodeTypes
  <2>1. "out" \in Places
    BY PlacesSpelled
  <2>2. QED
    BY <1>1, <2>1 DEF Init, NodeTypes
<1>3. \A w \in Workers : pc[w] = "none"
  BY DEF Init
<1>4. QED
  BY <1>2, <1>3 DEF WakeInv, ToldRun, Told, PostsToChild, NotRunning, NoLostWakeup

\* Every step of a system worker preserves the invariant.
LEMMA WorkerWakes ==
  ASSUME WakeInv, NEW w \in Workers, WorkerStep(w)
  PROVE  WakeInv'
<1>0. NotRunning'
  <2>1. pc[w] \notin {"none", "exited"} /\ UNCHANGED workers_running
    BY Zenon DEF WorkerStep, WaitTest, SemWait, Rouse, NotifyPost, Hush, Exit, GoToSleep,
      FailToSteal, FindWork, FinishWork, At, global
  <2>2. QED
    BY <2>1 DEF WakeInv, NotRunning
<1> USE WorkersAreNumbers
<1> USE DEF WakeInv, NodeTypes, At, Goto
<1>1. CASE WaitTest(w)
  <2> USE <1>1 DEF WaitTest, nodes
  <2>1. NodeTypes'
    OBVIOUS
  <2>2. ToldRun'
    BY DEF ToldRun, Told
  <2>3. PostsToChild'
    BY DEF PostsToChild, HasChild, Child
  <2>4. NoLostWakeup'
    BY DEF NoLostWakeup, AboutToPost, Child
  <2>5. QED
    BY <1>0, <2>1, <2>2, <2>3, <2>4
<1>2. CASE SemWait(w)
  <2> USE <1>2 DEF SemWait
  <2>1. NodeTypes'
    BY SignalTreeAssumption
  <2>2. ToldRun'
    BY DEF ToldRun, Told
  <2>3. PostsToChild'
    BY DEF PostsToChild, HasChild, Child
  <2>4. NoLostWakeup'
    BY DEF NoLostWakeup, AboutToPost, Child
  <2>5. QED
    BY <1>0, <2>1, <2>2, <2>3, <2>4
<1>3. CASE Rouse(w) /\ HasChild(w)
  <2> USE <1>3 DEF Rouse, NotifyRun, Store
  <2>1. NodeTypes'
    BY Zenon DEF HasChild
  <2>2. ToldRun'
    BY DEF ToldRun, Told, HasChild, Child
  <2>3. PostsToChild'
    BY DEF PostsToChild, HasChild, Child
  <2>4. NoLostWakeup'
    BY DEF NoLostWakeup, AboutToPost, HasChild, Child
  <2>5. QED
    BY <1>0, <2>1, <2>2, <2>3, <2>4
<1>4. CASE Rouse(w) /\ ~HasChild(w)
  <2> USE <1>4 DEF Rouse
  <2>1. NodeTypes'
    OBVIOUS
  <2>2. ASSUME NEW k \in 1 .. 2, 2 * w + k \in Workers
        PROVE  k < child[w]
    <3>1. child[w] \in 1 .. 3 /\ w \in Int /\ 0 <= w
      OBVIOUS
    <3>2. CASE child[w] <= k
      <4>1. 2 * w + child[w] \in Workers
        BY <2>2, <3>1, <3>2
      <4>2. QED
        BY <3>1, <3>2, <4>1 DEF HasChild, Child
    <3>3. QED
      BY <3>1, <3>2
  <2>3. ToldRun'
    BY <2>2 DEF ToldRun, Told
  <2>4. PostsToChild'
    BY DEF PostsToChild, HasChild, Child
  <2>5. NoLostWakeup'
    BY DEF NoLostWakeup, AboutToPost, Child
  <2>6. QED
    BY <1>0, <2>1, <2>3, <2>4, <2>5
<1>5. CASE NotifyPost(w)
  <2> USE <1>5 DEF NotifyPost
  <2>1. HasChild(w) /\ Child(w) \in Workers
    BY DEF PostsToChild, HasChild
  <2>2. /\ sem' \in [Workers -> 0 .. SemValueMax]
        /\ sem'[Child(w)] > 0
        /\ \A v \in Workers \ {Child(w)} : sem'[v] = sem[v]
    BY <2>1, Posted
  <2>3. NodeTypes'
    <3>1. child[w] + 1 \in 1 .. 3
      BY <2>1 DEF HasChild
    <3>2. QED
      BY <2>2, <3>1, Zenon
  <2>4. ToldRun'
    BY <2>1 DEF ToldRun, Told, HasChild
  <2>5. PostsToChild'
    BY DEF PostsToChild, HasChild, Child
  <2>6. NoLostWakeup'
    BY <2>1, <2>2 DEF NoLostWakeup, AboutToPost, Child
  <2>7. QED
    BY <1>0, <2>3, <2>4, <2>5, <2>6
<1>6. CASE Hush(w) /\ HasChild(w)
  <2>1. NodeTypes'
    <3>1. /\ run' = [run EXCEPT ![Child(w)] = FALSE]
          /\ child' = [child EXCEPT ![w] = @ + 1]
          /\ UNCHANGED <<sem, pc, thread>>
      BY <1>6, Zenon DEF Hush, Store
    <3>2. child[w] + 1 \in 1 .. 3
      BY <1>6 DEF HasChild
    <3>3. QED
      BY <3>1, <3>2, Zenon
  <2> USE <1>6 DEF Hush, Store
  <2>2. ToldRun'
    BY DEF ToldRun, Told, HasChild, Child
  <2>3. PostsToChild'
    BY DEF PostsToChild, HasChild, Child
  <2>4. NoLostWakeup'
    BY DEF NoLostWakeup, AboutToPost, HasChild, Child
  <2>5. QED
    BY <1>0, <2>1, <2>2, <2>3, <2>4
<1>7. CASE Hush(w) /\ ~HasChild(w)
  <2>1. /\ pc' = [pc EXCEPT ![w] = "waiting"]
        /\ UNCHANGED <<run, sem, child, thread>>
    BY <1>7, Zenon DEF Hush
  <2>2. NodeTypes'
    BY <2>1
  <2>3. ToldRun'
    BY <2>1 DEF ToldRun, Told
  <2>4. PostsToChild'
    BY <2>1 DEF PostsToChild, HasChild, Child
  <2>5. pc[w] = "hush"
    BY <1>7 DEF Hush
  <2>6. NoLostWakeup'
    BY <2>1, <2>5 DEF NoLostWakeup, AboutToPost, Child
  <2>7. QED
    BY <1>0, <2>2, <2>3, <2>4, <2>6
<1>8. CASE GoToSleep(w)
  <2> USE <1>8 DEF GoToSleep, nodes
  <2>1. NodeTypes'
    OBVIOUS
  <2>2. ToldRun'
    BY DEF ToldRun, Told
  <2>3. PostsToChild'
    BY DEF PostsToChild, HasChild, Child
  <2>4. NoLostWakeup'
    BY DEF NoLostWakeup, AboutToPost, Child
  <2>5. QED
    BY <1>0, <2>1, <2>2, <2>3, <2>4
<1>9. CASE Exit(w) \/ FindWork(w) \/ FinishWork(w) \/ FailToSteal(w)
  <2> USE <1>9 DEF Exit, FindWork, FinishWork, FailToSteal, nodes
  <2>1. NodeTypes'
    OBVIOUS
  <2>2. ToldRun'
    BY DEF ToldRun, Told
  <2>3. PostsToChild'
    BY DEF PostsToChild, HasChild, Child
  <2>4. NoLostWakeup'
    BY DEF NoLostWakeup, AboutToPost, Child
  <2>5. QED
    BY <1>0, <2>1, <2>2, <2>3, <2>4
<1>10. QED
  BY <1>1, <1>2, <1>3, <1>4, <1>5, <1>6, <1>7, <1>8, <1>9 DEF WorkerStep

\* The threads that have stored a 1 in the root's node and not posted yet.
Posting == {"waking", "stopping"} \cup ResumePlaces

\* A step of a thread changes the root's node at most.  It preserves the
\* invariant if it leaves the root, should the root sleep although it is to
\* run, with a posted semaphore or a thread about to post it.
LEMMA RootOnly ==
  ASSUME WakeInv,
         UNCHANGED <<pc, child>>,
         NodeTypes', NotRunning',
         \A w \in Workers \ {0} : run'[w] = run[w] /\ sem'[w] = sem[w],
         0 \in Workers /\ pc[0] = "sem" /\ run'[0] =>
           sem'[0] > 0 \/ \E t \in Threads : thread'[t] \in Posting
  PROVE  WakeInv'
<1> USE WorkersAreNumbers
<1>1. ToldRun'
  <2>1. \A w \in Workers : \A k \in 1 .. 2 : 2 * w + k # 0
    OBVIOUS
  <2>2. QED
    BY <2>1, Zenon DEF WakeInv, ToldRun, Told
<1>2. PostsToChild'
  BY DEF WakeInv, PostsToChild, HasChild, Child
<1>3. NoLostWakeup'
  BY DEF WakeInv, NoLostWakeup, AboutToPost, Child, Posting
<1>4. QED
  BY <1>1, <1>2, <1>3 DEF WakeInv

\* A thread's step that changes no node, and is no post, changes nothing the
\* invariant speaks of.
LEMMA NodesKept ==
  ASSUME WakeInv,
         UNCHANGED <<pc, child, run, sem>>,
         NodeTypes', NotRunning',
         \A t \in Threads : thread[t] \in Posting => thread'[t] \in Posting
  PROVE  WakeInv'
<1>1. 0 \in Workers /\ pc[0] = "sem" /\ run[0] =>
        \/ sem[0] > 0
        \/ \E t \in Threads : thread[t] \in Posting
        \/ \E p \in Workers : pc[p] = "post" /\ Child(p) = 0
  BY DEF WakeInv, NoLostWakeup, AboutToPost, Posting
<1>2. \A p \in Workers : pc[p] = "post" => Child(p) # 0
  BY WorkersAreNumbers DEF WakeInv, NodeTypes, Child
<1>3. QED
  BY <1>1, <1>2, RootOnly

\* A post to the root, by a thread that has stored the word before.  (With no
\* system workers there is no node, and no thread gets here.)
LEMMA RootPosted ==
  ASSUME WakeInv, SemPost(0), NotRunning',
         UNCHANGED <<pc, child, run>>,
         thread' \in [Threads -> Places]
  PROVE  WakeInv'
<1>1. /\ sem' \in [Workers -> 0 .. SemValueMax]
      /\ 0 \in Workers => sem'[0] > 0
      /\ \A v \in Workers \ {0} : sem'[v] = sem[v]
  <2>1. CASE 0 \in Workers
    BY <2>1, Posted DEF WakeInv, NodeTypes
  <2>2. CASE 0 \notin Workers
    <3>1. sem' = sem
      BY <2>2 DEF SemPost, WakeInv, NodeTypes
    <3>2. QED
      BY <2>2, <3>1 DEF WakeInv, NodeTypes
  <2>3. QED
    BY <2>1, <2>2
<1>2. NodeTypes'
  BY <1>1 DEF WakeInv, NodeTypes
<1>3. QED
  BY <1>1, <1>2, RootOnly

\* Every step of a thread preserves the invariant.
LEMMA ThreadWakes ==
  ASSUME WakeInv, NEW t \in Threads, RuntimeStep(t) \/ UserStep(t)
  PROVE  WakeInv'
<1> USE WorkersAreNumbers
<1> USE DEF ThreadAt, ThreadGoto
<1>0. NotRunning'
  <2>1. CASE InitPublish(t) /\ ~published
    BY <2>1 DEF InitPublish, NotRunning
  <2>2. CASE StartWorkers(t)
    BY <2>2, Zenon DEF StartWorkers, Fail, WakeInv, NotRunning, global, workers
  <2>3. CASE Join(t)
    BY <2>3 DEF Join, workers, NotRunning
  <2>4. CASE ~(InitPublish(t) /\ ~published) /\ ~StartWorkers(t) /\ ~Join(t)
    <3>1. UNCHANGED <<workers_running, pc>>
      BY <2>4, Zenon DEF RuntimeStep, UserStep, InitPublish, Bind, WakePost, ResumePost,
        StopPost, InitCheck, Leave, LeaveOverflow, Suspend, Resume, EndCilk, Fail, global,
        workers
    <3>2. QED
      BY <3>1 DEF WakeInv, NotRunning
  <2>5. QED
    BY <2>1, <2>2, <2>3, <2>4
<1>1. ASSUME NEW why, Fail(why)
      PROVE  WakeInv'
  <2>1. UNCHANGED <<pc, child, run, sem, thread>>
    BY <1>1 DEF Fail, nodes, workers
  <2>2. NodeTypes'
    BY <2>1, PlacesSpelled DEF WakeInv, NodeTypes
  <2>3. QED
    BY <2>1, <2>2, <1>0, NodesKept
<1>2. CASE InitCheck(t) \/ LeaveOverflow(t)
  <2>1. UNCHANGED <<pc, child, run, sem>>
    BY <1>2 DEF InitCheck, LeaveOverflow, nodes, workers
  <2>2. NodeTypes'
    BY <1>2, <2>1, PlacesSpelled DEF InitCheck, LeaveOverflow, WakeInv, NodeTypes
  <2>3. \A u \in Threads : thread[u] \in Posting => thread'[u] \in Posting
    BY <1>2, PlacesSpelled DEF InitCheck, LeaveOverflow, WakeInv, NodeTypes, Posting
  <2>4. QED
    BY <2>1, <2>2, <2>3, <1>0, NodesKept
<1>3. CASE InitPublish(t) /\ published
  <2>1. UNCHANGED <<pc, child, run, sem>>
    BY <1>3 DEF InitPublish, nodes, workers
  <2>2. NodeTypes'
    BY <1>3, <2>1, PlacesSpelled DEF InitPublish, WakeInv, NodeTypes
  <2>3. \A u \in Threads : thread[u] \in Posting => thread'[u] \in Posting
    BY <1>3, PlacesSpelled DEF InitPublish, WakeInv, NodeTypes, Posting
  <2>4. QED
    BY <2>1, <2>2, <2>3, <1>0, NodesKept
<1>4. CASE InitPublish(t) /\ ~published
  <2>1. SemValueMax \in Int /\ SemValueMax > 0
    BY SignalTreeAssumption
  <2>2. NodeTypes'
    <3>1. /\ run' = [w \in Workers |-> FALSE] /\ sem' = [w \in Workers |-> 0]
          /\ pc' = [w \in Workers |-> "none"] /\ child' = [w \in Workers |-> 1]
          /\ thread' = [thread EXCEPT ![t] = "start"]
      BY <1>4 DEF InitPublish
    <3>2. "start" \in Places
      BY PlacesSpelled
    <3>3. QED
      BY <2>1, <3>1, <3>2 DEF WakeInv, NodeTypes
  <2>3. \A w \in Workers : pc'[w] = "none"
    BY <1>4 DEF InitPublish
  <2>4. QED
    BY <1>0, <2>2, <2>3 DEF WakeInv, ToldRun, Told, PostsToChild, NoLostWakeup
<1>5. CASE StartWorkers(t)
  <2>1. CASE workers_running
    <3>1. UNCHANGED <<pc, child, run, sem>>
      BY <1>5, <2>1 DEF StartWorkers, nodes, workers
    <3>2. NodeTypes'
      BY <1>5, <2>1, <3>1, PlacesSpelled DEF StartWorkers, WakeInv, NodeTypes
    <3>3. \A u \in Threads : thread[u] \in Posting => thread'[u] \in Posting
      BY <1>5, <2>1, PlacesSpelled DEF StartWorkers, WakeInv, NodeTypes, Posting
    <3>4. QED
      BY <3>1, <3>2, <3>3, <1>0, NodesKept
  <2>2. CASE ~workers_running /\ published
    <3>1. /\ pc' = [w \in Workers |-> "waiting"]
          /\ thread' = [thread EXCEPT ![t] = "bind"]
          /\ UNCHANGED <<child, run, sem>>
      BY <1>5, <2>2, Zenon DEF StartWorkers, nodes
    <3>2. NodeTypes'
      BY <3>1, PlacesSpelled DEF WakeInv, NodeTypes
    <3>3. \A w \in Workers : pc'[w] = "waiting"
      BY <3>1
    <3>4. QED
      BY <1>0, <3>2, <3>3 DEF WakeInv, ToldRun, Told, PostsToChild, NoLostWakeup
  <2>3. CASE ~workers_running /\ ~published
    BY <1>1, <1>5, <2>3, Zenon DEF StartWorkers
  <2>4. QED
    BY <2>1, <2>2, <2>3
<1>6. CASE Bind(t)
  <2>1. CASE ~published \/ work_done
    BY <1>1, <1>6, <2>1, Zenon DEF Bind
  <2>2. CASE published /\ ~work_done /\ Q < Slots /\ FirstIn /\ P > 1
    <3>1. /\ run' = [run EXCEPT ![0] = TRUE]
          /\ thread' = [thread EXCEPT ![t] = "waking"]
          /\ UNCHANGED <<pc, child, sem>>
      <4>1. ~(Q >= Slots)
        BY <1>6, <2>2, SignalTreeAssumption DEF FirstIn
      <4>2. QED
        BY <1>6, <2>2, <4>1, Zenon DEF Bind, Store, workers, Fail
    <3>2. NodeTypes' /\ thread'[t] \in Posting
      BY <3>1, PlacesSpelled, Zenon DEF WakeInv, NodeTypes, Posting
    <3>3. \A w \in Workers \ {0} : run'[w] = run[w] /\ sem'[w] = sem[w]
      BY <3>1, PlacesSpelled DEF WakeInv, NodeTypes
    <3>4. QED
      BY <3>1, <3>2, <3>3, <1>0, RootOnly
  <2>3. CASE published /\ ~work_done /\ ~(Q < Slots /\ FirstIn /\ P > 1)
    <3>1. UNCHANGED <<pc, child, run, sem>>
      BY <1>6, <2>3, Zenon DEF Bind, nodes, workers
    <3>2. thread[t] = "bind" /\ \E place \in {"in", "overflow"} :
            thread' = [thread EXCEPT ![t] = place]
      BY <1>6, <2>3, Zenon DEF Bind
    <3>3. NodeTypes'
      BY <3>1, <3>2, PlacesSpelled DEF WakeInv, NodeTypes
    <3>4. \A u \in Threads : thread[u] \in Posting => thread'[u] \in Posting
      BY <3>2, PlacesSpelled DEF WakeInv, NodeTypes, Posting
    <3>5. QED
      BY <3>1, <3>3, <3>4, <1>0, NodesKept
  <2>4. QED
    BY <2>1, <2>2, <2>3
<1>7. CASE WakePost(t) \/ ResumePost(t) \/ StopPost(t)
  <2>1. CASE \E why : Fail(why)
    BY <1>1, <2>1
  <2>2. CASE ~(\E why : Fail(why))
    <3>1. SemPost(0) /\ UNCHANGED <<pc, child, run>>
      BY <1>7, <2>2 DEF WakePost, ResumePost, StopPost, workers
    <3>2. \E place \in {"out", "in", "overflow", "joining"} :
            thread' = [thread EXCEPT ![t] = place]
      BY <1>7, <2>2 DEF WakePost, ResumePost, StopPost, UserPlaces
    <3>3. thread' \in [Threads -> Places]
      BY <3>2, PlacesSpelled DEF WakeInv, NodeTypes
    <3>4. QED
      BY <3>1, <3>3, <1>0, RootPosted
  <2>3. QED
    BY <2>1, <2>2
<1>8. CASE Suspend(t) \/ (Leave(t) /\ LastOut /\ P > 1)
  <2>1. /\ run' = [run EXCEPT ![0] = FALSE]
        /\ thread' = [thread EXCEPT ![t] = "out"] \/ thread' = thread
        /\ UNCHANGED <<pc, child, sem>>
    BY <1>8 DEF Suspend, Leave, StoreRoot, Store, workers
  <2>2. NodeTypes'
    BY <2>1, PlacesSpelled, Zenon DEF WakeInv, NodeTypes
  <2>3. /\ \A w \in Workers \ {0} : run'[w] = run[w] /\ sem'[w] = sem[w]
        /\ 0 \in Workers => ~run'[0]
    BY <2>1, PlacesSpelled DEF WakeInv, NodeTypes
  <2>4. QED
    BY <2>1, <2>2, <2>3, <1>0, RootOnly
<1>9. CASE Leave(t) /\ ~(LastOut /\ P > 1)
  <2>1. /\ thread' = [thread EXCEPT ![t] = "out"] /\ thread[t] = "in"
        /\ UNCHANGED <<pc, child, run, sem>>
    BY <1>9, Zenon DEF Leave, StoreRoot, workers
  <2>2. NodeTypes'
    BY <2>1, PlacesSpelled DEF WakeInv, NodeTypes
  <2>3. \A u \in Threads : thread[u] \in Posting => thread'[u] \in Posting
    BY <2>1, PlacesSpelled DEF WakeInv, NodeTypes, Posting
  <2>4. QED
    BY <2>1, <2>2, <2>3, <1>0, NodesKept
<1>10. CASE Resume(t)
  <2>1. /\ run' = [run EXCEPT ![0] = TRUE]
        /\ \E place \in ResumePlaces : thread' = [thread EXCEPT ![t] = place]
        /\ UNCHANGED <<pc, child, sem>>
    BY <1>10, Zenon DEF Resume, ResumePlaces, Store, workers
  <2>2. NodeTypes' /\ thread'[t] \in Posting
    BY <2>1, PlacesSpelled, Zenon DEF WakeInv, NodeTypes, Posting
  <2>3. \A w \in Workers \ {0} : run'[w] = run[w] /\ sem'[w] = sem[w]
    BY <2>1, PlacesSpelled DEF WakeInv, NodeTypes
  <2>4. QED
    BY <2>1, <2>2, <2>3, <1>0, RootOnly
<1>11. ASSUME Deinit(t), UNCHANGED <<pc, child, run, sem>>,
              \A w \in Workers : pc[w] # "sem"
       PROVE  WakeInv'
  <2>1. thread' \in [Threads -> Places]
    BY <1>11, PlacesSpelled DEF Deinit, WakeInv, NodeTypes
  <2>2. NodeTypes'
    BY <1>11, <2>1, PlacesSpelled DEF WakeInv, NodeTypes
  <2>3. QED
    BY <1>11, <2>2, <1>0, RootOnly
<1>12. CASE EndCilk(t)
  <2>1. CASE \E why : Fail(why)
    BY <1>1, <2>1
  <2>2. CASE ~(\E why : Fail(why)) /\ workers_running /\ P > 1
    <3>1. /\ run' = [run EXCEPT ![0] = TRUE]
          /\ thread' = [thread EXCEPT ![t] = "stopping"]
          /\ UNCHANGED <<pc, child, sem>>
      BY <1>12, <2>2, Zenon DEF EndCilk, StoreRoot, Store, workers
    <3>2. NodeTypes' /\ thread'[t] \in Posting
      BY <3>1, PlacesSpelled, Zenon DEF WakeInv, NodeTypes, Posting
    <3>3. \A w \in Workers \ {0} : run'[w] = run[w] /\ sem'[w] = sem[w]
      BY <3>1, PlacesSpelled DEF WakeInv, NodeTypes
    <3>4. QED
      BY <3>1, <3>2, <3>3, <1>0, RootOnly
  <2>3. CASE ~(\E why : Fail(why)) /\ workers_running /\ ~(P > 1)
    <3>1. /\ thread[t] \in UserPlaces /\ thread' = [thread EXCEPT ![t] = "joining"]
          /\ UNCHANGED <<pc, child, run, sem>>
      BY <1>12, <2>3, Zenon DEF EndCilk, StoreRoot, workers
    <3>2. NodeTypes'
      BY <3>1, PlacesSpelled DEF WakeInv, NodeTypes
    <3>3. \A u \in Threads : thread[u] \in Posting => thread'[u] \in Posting
      BY <3>1, PlacesSpelled DEF WakeInv, NodeTypes, Posting, UserPlaces
    <3>4. QED
      BY <3>1, <3>2, <3>3, <1>0, NodesKept
  <2>4. CASE ~(\E why : Fail(why)) /\ ~workers_running
    <3>1. Deinit(t) /\ UNCHANGED <<pc, child, run, sem>>
      BY <1>12, <2>4, Zenon DEF EndCilk, workers
    <3>2. \A w \in Workers : pc[w] # "sem"
      BY <2>4 DEF WakeInv, NotRunning
    <3>3. QED
      BY <3>1, <3>2, <1>11
  <2>5. QED
    BY <2>1, <2>2, <2>3, <2>4
<1>13. CASE Join(t)
  <2>1. Deinit(t) /\ UNCHANGED <<pc, child, run, sem>>
    BY <1>13 DEF Join, nodes, workers
  <2>2. \A w \in Workers : pc[w] # "sem"
    BY <1>13 DEF Join
  <2>3. QED
    BY <2>1, <2>2, <1>11
<1>14. QED
  BY <1>2, <1>3, <1>4, <1>5, <1>6, <1>7, <1>8, <1>9, <1>10, <1>12, <1>13
  DEF RuntimeStep, UserStep

\* The invariant holds of every behaviour of the signal tree (scheduler.c,
\* signal_node.c, cilk_api.c).
THEOREM WakeInvariance == Spec => []WakeInv
<1>1. WakeInv /\ [Next]_vars => WakeInv'
  <2> SUFFICES ASSUME WakeInv, [Next]_vars PROVE WakeInv'
    OBVIOUS
  <2>1. CASE Next
    BY <2>1, WorkerWakes, ThreadWakes DEF Next
  <2>2. CASE UNCHANGED vars
    <3>1. UNCHANGED <<pc, child, run, sem, thread, workers_running>>
      BY <2>2 DEF vars, global, nodes, workers
    <3>2. NodeTypes' /\ NotRunning'
      BY <3>1 DEF WakeInv, NodeTypes, NotRunning
    <3>3. QED
      BY <3>1, <3>2, NodesKept
  <2>3. QED
    BY <2>1, <2>2
<1>2. QED
  BY WakeInit, <1>1, PTL DEF Spec

\* No wakeup is lost between the test of the word and the wait on the
\* semaphore (signal_node_wait), for any number of workers and threads.
THEOREM NoLostWakeupHolds == Spec => []NoLostWakeup
<1>1. WakeInv => NoLostWakeup
  BY DEF WakeInv
<1>2. QED
  BY WakeInvariance, <1>1, PTL

\* A worker that looks for work, has some or has left its loop has both of
\* its children told to run (notify_children), for any number of workers and
\* threads.
THEOREM ChildrenRousedHolds == Spec => []ChildrenRoused
<1>1. WakeInv => ChildrenRoused
  <2>1. \A w \in Workers : \A c \in {2 * w + 1, 2 * w + 2} :
          \E k \in 1 .. 2 : c = 2 * w + k
    BY WorkersAreNumbers
  <2>2. QED
    BY <2>1 DEF WakeInv, ToldRun, Told, ChildrenRoused
<1>2. QED
  BY WakeInvariance, <1>1, PTL
===========================================================================
