----------------------------- MODULE SignalTree -----------------------------
(***************************************************************************)
(* Starting, waking, putting to sleep and stopping the system workers.     *)
(*                                                                         *)
(* The P - 1 system workers form a binary tree: worker n signals workers   *)
(* 2n + 1 and 2n + 2 (scheduler.c, notify_children), and user threads      *)
(* signal only worker 0.  Each worker owns a signal node: the word "run"   *)
(* and a semaphore (signal_node.c).  A message 1 stores the word and then  *)
(* posts, in two steps; a message 0 only stores.                           *)
(*                                                                         *)
(* User threads initialise and start the runtime when they bind, count     *)
(* themselves in g->Q, and may shut the runtime down (cilk_api.c).  What   *)
(* they do under the global OS mutex is one step, except where it signals  *)
(* or joins.  A thread that finds no free worker slot gets an overflow     *)
(* worker, which nobody steals from and Q does not count.                  *)
(*                                                                         *)
(* A call of __cilkrts_bug, and a use of freed state, ends the program;    *)
(* failed says which.                                                      *)
(***************************************************************************)
EXTENDS Integers, FiniteSets, FiniteSetsExt

CONSTANTS
  P,            \* g->P: system workers plus one
  Threads,      \* threads of the program that may enter Cilk
  NoOne,        \* no owner of the global OS mutex
  Slots,        \* g->total_workers - (P - 1): worker slots for user threads
  MaxFailures,  \* g->max_steal_failures
  SemValueMax,  \* the largest count of a semaphore
  Suspends      \* does the program call __cilkrts_suspend and _resume?

ASSUME SignalTreeAssumption ==
  /\ P \in Nat \ {0} /\ Slots \in Nat \ {0} /\ MaxFailures \in Nat
  /\ SemValueMax \in Nat \ {0} /\ Suspends \in BOOLEAN /\ NoOne \notin Threads

VARIABLES
  published, workers_running, work_done, Q,   \* global_state_t
  mutex,                \* owner of the global OS mutex
  run, sem,             \* the signal nodes
  steal_failure_count,  \* of worker 0, the only one whose count is read
  pc, child,            \* of a system worker; child: which one it signals next
  thread,               \* where a user thread is
  failed                \* how the program died, "no" while it has not

global == <<published, workers_running, work_done, Q>>
nodes == <<run, sem>>
workers == <<steal_failure_count, pc, child>>
vars == <<global, mutex, nodes, workers, thread, failed>>

Workers == 0 .. P - 2

\* Where a thread executes the program, and where it is while it calls
\* __cilkrts_resume from there.
UserPlaces == {"out", "in", "overflow"}
Resuming ==
  [out |-> "resuming out", in |-> "resuming in", overflow |-> "resuming overflow"]
ResumePlaces == {Resuming[place] : place \in UserPlaces}
Places == UserPlaces \cup ResumePlaces \cup
  {"init", "start", "bind", "waking", "stopping", "joining", "dangling"}

\* The threads that g->Q counts, and those that are in Cilk at all.
Counted == {t \in Threads : thread[t] \in {"waking", "in", "resuming in"}}
Inside == Counted \cup {t \in Threads : thread[t] \in {"overflow", "resuming overflow"}}

Init ==
  /\ published = FALSE /\ workers_running = FALSE /\ work_done = FALSE /\ Q = 0
  /\ mutex = NoOne
  /\ run = [w \in Workers |-> FALSE]
  /\ sem = [w \in Workers |-> 0]
  /\ steal_failure_count = 0
  /\ pc = [w \in Workers |-> "none"]
  /\ child = [w \in Workers |-> 1]
  /\ thread = [t \in Threads |-> "out"]
  /\ failed = "no"

-----------------------------------------------------------------------------
\* Signal nodes.

\* signal_cilk_semaphore: sem_post fails, unnoticed, at the largest count.
SemPost(w) == sem' = [sem EXCEPT ![w] = Min({@ + 1, SemValueMax})]

Store(w, msg) == run' = [run EXCEPT ![w] = msg]

\* Only when there are system workers is there a root to signal.
StoreRoot(msg) == IF P > 1 THEN Store(0, msg) ELSE UNCHANGED run

-----------------------------------------------------------------------------
\* System workers.

At(w, place) == failed = "no" /\ pc[w] = place
Goto(w, place) == pc' = [pc EXCEPT ![w] = place]

\* notify_children: the child in turn, and whether there is one.
Child(w) == 2 * w + child[w]
HasChild(w) == child[w] <= 2 /\ Child(w) \in Workers

\* The loop test of signal_node_wait, on startup and when asleep.
WaitTest(w) ==
  /\ At(w, "waiting")
  /\ Goto(w, IF run[w] THEN "rouse" ELSE "sem")
  /\ child' = [child EXCEPT ![w] = 1]
  /\ UNCHANGED <<global, mutex, nodes, steal_failure_count, thread, failed>>

\* wait_on_cilk_semaphore
SemWait(w) ==
  /\ At(w, "sem") /\ sem[w] > 0
  /\ sem' = [sem EXCEPT ![w] = @ - 1]
  /\ Goto(w, "waiting")
  /\ UNCHANGED <<global, mutex, run, steal_failure_count, child, thread, failed>>

\* Mutant: the word is stored and the semaphore is not posted.
NotifyRunNoPost(w) ==
  /\ Store(Child(w), TRUE)
  /\ child' = [child EXCEPT ![w] = @ + 1]
  /\ UNCHANGED <<pc, steal_failure_count>>

\* Mutant: only the first child is told.
NotifyRunFirst(w) ==
  /\ Store(IF child[w] = 1 THEN Child(w) ELSE w, TRUE)
  /\ Goto(w, "post")
  /\ UNCHANGED <<child, steal_failure_count>>

\* signal_node_msg(child, 1): the store.
NotifyRun(w) ==
  /\ Store(Child(w), TRUE)
  /\ Goto(w, "post")
  /\ UNCHANGED <<child, steal_failure_count>>

\* notify_children_run, and then the worker is awake.
Rouse(w) ==
  /\ At(w, "rouse")
  /\ \/ HasChild(w) /\ NotifyRun(w)
     \/ /\ ~HasChild(w)
        /\ Goto(w, "search")
        /\ steal_failure_count' = IF w = 0 THEN 0 ELSE steal_failure_count
        /\ UNCHANGED <<run, child>>
  /\ UNCHANGED <<global, mutex, sem, thread, failed>>

\* signal_node_msg(child, 1): the post.
NotifyPost(w) ==
  /\ At(w, "post")
  /\ SemPost(Child(w))
  /\ child' = [child EXCEPT ![w] = @ + 1]
  /\ Goto(w, "rouse")
  /\ UNCHANGED <<global, mutex, run, steal_failure_count, thread, failed>>

\* notify_children_wait, and then the worker waits.
Hush(w) ==
  /\ At(w, "hush")
  /\ \/ /\ HasChild(w)
        /\ Store(Child(w), FALSE)
        /\ child' = [child EXCEPT ![w] = @ + 1]
        /\ UNCHANGED pc
     \/ ~HasChild(w) /\ Goto(w, "waiting") /\ UNCHANGED <<run, child>>
  /\ UNCHANGED <<global, mutex, sem, steal_failure_count, thread, failed>>

\* signal_node_should_wait is asked, and says yes.  The root asks only after
\* enough failed steals.
Tired(w) == w = 0 => steal_failure_count > MaxFailures
ShouldWait(w) == Tired(w) /\ ~run[w]

\* worker_runnable: SCHEDULE_EXIT.
Exit(w) ==
  /\ At(w, "search") /\ work_done
  /\ Goto(w, "exited")
  /\ UNCHANGED <<global, mutex, nodes, steal_failure_count, child, thread, failed>>

\* worker_runnable: SCHEDULE_WAIT.
GoToSleep(w) ==
  /\ At(w, "search") /\ ~work_done /\ ShouldWait(w)
  /\ Goto(w, "hush")
  /\ child' = [child EXCEPT ![w] = 1]
  /\ UNCHANGED <<global, mutex, nodes, steal_failure_count, thread, failed>>

\* worker_runnable: SCHEDULE_RUN, and check_for_work finds nothing.  The root
\* starts counting again when it has just seen that it should not wait.
FailToSteal(w) ==
  /\ At(w, "search") /\ ~work_done /\ ~ShouldWait(w)
  /\ steal_failure_count' =
       IF w # 0 THEN steal_failure_count
       ELSE IF Tired(w) THEN 1 ELSE steal_failure_count + 1
  /\ UNCHANGED <<global, mutex, nodes, pc, child, thread, failed>>

\* check_for_work finds work, which some counted thread is waiting for.
FindWork(w) ==
  /\ At(w, "search") /\ ~work_done /\ ~ShouldWait(w) /\ Counted # {}
  /\ Goto(w, "work")
  /\ steal_failure_count' = IF w = 0 THEN 0 ELSE steal_failure_count
  /\ UNCHANGED <<global, mutex, nodes, child, thread, failed>>

FinishWork(w) ==
  /\ At(w, "work")
  /\ Goto(w, "search")
  /\ UNCHANGED <<global, mutex, nodes, steal_failure_count, child, thread, failed>>

-----------------------------------------------------------------------------
\* User threads.

ThreadAt(t, place) == failed = "no" /\ thread[t] = place
ThreadGoto(t, place) == thread' = [thread EXCEPT ![t] = place]
Fail(why) ==
  /\ failed' = why
  /\ UNCHANGED <<global, mutex, nodes, workers, thread>>

\* __cilkrts_init_internal: is the global state published?  Read without a
\* lock.
InitCheck(t) ==
  /\ ThreadAt(t, "out")
  /\ ThreadGoto(t, IF published THEN "start" ELSE "init")
  /\ UNCHANGED <<global, mutex, nodes, workers, failed>>

\* __cilkrts_init_internal: if it is still not published, it is initialised,
\* with new workers, and published.
InitPublish(t) ==
  /\ ThreadAt(t, "init") /\ mutex = NoOne
  /\ ThreadGoto(t, "start")
  /\ IF published
     THEN UNCHANGED <<global, nodes, workers>>
     ELSE /\ published' = TRUE /\ workers_running' = FALSE /\ work_done' = FALSE
          /\ Q' = 0
          /\ run' = [w \in Workers |-> FALSE]
          /\ sem' = [w \in Workers |-> 0]
          /\ steal_failure_count' = 0
          /\ pc' = [w \in Workers |-> "none"]
          /\ child' = [w \in Workers |-> 1]
  /\ UNCHANGED <<mutex, failed>>

\* __cilkrts_init_internal, __cilkrts_start_workers.  The threads are made
\* from g->workers, which __cilkrts_end_cilk may have freed meanwhile.
StartWorkers(t) ==
  /\ ThreadAt(t, "start")
  /\ \/ /\ workers_running
        /\ ThreadGoto(t, "bind")
        /\ UNCHANGED <<global, mutex, nodes, workers, failed>>
     \/ /\ ~workers_running /\ mutex = NoOne /\ published
        /\ workers_running' = TRUE /\ work_done' = FALSE
        /\ pc' = [w \in Workers |-> "waiting"]
        /\ ThreadGoto(t, "bind")
        /\ UNCHANGED <<published, Q, mutex, nodes, steal_failure_count, child, failed>>
     \/ ~workers_running /\ mutex = NoOne /\ ~published /\ Fail("start after end")

\* Mutant: ++g->Q == 0 for g->Q++ == 0.
FirstInNever == Q + 1 = 0

\* __cilkrts_enter_cilk: nobody was in Cilk.
FirstIn == Q = 0

\* BIND_THREAD_RTN from the global lock on, with __cilkrts_enter_cilk and the
\* store of wake_runtime.
Bind(t) ==
  /\ ThreadAt(t, "bind") /\ mutex = NoOne
  /\ \/ (~published \/ work_done) /\ Fail("enter while shutting down")
     \/ /\ published /\ ~work_done /\ Q < Slots
        /\ Q' = Q + 1
        /\ IF FirstIn /\ P > 1
           THEN Store(0, TRUE) /\ mutex' = t /\ ThreadGoto(t, "waking")
           ELSE UNCHANGED <<run, mutex>> /\ ThreadGoto(t, "in")
        /\ UNCHANGED <<published, workers_running, work_done, sem, workers, failed>>
     \/ /\ published /\ ~work_done /\ Q >= Slots
        /\ ThreadGoto(t, "overflow")
        /\ UNCHANGED <<global, mutex, nodes, workers, failed>>

\* wake_runtime: the post.
WakePost(t) ==
  /\ ThreadAt(t, "waking")
  /\ SemPost(0)
  /\ mutex' = NoOne
  /\ ThreadGoto(t, "in")
  /\ UNCHANGED <<global, run, workers, failed>>

\* Mutant: g->Q-- == 0 for --g->Q == 0.
LastOutNever == Q = 0

\* __cilkrts_leave_cilk: nobody is left in Cilk.
LastOut == Q = 1

\* __cilkrts_unbind_thread, with __cilkrts_leave_cilk and sleep_runtime.  The
\* last computation returns only when no worker works on it any more.
Leave(t) ==
  /\ ThreadAt(t, "in") /\ mutex = NoOne
  /\ Q = 1 => \A w \in Workers : pc[w] # "work"
  /\ Q' = Q - 1
  /\ IF LastOut THEN StoreRoot(FALSE) ELSE UNCHANGED run
  /\ ThreadGoto(t, "out")
  /\ UNCHANGED <<published, workers_running, work_done, mutex, sem, workers, failed>>

\* __cilkrts_unbind_thread of an overflow worker.
LeaveOverflow(t) ==
  /\ ThreadAt(t, "overflow") /\ mutex = NoOne
  /\ ThreadGoto(t, "out")
  /\ UNCHANGED <<global, mutex, nodes, workers, failed>>

\* __cilkrts_suspend, by a thread that is bound to a worker.
Suspend(t) ==
  /\ Suspends /\ failed = "no" /\ thread[t] \in {"in", "overflow"}
  /\ published /\ P > 1
  /\ steal_failure_count' = MaxFailures + 1
  /\ Store(0, FALSE)
  /\ UNCHANGED <<global, mutex, sem, pc, child, thread, failed>>

\* __cilkrts_resume, by any thread: the store, and the post.
Resume(t) ==
  /\ Suspends /\ failed = "no" /\ thread[t] \in UserPlaces
  /\ published /\ P > 1
  /\ Store(0, TRUE)
  /\ ThreadGoto(t, Resuming[thread[t]])
  /\ UNCHANGED <<global, mutex, sem, workers, failed>>

ResumePost(t) ==
  \/ /\ failed = "no"
     /\ \E place \in UserPlaces :
          thread[t] = Resuming[place] /\ ThreadGoto(t, place)
     /\ SemPost(0)
     /\ UNCHANGED <<global, mutex, run, workers, failed>>
  \/ ThreadAt(t, "dangling") /\ Fail("resume after end")

\* __cilkrts_deinit_internal.  A thread that is about to post in
\* __cilkrts_resume is left with a node that is freed.
Deinit(t) ==
  /\ published' = FALSE
  /\ mutex' = NoOne
  /\ thread' = [u \in Threads |->
                  IF u = t THEN "out"
                  ELSE IF thread[u] \in ResumePlaces THEN "dangling" ELSE thread[u]]

\* __cilkrts_end_cilk, and __cilkrts_stop_workers up to its store.
EndCilk(t) ==
  /\ failed = "no" /\ thread[t] \in UserPlaces
  /\ mutex = NoOne /\ published
  /\ \/ (Q > 0 \/ t \in Inside) /\ Fail("end while running")
     \/ /\ Q = 0 /\ t \notin Inside
        /\ work_done' = TRUE
        /\ IF workers_running
           THEN /\ StoreRoot(TRUE)
                /\ mutex' = t
                /\ ThreadGoto(t, IF P > 1 THEN "stopping" ELSE "joining")
                /\ UNCHANGED published
           ELSE Deinit(t) /\ UNCHANGED run
        /\ UNCHANGED <<workers_running, Q, sem, workers, failed>>

\* __cilkrts_stop_workers: the post.
StopPost(t) ==
  /\ ThreadAt(t, "stopping")
  /\ SemPost(0)
  /\ ThreadGoto(t, "joining")
  /\ UNCHANGED <<global, mutex, run, workers, failed>>

\* __cilkrts_stop_workers: every worker is joined; then everything is freed.
Join(t) ==
  /\ ThreadAt(t, "joining")
  /\ \A w \in Workers : pc[w] = "exited"
  /\ workers_running' = FALSE
  /\ Deinit(t)
  /\ UNCHANGED <<work_done, Q, nodes, workers, failed>>

-----------------------------------------------------------------------------
WorkerStep(w) ==
  \/ WaitTest(w) \/ SemWait(w) \/ Rouse(w) \/ NotifyPost(w) \/ Hush(w)
  \/ Exit(w) \/ GoToSleep(w) \/ FailToSteal(w) \/ FindWork(w) \/ FinishWork(w)

\* What a thread does once it has called into the runtime.
RuntimeStep(t) ==
  \/ InitPublish(t) \/ StartWorkers(t) \/ Bind(t) \/ WakePost(t)
  \/ ResumePost(t) \/ StopPost(t) \/ Join(t)

\* The calls a program makes.
UserStep(t) ==
  \/ InitCheck(t) \/ Leave(t) \/ LeaveOverflow(t)
  \/ Suspend(t) \/ Resume(t) \/ EndCilk(t)

Next ==
  \/ \E w \in Workers : WorkerStep(w)
  \/ \E t \in Threads : RuntimeStep(t) \/ UserStep(t)

Spec == Init /\ [][Next]_vars

\* The operating system runs every thread.  A worker finishes the work it
\* has; whether it finds any is up to the program.
Fairness ==
  /\ \A w \in Workers : WF_vars(WorkerStep(w))
  /\ \A t \in Threads : WF_vars(RuntimeStep(t))

FairSpec == Spec /\ Fairness

-----------------------------------------------------------------------------
\* Properties.

\* The variables have their types; in particular no semaphore exceeds its
\* largest count (signal_node.c).
TypeOK ==
  /\ published \in BOOLEAN /\ workers_running \in BOOLEAN /\ work_done \in BOOLEAN
  /\ Q \in 0 .. Slots
  /\ mutex \in Threads \cup {NoOne}
  /\ run \in [Workers -> BOOLEAN]
  /\ sem \in [Workers -> 0 .. SemValueMax]
  /\ steal_failure_count \in 0 .. MaxFailures + 1
  /\ pc \in [Workers -> {"none", "waiting", "sem", "rouse", "post", "hush",
                         "search", "work", "exited"}]
  /\ child \in [Workers -> 1 .. 3]
  /\ thread \in [Threads -> Places]
  /\ failed \in {"no", "start after end", "enter while shutting down",
                 "end while running", "resume after end"}

\* A worker that looks for work, has some, or has left its loop has told both
\* of its children to run, and nothing it did since has withdrawn that
\* (search_until_work_found_or_done).  So nobody who sees g->work_done and
\* exits leaves a child asleep.
ChildrenRoused ==
  \A w \in Workers : pc[w] \in {"search", "work", "exited"} =>
    \A c \in {2 * w + 1, 2 * w + 2} \cap Workers : run[c]

\* Who has stored a 1 in w's node and is about to post.
AboutToPost(w) ==
  \/ \E p \in Workers : pc[p] = "post" /\ Child(p) = w
  \/ w = 0 /\ \E t \in Threads : thread[t] \in {"waking", "stopping"} \cup ResumePlaces

\* No wakeup is lost between the test of the word and the wait on the
\* semaphore (signal_node_wait): a worker that waits although it should run
\* finds the semaphore posted, or somebody is about to post it.
NoLostWakeup ==
  \A w \in Workers : pc[w] = "sem" /\ run[w] => sem[w] > 0 \/ AboutToPost(w)

\* Once some thread stays in Cilk, every system worker ends up awake for good
\* (wake_runtime: "The message will propagate").
WorkersWake ==
  <>[](Counted # {} /\ failed = "no") =>
    <>[](\A w \in Workers : pc[w] \in {"search", "work"})

\* Once every thread stays out of a running Cilk, every system worker ends up
\* asleep for good (sleep_runtime: "turn out the lights when nobody's in the
\* room").
WorkersSleep ==
  <>[](workers_running /\ ~work_done /\ Counted = {} /\ failed = "no") =>
    <>[](\A w \in Workers : pc[w] = "sem")

\* A thread that shuts Cilk down gets every system worker joined, asleep or
\* searching though they were (__cilkrts_stop_workers).
ShutdownEnds == \A t \in Threads : thread[t] = "stopping" ~> thread[t] = "out"

\* cilk_api.c of __cilkrts_end_cilk: the global OS mutex is taken "to protect
\* against another thread attempting to bind while we do this".  No thread
\* that binds meets a runtime which has been shut down under it.
BindProtected == failed \notin {"start after end", "enter while shutting down"}
=============================================================================
