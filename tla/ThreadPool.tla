---------------------------- MODULE ThreadPool ----------------------------
(***************************************************************************)
(* The C++ worker pool of src/ThreadPool/ThreadPool.h.                     *)
(*                                                                         *)
(* Every thread has a program counter.  A worker runs the lambda that the  *)
(* constructor launches; a caller (a client thread, or a worker from       *)
(* inside the task it is running) runs enqueue(); the owner of the pool    *)
(* runs ~ThreadPool().  queue_mutex is modelled explicitly, and            *)
(* condition.wait() is the one step that releases it and falls asleep.     *)
(***************************************************************************)
EXTENDS Naturals, Sequences, FiniteSets

CONSTANTS Workers,   \* the threads of the vector workers
          Clients,   \* the threads that call enqueue() from outside
          Owner,     \* the client that destroys the pool
          Task,      \* the work items; each is enqueued at most once
          NoTask,    \* no work item
          NoThread   \* queue_mutex is free

ASSUME ThreadPoolAssumption ==
    /\ Workers # {}
    /\ Owner \in Clients
    /\ Workers \cap Clients = {}
    /\ NoThread \notin Workers \cup Clients
    /\ NoTask \notin Task

Threads == Workers \cup Clients

VARIABLES
    pc,           \* pc[t]: where thread t is in the code
    queue_mutex,  \* the thread that holds the mutex, or NoThread
    tasks,        \* the task queue
    stop,         \* the stop flag
    arg,          \* arg[t]: the item thread t is enqueueing
    cur,          \* cur[w]: the item worker w is running
    accepted,     \* history: the items emplaced, in order
    started,      \* history: the items moved out of the queue, in order
    finished,     \* the items whose future is ready
    rejected      \* the items whose enqueue() threw

vars == <<pc, queue_mutex, tasks, stop, arg, cur,
          accepted, started, finished, rejected>>

WorkerPc == {"lock", "check", "waiting", "running",
             "e_lock", "e_push", "e_notify", "exited"}
ClientPc == {"idle", "e_lock", "e_push", "e_notify",
             "d_lock", "d_stop", "d_notify", "d_join", "destroyed"}

TypeOK ==
    /\ pc \in [Threads -> WorkerPc \cup ClientPc]
    /\ \A w \in Workers : pc[w] \in WorkerPc
    /\ \A c \in Clients : pc[c] \in ClientPc
    /\ queue_mutex \in Threads \cup {NoThread}
    /\ tasks \in Seq(Task)
    /\ stop \in BOOLEAN
    /\ arg \in [Threads -> Task \cup {NoTask}]
    /\ cur \in [Workers -> Task \cup {NoTask}]
    /\ accepted \in Seq(Task)
    /\ started \in Seq(Task)
    /\ finished \in SUBSET Task
    /\ rejected \in SUBSET Task

(***************************************************************************)
(* ThreadPool::ThreadPool(threads): stop is false, the queue is empty and  *)
(* every worker is about to take the lock for the first time.              *)
(***************************************************************************)
Init ==
    /\ pc = [t \in Threads |-> IF t \in Workers THEN "lock" ELSE "idle"]
    /\ queue_mutex = NoThread
    /\ tasks = <<>>
    /\ stop = FALSE
    /\ arg = [t \in Threads |-> NoTask]
    /\ cur = [w \in Workers |-> NoTask]
    /\ accepted = <<>>
    /\ started = <<>>
    /\ finished = {}
    /\ rejected = {}

\* The unique_lock constructor: blocks until the mutex is free.
Lock(t, from, to) ==
    /\ pc[t] = from
    /\ queue_mutex = NoThread
    /\ queue_mutex' = t
    /\ pc' = [pc EXCEPT ![t] = to]

-----------------------------------------------------------------------------
(* The worker's loop.                                                      *)

WorkerLock(w) ==
    /\ Lock(w, "lock", "check")
    /\ UNCHANGED <<tasks, stop, arg, cur, accepted, started, finished, rejected>>

\* Mutant: condition.wait(lock) without the predicate.
WaitWithoutPredicate(w) ==
    /\ pc[w] = "check"
    /\ ~stop
    /\ queue_mutex' = NoThread
    /\ pc' = [pc EXCEPT ![w] = "waiting"]
    /\ UNCHANGED <<tasks, stop, arg, cur, accepted, started, finished, rejected>>

\* The predicate of condition.wait() is false: release the lock and sleep.
WorkerWait(w) ==
    /\ pc[w] = "check"
    /\ ~stop /\ tasks = <<>>
    /\ queue_mutex' = NoThread
    /\ pc' = [pc EXCEPT ![w] = "waiting"]
    /\ UNCHANGED <<tasks, stop, arg, cur, accepted, started, finished, rejected>>

\* wait() may return without a notification; it then takes the lock again.
SpuriousWakeup(w) ==
    /\ pc[w] = "waiting"
    /\ pc' = [pc EXCEPT ![w] = "lock"]
    /\ UNCHANGED <<queue_mutex, tasks, stop, arg, cur, accepted, started,
                   finished, rejected>>

\* Mutant: the worker returns as soon as stop is set.
ReturnOnStop(w) ==
    /\ pc[w] = "check"
    /\ stop
    /\ queue_mutex' = NoThread
    /\ pc' = [pc EXCEPT ![w] = "exited"]
    /\ UNCHANGED <<tasks, stop, arg, cur, accepted, started, finished, rejected>>

WorkerReturn(w) ==
    /\ pc[w] = "check"
    /\ stop /\ tasks = <<>>
    /\ queue_mutex' = NoThread
    /\ pc' = [pc EXCEPT ![w] = "exited"]
    /\ UNCHANGED <<tasks, stop, arg, cur, accepted, started, finished, rejected>>

\* Mutant: tasks.pop() is missing.
TakeWithoutPop(w) ==
    /\ pc[w] = "check"
    /\ tasks # <<>>
    /\ cur' = [cur EXCEPT ![w] = Head(tasks)]
    /\ started' = Append(started, Head(tasks))
    /\ queue_mutex' = NoThread
    /\ pc' = [pc EXCEPT ![w] = "running"]
    /\ UNCHANGED <<tasks, stop, arg, accepted, finished, rejected>>

WorkerTake(w) ==
    /\ pc[w] = "check"
    /\ tasks # <<>>
    /\ cur' = [cur EXCEPT ![w] = Head(tasks)]
    /\ started' = Append(started, Head(tasks))
    /\ tasks' = Tail(tasks)
    /\ queue_mutex' = NoThread
    /\ pc' = [pc EXCEPT ![w] = "running"]
    /\ UNCHANGED <<stop, arg, accepted, finished, rejected>>

\* task() returns: the packaged_task has made its future ready, with a value
\* or with the exception the work item threw.
WorkerFinish(w) ==
    /\ pc[w] = "running"
    /\ finished' = finished \cup {cur[w]}
    /\ cur' = [cur EXCEPT ![w] = NoTask]
    /\ pc' = [pc EXCEPT ![w] = "lock"]
    /\ UNCHANGED <<queue_mutex, tasks, stop, arg, accepted, started, rejected>>

-----------------------------------------------------------------------------
(* enqueue(), called by a client or from inside a running work item.       *)

BackFrom(t) == IF t \in Workers THEN "running" ELSE "idle"

Fresh(k) ==
    /\ k \notin rejected
    /\ \A i \in DOMAIN accepted : accepted[i] # k
    /\ \A t \in Threads : arg[t] # k

\* The pool may be used while its lifetime lasts: a client does not start a
\* call once the owner is in the destructor.
EnqueueCall(t, k) ==
    /\ pc[t] = BackFrom(t)
    /\ t \in Clients => pc[Owner] \in {"idle", "e_lock", "e_push", "e_notify"}
    /\ Fresh(k)
    /\ arg' = [arg EXCEPT ![t] = k]
    /\ pc' = [pc EXCEPT ![t] = "e_lock"]
    /\ UNCHANGED <<queue_mutex, tasks, stop, cur, accepted, started,
                   finished, rejected>>

EnqueueLock(t) ==
    /\ Lock(t, "e_lock", "e_push")
    /\ UNCHANGED <<tasks, stop, arg, cur, accepted, started, finished, rejected>>

EnqueuePush(t) ==
    /\ pc[t] = "e_push"
    /\ ~stop
    /\ tasks' = Append(tasks, arg[t])
    /\ accepted' = Append(accepted, arg[t])
    /\ arg' = [arg EXCEPT ![t] = NoTask]
    /\ queue_mutex' = NoThread
    /\ pc' = [pc EXCEPT ![t] = "e_notify"]
    /\ UNCHANGED <<stop, cur, started, finished, rejected>>

\* "enqueue on stopped ThreadPool": the exception unwinds the lock.
EnqueueThrow(t) ==
    /\ pc[t] = "e_push"
    /\ stop
    /\ rejected' = rejected \cup {arg[t]}
    /\ arg' = [arg EXCEPT ![t] = NoTask]
    /\ queue_mutex' = NoThread
    /\ pc' = [pc EXCEPT ![t] = BackFrom(t)]
    /\ UNCHANGED <<tasks, stop, cur, accepted, started, finished>>

Sleeping == {w \in Workers : pc[w] = "waiting"}

\* Mutant: enqueue() does not notify.
NotifyNobody(t) ==
    /\ pc[t] = "e_notify"
    /\ pc' = [pc EXCEPT ![t] = BackFrom(t)]
    /\ UNCHANGED <<queue_mutex, tasks, stop, arg, cur, accepted, started,
                   finished, rejected>>

\* notify_one() is called after the lock is released.
NotifyOne(t) ==
    /\ pc[t] = "e_notify"
    /\ \/ /\ Sleeping = {}
          /\ pc' = [pc EXCEPT ![t] = BackFrom(t)]
       \/ \E w \in Sleeping :
             pc' = [pc EXCEPT ![t] = BackFrom(t), ![w] = "lock"]
    /\ UNCHANGED <<queue_mutex, tasks, stop, arg, cur, accepted, started,
                   finished, rejected>>

-----------------------------------------------------------------------------
(* ~ThreadPool()                                                           *)

\* The owner destroys the pool once no client is inside a call.
DestroyCall ==
    /\ \A c \in Clients : pc[c] = "idle"
    /\ pc' = [pc EXCEPT ![Owner] = "d_lock"]
    /\ UNCHANGED <<queue_mutex, tasks, stop, arg, cur, accepted, started,
                   finished, rejected>>

DestroyLock ==
    /\ Lock(Owner, "d_lock", "d_stop")
    /\ UNCHANGED <<tasks, stop, arg, cur, accepted, started, finished, rejected>>

DestroyStop ==
    /\ pc[Owner] = "d_stop"
    /\ stop' = TRUE
    /\ queue_mutex' = NoThread
    /\ pc' = [pc EXCEPT ![Owner] = "d_notify"]
    /\ UNCHANGED <<tasks, arg, cur, accepted, started, finished, rejected>>

\* Mutant: the destructor calls notify_one().
NotifyOneInDestructor ==
    /\ pc[Owner] = "d_notify"
    /\ \/ /\ Sleeping = {}
          /\ pc' = [pc EXCEPT ![Owner] = "d_join"]
       \/ \E w \in Sleeping :
             pc' = [pc EXCEPT ![Owner] = "d_join", ![w] = "lock"]
    /\ UNCHANGED <<queue_mutex, tasks, stop, arg, cur, accepted, started,
                   finished, rejected>>

NotifyAll ==
    /\ pc[Owner] = "d_notify"
    /\ pc' = [t \in Threads |-> IF t = Owner THEN "d_join"
                                ELSE IF t \in Sleeping THEN "lock"
                                ELSE pc[t]]
    /\ UNCHANGED <<queue_mutex, tasks, stop, arg, cur, accepted, started,
                   finished, rejected>>

\* worker.join() for every worker, then the members are destroyed.
DestroyJoin ==
    /\ pc[Owner] = "d_join"
    /\ \A w \in Workers : pc[w] = "exited"
    /\ pc' = [pc EXCEPT ![Owner] = "destroyed"]
    /\ UNCHANGED <<queue_mutex, tasks, stop, arg, cur, accepted, started,
                   finished, rejected>>

-----------------------------------------------------------------------------
Worker(w) ==
    \/ WorkerLock(w)
    \/ WorkerWait(w)
    \/ SpuriousWakeup(w)
    \/ WorkerReturn(w)
    \/ WorkerTake(w)
    \/ WorkerFinish(w)

Enqueue(t) ==
    \/ \E k \in Task : EnqueueCall(t, k)
    \/ EnqueueLock(t)
    \/ EnqueuePush(t)
    \/ EnqueueThrow(t)
    \/ NotifyOne(t)

Destroy == DestroyCall \/ DestroyLock \/ DestroyStop \/ NotifyAll \/ DestroyJoin

Next ==
    \/ \E w \in Workers : Worker(w)
    \/ \E t \in Threads : Enqueue(t)
    \/ Destroy

(***************************************************************************)
(* A thread that can run does run.  A mutex that is free again and again   *)
(* is eventually granted to each thread that waits for it (strong          *)
(* fairness): without that a worker that wakes up spuriously for ever      *)
(* could starve the others.  Nobody is obliged to call enqueue(), nor to   *)
(* destroy the pool, and no spurious wake-up ever has to happen.           *)
(***************************************************************************)
Fairness ==
    /\ \A w \in Workers :
          /\ SF_vars(WorkerLock(w))
          /\ WF_vars(WorkerWait(w) \/ WorkerReturn(w) \/ WorkerTake(w))
          /\ WF_vars(WorkerFinish(w))
    /\ \A t \in Threads :
          /\ SF_vars(EnqueueLock(t))
          /\ WF_vars(EnqueuePush(t) \/ EnqueueThrow(t))
          /\ WF_vars(NotifyOne(t))
    /\ SF_vars(DestroyLock)
    /\ WF_vars(DestroyStop \/ NotifyAll \/ DestroyJoin)

Spec == Init /\ [][Next]_vars

FairSpec == Spec /\ Fairness

-----------------------------------------------------------------------------
(* Properties.                                                             *)

Holds(t) == pc[t] \in {"check", "e_push", "d_stop"}

\* queue_mutex serialises the worker's test of the queue, enqueue()'s push and
\* the destructor's store to stop: the holder is the only thread inside.
MutualExclusion == \A t \in Threads : Holds(t) <=> queue_mutex = t

\* Every accepted item is handed out exactly once and in the order it was
\* accepted: what the workers have taken, followed by what is queued, is what
\* enqueue() has emplaced.
FIFO == accepted = started \o tasks

\* notify_one() is sent after the lock is released, and may find nobody asleep:
\* while an item is queued, some worker is awake or some enqueue() still has
\* its notification to send.
NoLostWakeup ==
    tasks # <<>> =>
        \/ \E w \in Workers : pc[w] \notin {"waiting", "exited"}
        \/ \E t \in Threads : pc[t] = "e_notify"

\* A worker that sleeps when the pool is stopped will be woken: once
\* notify_all() has been sent no worker sleeps again.
StopWakesAll == stop => pc[Owner] = "d_notify" \/ Sleeping = {}

\* The destructor drains the queue: when it returns every accepted item has
\* run, although items were still queued, or being enqueued by running items,
\* when it began.
DestructorDrains ==
    pc[Owner] = "destroyed" =>
        /\ tasks = <<>>
        /\ \A i \in DOMAIN accepted : accepted[i] \in finished

\* An accepted item eventually runs to completion: its future becomes ready.
AcceptedRuns ==
    \A k \in Task :
        (\E i \in DOMAIN accepted : accepted[i] = k) ~> (k \in finished)

\* The destructor returns: every worker leaves its loop and is joined.
DestructorReturns == (pc[Owner] = "d_lock") ~> (pc[Owner] = "destroyed")

-----------------------------------------------------------------------------
(* The facts that make the properties inductive.                           *)

\* stop is set exactly while the owner is past the store in the destructor.
StopMeansDestructor ==
    stop <=> pc[Owner] \in {"d_notify", "d_join", "destroyed"}

\* A worker leaves its loop only from a stopped, empty queue, which stays so.
ExitedMeansDrained ==
    \A w \in Workers : pc[w] = "exited" => stop /\ tasks = <<>>

InTask(w) == pc[w] \in {"running", "e_lock", "e_push", "e_notify"}

\* A caller has the item it enqueues, a worker the item it runs.
Carried ==
    /\ \A t \in Threads : pc[t] \in {"e_lock", "e_push"} => arg[t] \in Task
    /\ \A w \in Workers : InTask(w) => cur[w] \in Task

\* An item moved out of the queue is not dropped: it has finished or a worker
\* is inside it.
StartedIsHeld ==
    \A i \in DOMAIN started :
        \/ started[i] \in finished
        \/ \E w \in Workers : InTask(w) /\ cur[w] = started[i]

\* The destructor has returned only after it joined every worker.
JoinedMeansExited ==
    pc[Owner] = "destroyed" => \A w \in Workers : pc[w] = "exited"

IInv ==
    /\ TypeOK
    /\ MutualExclusion
    /\ FIFO
    /\ NoLostWakeup
    /\ StopWakesAll
    /\ StopMeansDestructor
    /\ ExitedMeansDrained
    /\ Carried
    /\ StartedIsHeld
    /\ JoinedMeansExited

=============================================================================
