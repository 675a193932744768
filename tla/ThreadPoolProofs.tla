-------------------------- MODULE ThreadPoolProofs --------------------------
(* Proofs of the safety properties of the pool, for any number of workers, *)
(* clients and work items.                                                 *)
EXTENDS ThreadPool, SequenceTheorems, TLAPS

\* Every action on pc leaves each thread in the part of the code it belongs to,
\* and the history variables hold work items.
LEMMA TypeInductive == TypeOK /\ Carried /\ [Next]_vars => TypeOK'
<1> SUFFICES ASSUME TypeOK, Carried, [Next]_vars PROVE TypeOK'
  OBVIOUS
<1> USE ThreadPoolAssumption DEF TypeOK, Threads, WorkerPc, ClientPc
<1>1. ASSUME NEW w \in Workers, Worker(w) PROVE TypeOK'
  <2>1. CASE WorkerTake(w)
    BY <2>1 DEF WorkerTake
  <2>2. CASE WorkerFinish(w)
    BY <2>2 DEF WorkerFinish, Carried, InTask
  <2> QED
    BY <1>1, <2>1, <2>2 DEF Worker, WorkerLock, Lock, WorkerWait,
       SpuriousWakeup, WorkerReturn
<1>2. ASSUME NEW t \in Threads, Enqueue(t) PROVE TypeOK'
  <2>1. ASSUME NEW k \in Task, EnqueueCall(t, k) PROVE TypeOK'
    BY <2>1 DEF EnqueueCall
  <2>2. CASE EnqueueLock(t)
    BY <2>2 DEF EnqueueLock, Lock
  <2>3. CASE EnqueuePush(t)
    BY <2>3 DEF EnqueuePush, Carried
  <2>4. CASE EnqueueThrow(t)
    BY <2>4 DEF EnqueueThrow, Carried, BackFrom
  <2>5. CASE NotifyOne(t)
    BY <2>5 DEF NotifyOne, BackFrom, Sleeping
  <2> QED
    BY <1>2, <2>1, <2>2, <2>3, <2>4, <2>5 DEF Enqueue
<1>3. CASE Destroy
  <2>1. CASE NotifyAll
    BY <2>1 DEF NotifyAll, Sleeping
  <2> QED
    BY <1>3, <2>1 DEF Destroy, DestroyCall, DestroyLock, Lock, DestroyStop, DestroyJoin
<1>4. CASE UNCHANGED vars
  BY <1>4 DEF vars
<1> QED
  BY <1>1, <1>2, <1>3, <1>4 DEF Next

\* Appending to the queue appends to what has been accepted.
LEMMA ConcatAppend ==
    ASSUME NEW S, NEW s \in Seq(S), NEW q \in Seq(S), NEW e \in S
    PROVE  s \o Append(q, e) = Append(s \o q, e)
OBVIOUS

\* Moving the head of the queue to the end of what has been started leaves
\* their concatenation as it was.
LEMMA ConcatMove ==
    ASSUME NEW S, NEW s \in Seq(S), NEW q \in Seq(S), q # <<>>
    PROVE  Append(s, Head(q)) \o Tail(q) = s \o q
OBVIOUS

\* Each step keeps the holder of queue_mutex the only thread inside.
LEMMA MutexInductive ==
    TypeOK /\ MutualExclusion /\ [Next]_vars => MutualExclusion'
<1> SUFFICES ASSUME TypeOK, MutualExclusion, [Next]_vars PROVE MutualExclusion'
  OBVIOUS
<1> USE ThreadPoolAssumption DEF TypeOK, MutualExclusion, Holds, Threads, WorkerPc, ClientPc
<1>1. ASSUME NEW w \in Workers, Worker(w) PROVE MutualExclusion'
  BY <1>1 DEF Worker, WorkerLock, Lock, WorkerWait, SpuriousWakeup,
     WorkerReturn, WorkerTake, WorkerFinish
<1>2. ASSUME NEW t \in Threads, Enqueue(t) PROVE MutualExclusion'
  <2>1. CASE NotifyOne(t)
    BY <2>1 DEF NotifyOne, BackFrom, Sleeping
  <2> QED
    BY <1>2, <2>1 DEF Enqueue, EnqueueCall, EnqueueLock, Lock, EnqueuePush,
       EnqueueThrow, BackFrom
<1>3. CASE Destroy
  BY <1>3 DEF Destroy, DestroyCall, DestroyLock, Lock, DestroyStop, NotifyAll,
     DestroyJoin, Sleeping
<1>4. CASE UNCHANGED vars
  BY <1>4 DEF vars
<1> QED
  BY <1>1, <1>2, <1>3, <1>4 DEF Next

\* Only WorkerTake and EnqueuePush touch the queue; both keep the order.
LEMMA FIFOInductive ==
    TypeOK /\ Carried /\ FIFO /\ [Next]_vars => FIFO'
<1> SUFFICES ASSUME TypeOK, Carried, FIFO, [Next]_vars PROVE FIFO'
  OBVIOUS
<1> USE DEF FIFO
<1>1. ASSUME NEW w \in Workers, WorkerTake(w) PROVE FIFO'
  BY <1>1, ConcatMove DEF WorkerTake, TypeOK
<1>2. ASSUME NEW t \in Threads, EnqueuePush(t) PROVE FIFO'
  <2>1. arg[t] \in Task /\ tasks \in Seq(Task) /\ started \in Seq(Task)
    BY <1>2 DEF EnqueuePush, TypeOK, Carried
  <2>2. started \o Append(tasks, arg[t]) = Append(started \o tasks, arg[t])
    BY <2>1, ConcatAppend
  <2> QED
    BY <1>2, <2>2 DEF EnqueuePush
<1>3. ASSUME UNCHANGED <<accepted, started, tasks>> PROVE FIFO'
  BY <1>3
<1>4. ASSUME NEW w \in Workers, Worker(w) PROVE FIFO'
  BY <1>4, <1>1, <1>3 DEF Worker, WorkerLock, WorkerWait, SpuriousWakeup,
     WorkerReturn, WorkerFinish
<1>5. ASSUME NEW t \in Threads, Enqueue(t) PROVE FIFO'
  BY <1>5, <1>2, <1>3 DEF Enqueue, EnqueueCall, EnqueueLock, EnqueueThrow, NotifyOne
<1>6. CASE Destroy
  BY <1>6, <1>3 DEF Destroy, DestroyCall, DestroyLock, DestroyStop, NotifyAll, DestroyJoin
<1>7. CASE UNCHANGED vars
  BY <1>7, <1>3 DEF vars
<1> QED
  BY <1>4, <1>5, <1>6, <1>7 DEF Next

\* The store to stop is the destructor's, and so is everything after it.
LEMMA StopInductive ==
    TypeOK /\ StopMeansDestructor /\ [Next]_vars => StopMeansDestructor'
<1> SUFFICES ASSUME TypeOK, StopMeansDestructor, [Next]_vars
             PROVE  StopMeansDestructor'
  OBVIOUS
<1> USE ThreadPoolAssumption DEF TypeOK, StopMeansDestructor, Threads, WorkerPc, ClientPc
<1>1. ASSUME NEW w \in Workers, Worker(w) PROVE StopMeansDestructor'
  BY <1>1 DEF Worker, WorkerLock, Lock, WorkerWait, SpuriousWakeup,
     WorkerReturn, WorkerTake, WorkerFinish
<1>2. ASSUME NEW t \in Threads, Enqueue(t) PROVE StopMeansDestructor'
  <2>1. CASE NotifyOne(t)
    BY <2>1 DEF NotifyOne, BackFrom, Sleeping
  <2> QED
    BY <1>2, <2>1 DEF Enqueue, EnqueueCall, EnqueueLock, Lock, EnqueuePush,
       EnqueueThrow, BackFrom
<1>3. CASE Destroy
  BY <1>3 DEF Destroy, DestroyCall, DestroyLock, Lock, DestroyStop, NotifyAll,
     DestroyJoin, Sleeping
<1>4. CASE UNCHANGED vars
  BY <1>4 DEF vars
<1> QED
  BY <1>1, <1>2, <1>3, <1>4 DEF Next

\* A worker that has returned left a stopped, empty queue, and an enqueue()
\* on a stopped pool adds nothing.
LEMMA ExitedInductive ==
    TypeOK /\ ExitedMeansDrained /\ [Next]_vars => ExitedMeansDrained'
<1> SUFFICES ASSUME TypeOK, ExitedMeansDrained, [Next]_vars
             PROVE  ExitedMeansDrained'
  OBVIOUS
<1> USE ThreadPoolAssumption DEF TypeOK, ExitedMeansDrained, Threads, WorkerPc, ClientPc
<1>1. ASSUME NEW w \in Workers, Worker(w) PROVE ExitedMeansDrained'
  BY <1>1 DEF Worker, WorkerLock, Lock, WorkerWait, SpuriousWakeup,
     WorkerReturn, WorkerTake, WorkerFinish
<1>2. ASSUME NEW t \in Threads, Enqueue(t) PROVE ExitedMeansDrained'
  <2>1. CASE NotifyOne(t)
    BY <2>1 DEF NotifyOne, BackFrom, Sleeping
  <2> QED
    BY <1>2, <2>1 DEF Enqueue, EnqueueCall, EnqueueLock, Lock, EnqueuePush,
       EnqueueThrow, BackFrom
<1>3. CASE Destroy
  BY <1>3 DEF Destroy, DestroyCall, DestroyLock, Lock, DestroyStop, NotifyAll,
     DestroyJoin, Sleeping
<1>4. CASE UNCHANGED vars
  BY <1>4 DEF vars
<1> QED
  BY <1>1, <1>2, <1>3, <1>4 DEF Next

\* No wake-up is lost: a push leaves its own notification pending, and a
\* notification that finds nobody asleep finds a worker that is awake and, as
\* the queue is not empty, has not returned.
LEMMA WakeupInductive ==
    TypeOK /\ StopMeansDestructor /\ ExitedMeansDrained /\ NoLostWakeup
    /\ [Next]_vars => NoLostWakeup'
<1> SUFFICES ASSUME TypeOK, StopMeansDestructor, ExitedMeansDrained, NoLostWakeup,
                    [Next]_vars, (tasks # <<>>)'
             PROVE  \/ \E w \in Workers : pc'[w] \notin {"waiting", "exited"}
                    \/ \E t \in Threads : pc'[t] = "e_notify"
  BY DEF NoLostWakeup
<1> DEFINE Goal == \/ \E w \in Workers : pc'[w] \notin {"waiting", "exited"}
                   \/ \E t \in Threads : pc'[t] = "e_notify"
<1> USE ThreadPoolAssumption DEF TypeOK, Threads, WorkerPc, ClientPc
<1>1. ASSUME NEW w \in Workers, Worker(w) PROVE Goal
  <2>1. CASE pc'[w] \notin {"waiting", "exited"}
    BY <2>1
  <2> QED
    BY <1>1, <2>1 DEF Worker, WorkerLock, Lock, WorkerWait, SpuriousWakeup,
       WorkerReturn, WorkerTake, WorkerFinish
<1>2. ASSUME NEW t \in Threads, Enqueue(t) PROVE Goal
  <2>1. CASE NotifyOne(t)
    <3>1. CASE Sleeping = {}
      <4>1. PICK w \in Workers : pc[w] \notin {"waiting", "exited"}
        BY <2>1, <3>1 DEF Sleeping, NotifyOne, ExitedMeansDrained
      <4> QED
        BY <2>1, <3>1, <4>1 DEF NotifyOne, BackFrom
    <3>2. ASSUME NEW w \in Sleeping,
                 pc' = [pc EXCEPT ![t] = BackFrom(t), ![w] = "lock"]
          PROVE  Goal
      BY <3>2 DEF Sleeping
    <3> QED
      BY <2>1, <3>1, <3>2 DEF NotifyOne
  <2>2. CASE EnqueuePush(t)
    BY <2>2 DEF EnqueuePush
  <2> QED
    BY <1>2, <2>1, <2>2 DEF NoLostWakeup, Enqueue, EnqueueCall, EnqueueLock, Lock,
       EnqueueThrow, BackFrom
<1>3. CASE Destroy
  BY <1>3 DEF NoLostWakeup, Destroy, DestroyCall, DestroyLock, Lock, DestroyStop,
     NotifyAll, DestroyJoin, Sleeping
<1>4. CASE UNCHANGED vars
  BY <1>4 DEF NoLostWakeup, vars
<1> QED
  BY <1>1, <1>2, <1>3, <1>4 DEF Next

\* A worker goes to sleep only while stop is false, and notify_all() wakes
\* those that slept when it was set.
LEMMA SleepInductive ==
    TypeOK /\ StopMeansDestructor /\ StopWakesAll /\ [Next]_vars => StopWakesAll'
<1> SUFFICES ASSUME TypeOK, StopMeansDestructor, StopWakesAll, [Next]_vars PROVE StopWakesAll'
  OBVIOUS
<1> USE ThreadPoolAssumption DEF TypeOK, StopMeansDestructor, StopWakesAll, Sleeping, Threads, WorkerPc, ClientPc
<1>1. ASSUME NEW w \in Workers, Worker(w) PROVE StopWakesAll'
  BY <1>1 DEF Worker, WorkerLock, Lock, WorkerWait, SpuriousWakeup,
     WorkerReturn, WorkerTake, WorkerFinish
<1>2. ASSUME NEW t \in Threads, Enqueue(t) PROVE StopWakesAll'
  <2>1. CASE NotifyOne(t)
    BY <2>1 DEF NotifyOne, BackFrom
  <2> QED
    BY <1>2, <2>1 DEF Enqueue, EnqueueCall, EnqueueLock, Lock, EnqueuePush,
       EnqueueThrow, BackFrom
<1>3. CASE Destroy
  BY <1>3 DEF Destroy, DestroyCall, DestroyLock, Lock, DestroyStop, NotifyAll,
     DestroyJoin
<1>4. CASE UNCHANGED vars
  BY <1>4 DEF vars
<1> QED
  BY <1>1, <1>2, <1>3, <1>4 DEF Next

\* enqueue() keeps its argument until it is pushed or refused, and a worker
\* keeps its item until the item returns.
LEMMA CarriedInductive ==
    TypeOK /\ Carried /\ [Next]_vars => Carried'
<1> SUFFICES ASSUME TypeOK, Carried, [Next]_vars PROVE Carried'
  OBVIOUS
<1> USE ThreadPoolAssumption DEF TypeOK, Carried, InTask, Threads, WorkerPc, ClientPc
<1>1. ASSUME NEW w \in Workers, Worker(w) PROVE Carried'
  BY <1>1 DEF Worker, WorkerLock, Lock, WorkerWait, SpuriousWakeup,
     WorkerReturn, WorkerTake, WorkerFinish
<1>2. ASSUME NEW t \in Threads, Enqueue(t) PROVE Carried'
  <2>1. CASE NotifyOne(t)
    BY <2>1 DEF NotifyOne, BackFrom, Sleeping
  <2> QED
    BY <1>2, <2>1 DEF Enqueue, EnqueueCall, EnqueueLock, Lock, EnqueuePush,
       EnqueueThrow, BackFrom
<1>3. CASE Destroy
  BY <1>3 DEF Destroy, DestroyCall, DestroyLock, Lock, DestroyStop, NotifyAll,
     DestroyJoin, Sleeping
<1>4. CASE UNCHANGED vars
  BY <1>4 DEF vars
<1> QED
  BY <1>1, <1>2, <1>3, <1>4 DEF Next

\* The destructor returns once the workers have, and they do not come back.
LEMMA JoinedInductive ==
    TypeOK /\ JoinedMeansExited /\ [Next]_vars => JoinedMeansExited'
<1> SUFFICES ASSUME TypeOK, JoinedMeansExited, [Next]_vars PROVE JoinedMeansExited'
  OBVIOUS
<1> USE ThreadPoolAssumption DEF TypeOK, JoinedMeansExited, Threads, WorkerPc, ClientPc
<1>1. ASSUME NEW w \in Workers, Worker(w) PROVE JoinedMeansExited'
  BY <1>1 DEF Worker, WorkerLock, Lock, WorkerWait, SpuriousWakeup,
     WorkerReturn, WorkerTake, WorkerFinish
<1>2. ASSUME NEW t \in Threads, Enqueue(t) PROVE JoinedMeansExited'
  <2>1. CASE NotifyOne(t)
    BY <2>1 DEF NotifyOne, BackFrom, Sleeping
  <2> QED
    BY <1>2, <2>1 DEF Enqueue, EnqueueCall, EnqueueLock, Lock, EnqueuePush,
       EnqueueThrow, BackFrom
<1>3. CASE Destroy
  BY <1>3 DEF Destroy, DestroyCall, DestroyLock, Lock, DestroyStop, NotifyAll,
     DestroyJoin, Sleeping
<1>4. CASE UNCHANGED vars
  BY <1>4 DEF vars
<1> QED
  BY <1>1, <1>2, <1>3, <1>4 DEF Next

\* WorkerTake puts the item it removes into the worker's hands, and
\* WorkerFinish makes its future ready.
LEMMA StartedInductive ==
    TypeOK /\ Carried /\ StartedIsHeld /\ [Next]_vars => StartedIsHeld'
<1> SUFFICES ASSUME TypeOK, Carried, StartedIsHeld, [Next]_vars PROVE StartedIsHeld'
  OBVIOUS
<1> USE ThreadPoolAssumption DEF TypeOK, InTask, Threads, WorkerPc, ClientPc
<1>1. ASSUME NEW w \in Workers, WorkerTake(w) PROVE StartedIsHeld'
  <2> SUFFICES ASSUME NEW i \in DOMAIN started'
               PROVE  \/ started'[i] \in finished'
                      \/ \E v \in Workers : InTask(v)' /\ cur'[v] = started'[i]
    BY DEF StartedIsHeld
  <2>1. Head(tasks) \in Task /\ started' = Append(started, Head(tasks))
    BY <1>1 DEF WorkerTake
  <2>2. CASE i = Len(started) + 1
    BY <1>1, <2>1, <2>2 DEF WorkerTake
  <2>3. CASE i \in DOMAIN started
    <3>1. started'[i] = started[i]
      BY <2>1, <2>3
    <3>2. ASSUME NEW v \in Workers, InTask(v), cur[v] = started[i]
          PROVE  InTask(v)' /\ cur'[v] = started'[i]
      BY <1>1, <3>1, <3>2 DEF WorkerTake
    <3> QED
      BY <1>1, <2>3, <3>1, <3>2 DEF StartedIsHeld, WorkerTake
  <2> QED
    BY <2>1, <2>2, <2>3
<1>2. ASSUME NEW w \in Workers, WorkerFinish(w) PROVE StartedIsHeld'
  BY <1>2 DEF WorkerFinish, StartedIsHeld
<1>3. ASSUME UNCHANGED <<started, finished, cur>>,
             \A w \in Workers : InTask(w) => InTask(w)'
      PROVE  StartedIsHeld'
  BY <1>3 DEF StartedIsHeld
<1>4. ASSUME NEW w \in Workers, Worker(w) PROVE StartedIsHeld'
  <2>1. CASE WorkerLock(w) \/ WorkerWait(w) \/ SpuriousWakeup(w) \/ WorkerReturn(w)
    <3>1. UNCHANGED <<started, finished, cur>>
      BY <2>1 DEF WorkerLock, WorkerWait, SpuriousWakeup, WorkerReturn
    <3>2. \A v \in Workers : InTask(v) => InTask(v)'
      BY <2>1 DEF WorkerLock, Lock, WorkerWait, SpuriousWakeup, WorkerReturn
    <3> QED
      BY <1>3, <3>1, <3>2
  <2> QED
    BY <1>4, <1>1, <1>2, <2>1 DEF Worker
<1>5. ASSUME NEW t \in Threads, Enqueue(t) PROVE StartedIsHeld'
  <2>1. UNCHANGED <<started, finished, cur>>
    BY <1>5 DEF Enqueue, EnqueueCall, EnqueueLock, EnqueuePush, EnqueueThrow, NotifyOne
  <2>2. ASSUME NEW v \in Workers, InTask(v) PROVE InTask(v)'
    <3>1. CASE NotifyOne(t)
      BY <2>2, <3>1 DEF NotifyOne, BackFrom, Sleeping
    <3> QED
      BY <1>5, <2>2, <3>1 DEF Enqueue, EnqueueCall, EnqueueLock, Lock, EnqueuePush,
         EnqueueThrow, BackFrom
  <2> QED
    BY <1>3, <2>1, <2>2
<1>6. CASE Destroy
  <2>1. UNCHANGED <<started, finished, cur>>
    BY <1>6 DEF Destroy, DestroyCall, DestroyLock, DestroyStop, NotifyAll, DestroyJoin
  <2>2. \A v \in Workers : InTask(v) => InTask(v)'
    BY <1>6 DEF Destroy, DestroyCall, DestroyLock, Lock, DestroyStop, NotifyAll,
       DestroyJoin, Sleeping
  <2> QED
    BY <1>3, <2>1, <2>2
<1>7. CASE UNCHANGED vars
  BY <1>7, <1>3 DEF vars
<1> QED
  BY <1>4, <1>5, <1>6, <1>7 DEF Next

\* The constructor establishes every part of the inductive invariant.
LEMMA InitIInv == Init => IInv
<1> SUFFICES ASSUME Init PROVE IInv
  OBVIOUS
<1> USE ThreadPoolAssumption DEF Init, Threads
<1>1. TypeOK
  <2>1. /\ pc \in [Threads -> WorkerPc \cup ClientPc]
        /\ \A w \in Workers : pc[w] \in WorkerPc
        /\ \A c \in Clients : pc[c] \in ClientPc
    BY DEF WorkerPc, ClientPc
  <2>2. tasks \in Seq(Task) /\ accepted \in Seq(Task) /\ started \in Seq(Task)
    OBVIOUS
  <2>3. arg \in [Threads -> Task \cup {NoTask}] /\ cur \in [Workers -> Task \cup {NoTask}]
    OBVIOUS
  <2> QED
    BY <2>1, <2>2, <2>3 DEF TypeOK
<1>2. MutualExclusion /\ StopMeansDestructor /\ ExitedMeansDrained
  BY DEF MutualExclusion, Holds, StopMeansDestructor, ExitedMeansDrained
<1>3. FIFO /\ NoLostWakeup /\ StopWakesAll
  BY DEF FIFO, NoLostWakeup, StopWakesAll
<1>4. Carried /\ StartedIsHeld /\ JoinedMeansExited
  BY DEF Carried, InTask, StartedIsHeld, JoinedMeansExited
<1> QED
  BY <1>1, <1>2, <1>3, <1>4 DEF IInv

\* The invariant holds in every state of the pool, for any number of workers,
\* clients and work items.
THEOREM Invariance == Spec => []IInv
<1>1. IInv /\ [Next]_vars => IInv'
  BY TypeInductive, MutexInductive, FIFOInductive, StopInductive, ExitedInductive,
     WakeupInductive, SleepInductive, CarriedInductive, JoinedInductive,
     StartedInductive DEF IInv
<1> QED
  BY InitIInv, <1>1, PTL DEF Spec

\* Every thread stays in the part of the code it belongs to, and the queue
\* and the history variables hold work items only.
THEOREM TypeSafety == Spec => []TypeOK
BY Invariance, PTL DEF IInv

\* Exclusion: of the worker's test, enqueue()'s push and the destructor's
\* store, at most one thread is inside one, and it holds queue_mutex.
THEOREM MutexSafety == Spec => []MutualExclusion
BY Invariance, PTL DEF IInv

\* Every accepted item is handed out once, in order.
THEOREM FIFOSafety == Spec => []FIFO
BY Invariance, PTL DEF IInv

\* notify_one() after the unlock loses no wake-up.
THEOREM WakeupSafety == Spec => []NoLostWakeup
BY Invariance, PTL DEF IInv

\* notify_all() leaves no worker asleep on a stopped pool.
THEOREM StopSafety == Spec => []StopWakesAll
BY Invariance, PTL DEF IInv

\* When ~ThreadPool() has returned, every accepted item has run: the workers
\* have returned, so the queue is empty, so every accepted item was started,
\* and no worker is inside an item any more.
THEOREM DrainSafety == Spec => []DestructorDrains
<1>1. IInv => DestructorDrains
  <2> SUFFICES ASSUME IInv, pc[Owner] = "destroyed" PROVE
               tasks = <<>> /\ \A i \in DOMAIN accepted : accepted[i] \in finished
    BY DEF DestructorDrains
  <2>1. \A w \in Workers : pc[w] = "exited"
    BY DEF IInv, JoinedMeansExited
  <2>2. tasks = <<>>
    BY <2>1, ThreadPoolAssumption DEF IInv, ExitedMeansDrained
  <2>3. accepted = started
    BY <2>2 DEF IInv, FIFO, TypeOK
  <2>4. \A i \in DOMAIN started : started[i] \in finished
    BY <2>1 DEF IInv, StartedIsHeld, InTask
  <2> QED
    BY <2>2, <2>3, <2>4
<1> QED
  BY Invariance, <1>1, PTL
=============================================================================
