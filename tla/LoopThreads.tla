---------------------------- MODULE LoopThreads ----------------------------
(***************************************************************************)
(* How the sub-reactors are started: thread_pool_start() of                *)
(* src/httptest-geektime/lib/thread_pool.c starts them one after the       *)
(* other, and event_loop_thread_start() waits on a condition variable for  *)
(* the new thread's event_loop_thread_run() to create its event loop       *)
(* (event_loop_thread.c).  The assertions around the pthread calls are     *)
(* compiled in, as in the repository's build.                              *)
(***************************************************************************)
EXTENDS Naturals

CONSTANT thread_number

ASSUME LoopThreadsAssumption == thread_number \in Nat

Thread == 1 .. thread_number
Main == 0
Free == thread_number + 1   \* the owner of a mutex that nobody holds

VARIABLES
    index,      \* the thread that thread_pool_start() is starting
    main,       \* where the main thread is
    run,        \* run[t]: where thread t is in event_loop_thread_run()
    mutex,      \* mutex[t]: the owner of t's mutex
    eventLoop   \* eventLoop[t]: t's field is not NULL

vars == <<index, main, run, mutex, eventLoop>>

TypeOK ==
    /\ index \in 1 .. thread_number + 1
    /\ main \in {"create", "lock", "test", "wait", "started"}
    /\ main # "started" => index \in Thread
    /\ run \in [Thread -> {"none", "lock", "init", "signal", "unlock", "loop"}]
    /\ mutex \in [Thread -> Thread \cup {Main, Free}]
    /\ eventLoop \in [Thread -> BOOLEAN]

\* The loop of thread_pool_start() turns to thread n.
Turn(n) == IF n <= thread_number THEN "create" ELSE "started"

Init ==
    /\ index = 1
    /\ main = Turn(1)
    /\ run = [t \in Thread |-> "none"]
    /\ mutex = [t \in Thread |-> Free]
    /\ eventLoop = [t \in Thread |-> FALSE]

-----------------------------------------------------------------------------
(* event_loop_thread_start(), in the main thread.                          *)

Create ==
    /\ main = "create"
    /\ run' = [run EXCEPT ![index] = "lock"]
    /\ main' = "lock"
    /\ UNCHANGED <<index, mutex, eventLoop>>

\* pthread_mutex_lock(), and the lock that pthread_cond_wait() takes again.
MainLock ==
    /\ main = "lock"
    /\ mutex[index] = Free
    /\ mutex' = [mutex EXCEPT ![index] = Main]
    /\ main' = "test"
    /\ UNCHANGED <<index, run, eventLoop>>

\* pthread_cond_wait() releases the mutex and sleeps in one step.
MainWait ==
    /\ main = "test"
    /\ ~eventLoop[index]
    /\ mutex' = [mutex EXCEPT ![index] = Free]
    /\ main' = "wait"
    /\ UNCHANGED <<index, run, eventLoop>>

SpuriousWakeup ==
    /\ main = "wait"
    /\ main' = "lock"
    /\ UNCHANGED <<index, run, mutex, eventLoop>>

\* Mutant: one wake-up is taken for the event loop.
ReturnUntested ==
    /\ main = "test"
    /\ mutex' = [mutex EXCEPT ![index] = Free]
    /\ index' = index + 1
    /\ main' = Turn(index + 1)
    /\ UNCHANGED <<run, eventLoop>>

\* The event loop is there: unlock, and go on with the next thread.
MainReturn ==
    /\ main = "test"
    /\ eventLoop[index]
    /\ mutex' = [mutex EXCEPT ![index] = Free]
    /\ index' = index + 1
    /\ main' = Turn(index + 1)
    /\ UNCHANGED <<run, eventLoop>>

-----------------------------------------------------------------------------
(* event_loop_thread_run(), in thread t.                                   *)

RunLock(t) ==
    /\ run[t] = "lock"
    /\ mutex[t] = Free
    /\ mutex' = [mutex EXCEPT ![t] = t]
    /\ run' = [run EXCEPT ![t] = "init"]
    /\ UNCHANGED <<index, main, eventLoop>>

RunInit(t) ==
    /\ run[t] = "init"
    /\ eventLoop' = [eventLoop EXCEPT ![t] = TRUE]
    /\ run' = [run EXCEPT ![t] = "signal"]
    /\ UNCHANGED <<index, main, mutex>>

\* Mutant: nobody is signalled.
RunSilent(t) ==
    /\ run[t] = "signal"
    /\ run' = [run EXCEPT ![t] = "unlock"]
    /\ UNCHANGED <<index, main, mutex, eventLoop>>

\* pthread_cond_signal() does nothing when the main thread does not sleep on
\* this thread's condition variable.
RunSignal(t) ==
    /\ run[t] = "signal"
    /\ main' = IF main = "wait" /\ index = t THEN "lock" ELSE main
    /\ run' = [run EXCEPT ![t] = "unlock"]
    /\ UNCHANGED <<index, mutex, eventLoop>>

RunUnlock(t) ==
    /\ run[t] = "unlock"
    /\ mutex' = [mutex EXCEPT ![t] = Free]
    /\ run' = [run EXCEPT ![t] = "loop"]
    /\ UNCHANGED <<index, main, eventLoop>>

-----------------------------------------------------------------------------
MainThread == Create \/ MainLock \/ MainWait \/ MainReturn
SubThread(t) == RunLock(t) \/ RunInit(t) \/ RunSignal(t) \/ RunUnlock(t)

\* All threads run their event loops.
Running ==
    /\ main = "started"
    /\ \A t \in Thread : run[t] = "loop"
    /\ UNCHANGED vars

Next ==
    \/ MainThread
    \/ SpuriousWakeup
    \/ \E t \in Thread : SubThread(t)
    \/ Running

Spec == Init /\ [][Next]_vars

\* Every thread that can take a step takes it, and a mutex that becomes free
\* again and again is at last given to the new thread.  Spurious wake-ups owe
\* nothing, and may go on for ever.
Fairness ==
    /\ WF_vars(MainThread)
    /\ \A t \in Thread : WF_vars(SubThread(t)) /\ SF_vars(RunLock(t))

FairSpec == Spec /\ Fairness

-----------------------------------------------------------------------------
(* Properties.                                                             *)

\* thread_pool_get_loop() never returns NULL: a thread that has been started
\* has an event loop, created while the thread held the mutex.
StartedHasLoop ==
    /\ \A t \in Thread : t < index => eventLoop[t]
    /\ main = "started" => \A t \in Thread : eventLoop[t]

\* The signal is not lost: while the main thread sleeps, the thread it waits
\* for has still to signal.
NoLostSignal ==
    main = "wait" => run[index] \in {"lock", "init", "signal"}

\* thread_pool_start() returns, and every sub-reactor gets to run its loop.
AllStart == <>[](main = "started" /\ \A t \in Thread : run[t] = "loop")

=============================================================================
