------------------------- MODULE LoopThreadsProofs -------------------------
(***************************************************************************)
(* Proofs about the start of the sub-reactors, for any number of them.     *)
(***************************************************************************)
EXTENDS LoopThreads, TLAPS

\* A thread has its event loop exactly from RunInit on, and holds its mutex
\* from RunLock to RunUnlock.
ThreadInv ==
    \A t \in Thread :
        /\ eventLoop[t] <=> run[t] \in {"signal", "unlock", "loop"}
        /\ mutex[t] = t <=> run[t] \in {"init", "signal", "unlock"}

\* The main thread holds the mutex of the thread it starts while it tests, no
\* other one, and has created that thread and none of the later ones.
MainInv ==
    /\ \A t \in Thread : mutex[t] = Main <=> main = "test" /\ index = t
    /\ main \in {"lock", "test", "wait"} => run[index] # "none"
    /\ \A t \in Thread :
          (t > index \/ (t = index /\ main = "create")) => run[t] = "none"
    /\ main = "started" => index = thread_number + 1

IInv == TypeOK /\ StartedHasLoop /\ NoLostSignal /\ ThreadInv /\ MainInv

-----------------------------------------------------------------------------
\* thread_pool_start() begins in a state that satisfies the invariant.
LEMMA InitInv == Init => IInv
  BY LoopThreadsAssumption
  DEF Init, IInv, TypeOK, StartedHasLoop, NoLostSignal, ThreadInv, MainInv, Turn,
      Thread, Main, Free

\* Every step of the main thread and of the new threads keeps the invariant.
LEMMA NextInv == IInv /\ [Next]_vars => IInv'
<1> SUFFICES ASSUME IInv, [Next]_vars PROVE IInv'
  OBVIOUS
<1> USE LoopThreadsAssumption
    DEF IInv, TypeOK, StartedHasLoop, NoLostSignal, ThreadInv, MainInv, Thread,
        Main, Free
<1>1. CASE Create
  BY <1>1 DEF Create
<1>2. CASE MainLock
  BY <1>2 DEF MainLock
<1>3. CASE MainWait
  BY <1>3 DEF MainWait
<1>4. CASE MainReturn
  <2>1. /\ index \in Thread /\ index' = index + 1
        /\ main = "test" /\ eventLoop[index]
        /\ mutex' = [mutex EXCEPT ![index] = Free]
        /\ UNCHANGED <<run, eventLoop>>
    BY <1>4 DEF MainReturn
  <2>2. \/ index' \in Thread /\ main' = "create"
        \/ index' = thread_number + 1 /\ main' = "started"
    BY <1>4, <2>1 DEF MainReturn, Turn
  <2>3. (TypeOK /\ NoLostSignal)'
    BY <2>1, <2>2
  <2>4. StartedHasLoop'
    BY <2>1, <2>2
  <2>5. ThreadInv'
    <3> SUFFICES ASSUME NEW t \in Thread
                 PROVE  (mutex'[t] = t <=> mutex[t] = t)
      BY <2>1
    <3> QED
      BY <2>1
  <2>6. MainInv'
    <3>1. \A t \in Thread : mutex'[t] # Main
      BY <2>1
    <3>2. \A t \in Thread : t >= index' => run'[t] = "none"
      BY <2>1
    <3> QED
      BY <2>2, <3>1, <3>2
  <2> QED
    BY <2>3, <2>4, <2>5, <2>6
<1>5. CASE SpuriousWakeup
  BY <1>5 DEF SpuriousWakeup
<1>6. ASSUME NEW t \in Thread, RunLock(t) PROVE IInv'
  BY <1>6 DEF RunLock
<1>7. ASSUME NEW t \in Thread, RunInit(t) PROVE IInv'
  BY <1>7 DEF RunInit
<1>8. ASSUME NEW t \in Thread, RunSignal(t) PROVE IInv'
  BY <1>8 DEF RunSignal
<1>9. ASSUME NEW t \in Thread, RunUnlock(t) PROVE IInv'
  BY <1>9 DEF RunUnlock
<1>10. CASE Running \/ UNCHANGED vars
  BY <1>10 DEF Running, vars
<1> QED
  BY <1>1, <1>2, <1>3, <1>4, <1>5, <1>6, <1>7, <1>8, <1>9, <1>10
  DEF Next, MainThread, SubThread

\* The invariant holds throughout the start.
THEOREM Invariance == Spec => []IInv
  BY InitInv, NextInv, PTL DEF Spec

\* event_loop_thread_start() returns only when the thread has its event loop,
\* so thread_pool_get_loop() never returns NULL.
THEOREM LoopSafety == Spec => []StartedHasLoop
  BY Invariance, PTL DEF IInv

\* The main thread never sleeps on a condition that was signalled before.
THEOREM SignalSafety == Spec => []NoLostSignal
  BY Invariance, PTL DEF IInv
=============================================================================
