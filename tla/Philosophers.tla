---------------------------- MODULE Philosophers ----------------------------
(***************************************************************************)
(* The dining philosophers of src/操作系统算法/哲学家就餐问题/main.cpp: a  *)
(* thread per philosopher and a mutex per chopstick.  All but the last     *)
(* philosopher take the left chopstick first, the last one the right.      *)
(***************************************************************************)
EXTENDS Naturals

CONSTANT NUM   \* the philosophers, and the chopsticks

ASSUME PhilosophersAssumption == NUM \in Nat \ {0, 1}

Philosopher == 0 .. NUM - 1
Nobody == NUM   \* the owner of a mutex that is free

VARIABLES
    Mutext,   \* Mutext[m]: the owner of chopstick m
    pc        \* pc[p]: where philosopher p is in ThreadFun()

vars == <<Mutext, pc>>

TypeOK ==
    /\ Mutext \in [Philosopher -> Philosopher \cup {Nobody}]
    /\ pc \in [Philosopher -> {"first", "second", "eat", "release"}]

Init ==
    /\ Mutext = [m \in Philosopher |-> Nobody]
    /\ pc = [p \in Philosopher |-> "first"]

\* Mutant: the last philosopher is like the others.
AllLeft(p) == TRUE

TakesLeftFirst(p) == p < NUM - 1

\* The chopstick that p takes, and puts down, first and second.
First(p) == IF TakesLeftFirst(p) THEN p ELSE (p + 1) % NUM
Second(p) == IF TakesLeftFirst(p) THEN (p + 1) % NUM ELSE p

-----------------------------------------------------------------------------
\* WaitForSingleObject()
TakeFirst(p) ==
    /\ pc[p] = "first"
    /\ Mutext[First(p)] = Nobody
    /\ Mutext' = [Mutext EXCEPT ![First(p)] = p]
    /\ pc' = [pc EXCEPT ![p] = "second"]

\* Mutant: p puts its chopstick down when the other one is taken.
TakeSecondOrGiveUp(p) ==
    /\ pc[p] = "second"
    /\ IF Mutext[Second(p)] = Nobody
       THEN /\ Mutext' = [Mutext EXCEPT ![Second(p)] = p]
            /\ pc' = [pc EXCEPT ![p] = "eat"]
       ELSE /\ Mutext' = [Mutext EXCEPT ![First(p)] = Nobody]
            /\ pc' = [pc EXCEPT ![p] = "first"]

TakeSecond(p) ==
    /\ pc[p] = "second"
    /\ Mutext[Second(p)] = Nobody
    /\ Mutext' = [Mutext EXCEPT ![Second(p)] = p]
    /\ pc' = [pc EXCEPT ![p] = "eat"]

\* ReleaseMutex(), after the meal.
ReleaseFirst(p) ==
    /\ pc[p] = "eat"
    /\ Mutext' = [Mutext EXCEPT ![First(p)] = Nobody]
    /\ pc' = [pc EXCEPT ![p] = "release"]

ReleaseSecond(p) ==
    /\ pc[p] = "release"
    /\ Mutext' = [Mutext EXCEPT ![Second(p)] = Nobody]
    /\ pc' = [pc EXCEPT ![p] = "first"]

ThreadFun(p) ==
    TakeFirst(p) \/ TakeSecond(p) \/ ReleaseFirst(p) \/ ReleaseSecond(p)

Next == \E p \in Philosopher : ThreadFun(p)

Spec == Init /\ [][Next]_vars

\* Threads run, and a wait for a mutex that becomes free again and again ends.
Fairness ==
    \A p \in Philosopher :
        /\ WF_vars(ThreadFun(p))
        /\ SF_vars(TakeFirst(p)) /\ SF_vars(TakeSecond(p))

FairSpec == Spec /\ Fairness

-----------------------------------------------------------------------------
(* Properties.                                                             *)

\* Two philosophers with a chopstick in common never eat at the same time.
NeighboursExclude ==
    \A p, q \in Philosopher :
        (p # q /\ pc[p] = "eat" /\ pc[q] = "eat") =>
            {First(p), Second(p)} \cap {First(q), Second(q)} = {}

\* The chopsticks that p waits for.
Wanted(p) ==
    (IF pc[p] = "first" THEN {First(p)} ELSE {})
        \cup (IF pc[p] = "second" THEN {Second(p)} ELSE {})

\* There is no circle of threads each of which waits for a mutex that another
\* one of them holds: the order in which the last philosopher takes the
\* chopsticks rules it out.
NoCircularWait ==
    \A S \in SUBSET Philosopher : S # {} =>
        \E p \in S : \A m \in Wanted(p) : Mutext[m] \notin S

\* Nobody starves.
EveryoneEats == \A p \in Philosopher : []<>(pc[p] = "eat")

=============================================================================
