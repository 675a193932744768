------------------------- MODULE PhilosophersProofs -------------------------
(***************************************************************************)
(* Proofs about the dining philosophers, for any number of them from two.  *)
(***************************************************************************)
EXTENDS Philosophers, WellFoundedInduction, TLAPS

\* The owner that a mutex records is the philosopher that has taken it and not
\* yet put it down.
HoldInv ==
    \A p \in Philosopher :
        /\ pc[p] \in {"second", "eat"} => Mutext[First(p)] = p
        /\ pc[p] \in {"eat", "release"} => Mutext[Second(p)] = p
        /\ \A m \in Philosopher : Mutext[m] = p =>
              \/ m = First(p) /\ pc[p] \in {"second", "eat"}
              \/ m = Second(p) /\ pc[p] \in {"eat", "release"}

IInv == TypeOK /\ HoldInv

-----------------------------------------------------------------------------
\* The two chopsticks of a philosopher; the first has the smaller number, for
\* the last philosopher too.
LEMMA Ordered ==
    ASSUME NEW p \in Philosopher
    PROVE  /\ First(p) \in Philosopher /\ Second(p) \in Philosopher
           /\ First(p) < Second(p)
<1>1. CASE p < NUM - 1
  <2>1. (p + 1) % NUM = p + 1
    BY <1>1, PhilosophersAssumption DEF Philosopher
  <2> QED
    BY <1>1, <2>1, PhilosophersAssumption
    DEF Philosopher, First, Second, TakesLeftFirst
<1>2. CASE p = NUM - 1
  <2>1. (p + 1) % NUM = 0
    BY <1>2, PhilosophersAssumption DEF Philosopher
  <2> QED
    BY <1>2, <2>1, PhilosophersAssumption
    DEF Philosopher, First, Second, TakesLeftFirst
<1> QED
  BY <1>1, <1>2, PhilosophersAssumption DEF Philosopher

\* A non-empty set of numbers below NUM has a largest element.
LEMMA Largest ==
    ASSUME NEW T \in SUBSET Philosopher, T # {}
    PROVE  \E x \in T : \A y \in T : y <= x
<1> DEFINE R == OpToRel(<, Nat)
           U == {NUM - y : y \in T}
<1>1. \A v, u \in Nat : v < u => <<v, u>> \in R
  BY DEF OpToRel
<1> HIDE DEF R
<1>2. \A y \in T : y \in Nat /\ NUM - y \in Nat
  BY PhilosophersAssumption DEF Philosopher
<1>3. U \subseteq Nat /\ U # {}
  BY <1>2
<1>4. PICK u \in U : \A v \in U : <<v, u>> \notin R
  <2> HIDE DEF U
  <2>1. IsWellFoundedOn(R, Nat)
    BY NatLessThanWellFounded DEF R
  <2> QED
    BY <1>3, <2>1, WFMin
<1>5. \A v \in U : ~(v < u)
  BY <1>1, <1>3, <1>4
<1>6. PICK x \in T : u = NUM - x
  BY <1>4
<1>7. \A y \in T : ~(NUM - y < NUM - x)
  BY <1>5, <1>6
<1> QED
  BY <1>2, <1>6, <1>7, PhilosophersAssumption

-----------------------------------------------------------------------------
\* At the start no chopstick is taken.
LEMMA InitInv == Init => IInv
<1>1. Nobody \notin Philosopher
  BY PhilosophersAssumption DEF Philosopher, Nobody
<1> QED
  BY <1>1, Ordered DEF Init, IInv, TypeOK, HoldInv

\* Taking and releasing keep the owners and the positions in step.
LEMMA NextInv == IInv /\ [Next]_vars => IInv'
<1> SUFFICES ASSUME IInv, [Next]_vars PROVE IInv'
  OBVIOUS
<1> USE DEF IInv, TypeOK, HoldInv
<1>0. Nobody \notin Philosopher
  BY PhilosophersAssumption DEF Philosopher, Nobody
<1>1. ASSUME NEW p \in Philosopher, TakeFirst(p) PROVE IInv'
  BY <1>0, <1>1, Ordered DEF TakeFirst
<1>2. ASSUME NEW p \in Philosopher, TakeSecond(p) PROVE IInv'
  BY <1>0, <1>2, Ordered DEF TakeSecond
<1>3. ASSUME NEW p \in Philosopher, ReleaseFirst(p) PROVE IInv'
  <2>1. /\ First(p) \in Philosopher /\ Second(p) \in Philosopher
        /\ First(p) # Second(p)
    BY Ordered DEF Philosopher
  <2>2. Mutext[First(p)] = p /\ Mutext[Second(p)] = p
    BY <1>3 DEF ReleaseFirst
  <2>3. TypeOK'
    BY <1>3, <2>1 DEF ReleaseFirst
  <2>4. ASSUME NEW q \in Philosopher, NEW m \in Philosopher, Mutext'[m] = q
        PROVE  \/ m = First(q) /\ pc'[q] \in {"second", "eat"}
               \/ m = Second(q) /\ pc'[q] \in {"eat", "release"}
    BY <1>0, <1>3, <2>1, <2>4 DEF ReleaseFirst
  <2>5. ASSUME NEW q \in Philosopher
        PROVE  /\ pc'[q] \in {"second", "eat"} => Mutext'[First(q)] = q
               /\ pc'[q] \in {"eat", "release"} => Mutext'[Second(q)] = q
    BY <1>3, <2>1, <2>2, Ordered DEF ReleaseFirst
  <2> QED
    BY <2>3, <2>4, <2>5
<1>4. ASSUME NEW p \in Philosopher, ReleaseSecond(p) PROVE IInv'
  BY <1>0, <1>4, Ordered DEF ReleaseSecond
<1>5. CASE UNCHANGED vars
  BY <1>5 DEF vars
<1> QED
  BY <1>1, <1>2, <1>3, <1>4, <1>5 DEF Next, ThreadFun

\* The invariant holds in every state.
THEOREM Invariance == Spec => []IInv
  BY InitInv, NextInv, PTL DEF Spec

\* Two philosophers that share a chopstick never eat at the same time.
THEOREM Exclusion == Spec => []NeighboursExclude
<1>1. IInv => NeighboursExclude
  <2> SUFFICES ASSUME IInv, NEW p \in Philosopher, NEW q \in Philosopher, p # q,
                      pc[p] = "eat", pc[q] = "eat",
                      NEW m, m \in {First(p), Second(p)}, m \in {First(q), Second(q)}
               PROVE  FALSE
    BY DEF NeighboursExclude
  <2>1. Mutext[m] = p /\ Mutext[m] = q
    BY DEF IInv, HoldInv
  <2> QED
    BY <2>1
<1> QED
  BY <1>1, Invariance, PTL

\* No set of philosophers, however many there are, waits in a circle.
THEOREM DeadlockFree == Spec => []NoCircularWait
<1>1. IInv => NoCircularWait
  <2> SUFFICES ASSUME IInv, NEW S \in SUBSET Philosopher, S # {},
                      \A p \in S : \E m \in Wanted(p) : Mutext[m] \in S
               PROVE  FALSE
    BY DEF NoCircularWait
  <2> DEFINE T == {m \in Philosopher : Mutext[m] \in S}
  \* Every member of S waits; one that holds a chopstick waits for its second.
  <2>1. ASSUME NEW p \in S
        PROVE  /\ pc[p] \in {"first", "second"}
               /\ pc[p] = "first" => First(p) \in T
               /\ pc[p] = "second" => Second(p) \in T
    BY <2>1, Ordered DEF Wanted
  <2>2. T # {}
    BY <2>1
  <2>3. PICK m \in T : \A n \in T : n <= m
    <3> HIDE DEF T
    <3>1. T \in SUBSET Philosopher
      BY DEF T
    <3> QED
      BY <2>2, <3>1, Largest
  <2> DEFINE q == Mutext[m]
  <2>4. q \in S /\ m = First(q) /\ pc[q] = "second"
    BY <2>1 DEF IInv, HoldInv
  <2>5. Second(q) \in T /\ First(q) < Second(q)
    BY <2>1, <2>4, Ordered
  <2>6. Second(q) <= First(q) /\ First(q) \in Philosopher /\ Second(q) \in Philosopher
    BY <2>3, <2>4, <2>5
  <2> QED
    BY <2>5, <2>6 DEF Philosopher
<1> QED
  BY <1>1, Invariance, PTL
=============================================================================
