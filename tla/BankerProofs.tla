---------------------------- MODULE BankerProofs ----------------------------
(***************************************************************************)
(* Proofs about the banker's algorithm, for any resources and any number   *)
(* of processes: sums over sets of processes, the undoing of a refused     *)
(* request, the conservation of resources and the soundness of is_safe().  *)
(***************************************************************************)
EXTENDS Banker, FiniteSetTheorems, WellFoundedInduction, TLAPS

(* Induction over finite sets, with the property given as a set.           *)

\* The least-number principle for sets of natural numbers.
LEMMA LeastNumber ==
    ASSUME NEW S \in SUBSET Nat, S # {}
    PROVE  \E n \in S : \A m \in S : n <= m
<1> DEFINE R == {p \in Nat \X Nat : p[1] < p[2]}
<1>1. IsWellFoundedOn(R, Nat)
  BY NatLessThanWellFounded, Zenon DEF OpToRel
<1> HIDE DEF R
<1>2. PICK n \in S : \A m \in S : ~(<<m, n>> \in R)
  BY <1>1, WFMin, S \subseteq Nat
<1>3. \A m \in S : ~(m < n)
  BY <1>2 DEF R
<1> QED
  BY <1>3

\* A property that a subset of U has when the sets with one element less have
\* it, all subsets have.
LEMMA SubsetInduction ==
    ASSUME NEW U, IsFiniteSet(U), NEW Good,
           \A S \in SUBSET U : (\A x \in S : S \ {x} \in Good) => S \in Good
    PROVE  \A S \in SUBSET U : S \in Good
<1> SUFFICES ASSUME NEW B \in SUBSET U, B \notin Good PROVE FALSE
  OBVIOUS
<1> DEFINE Size == {n \in Nat : \E S \in SUBSET U : S \notin Good /\ Cardinality(S) = n}
<1>1. \A S \in SUBSET U : IsFiniteSet(S) /\ Cardinality(S) \in Nat
  BY FS_Subset, FS_CardinalityType
<1>2. Size # {} /\ Size \in SUBSET Nat
  BY <1>1
<1> HIDE DEF Size
<1>3. PICK n \in Size : \A m \in Size : n <= m
  BY <1>2, LeastNumber
<1>4. PICK S \in SUBSET U : S \notin Good /\ Cardinality(S) = n
  BY <1>3 DEF Size
<1>5. PICK x \in S : S \ {x} \notin Good
  BY <1>4
<1>6. Cardinality(S \ {x}) = n - 1
  BY <1>1, <1>4, <1>5, FS_RemoveElement
<1>7. n \in Nat /\ n - 1 \in Nat
  BY <1>1, <1>6, S \ {x} \in SUBSET U, <1>3 DEF Size
<1>8. n - 1 \in Size
  BY <1>5, <1>6, <1>7, S \ {x} \in SUBSET U DEF Size
<1> QED
  BY <1>3, <1>7, <1>8

-----------------------------------------------------------------------------
(* Sums over the subsets of a finite set.                                  *)

Any(s) == CHOOSE x \in s : TRUE

\* The recursion that g follows on the subsets of U.
Unfolds(w, U, g) ==
    \A s \in SUBSET U : g[s] = IF s = {} THEN 0 ELSE w[Any(s)] + g[s \ {Any(s)}]

\* g gives each subset of U the sum of its weights.
Sums(w, U, g) == g \in [SUBSET U -> Int] /\ Unfolds(w, U, g)

\* Any(s) is a member of s.
LEMMA AnyMember == \A s : s # {} => Any(s) \in s
BY DEF Any

\* There is such a function.
LEMMA SumsExist ==
    ASSUME NEW U, IsFiniteSet(U), NEW w \in [U -> Int]
    PROVE  \E g : Sums(w, U, g)
<1> DEFINE Step(g) == [s \in SUBSET U |-> IF s = {} THEN 0 ELSE w[Any(s)] + g[s \ {Any(s)}]]
<1> DEFINE UpTo(n) == \E g \in [SUBSET U -> Int] :
                         \A s \in SUBSET U : Cardinality(s) <= n => g[s] = Step(g)[s]
<1>1. \A s \in SUBSET U : IsFiniteSet(s) /\ Cardinality(s) \in Nat
  BY FS_Subset, FS_CardinalityType
<1>2. \A g \in [SUBSET U -> Int] : Step(g) \in [SUBSET U -> Int]
  BY AnyMember
<1>3. UpTo(0)
  <2> DEFINE g == [s \in SUBSET U |-> 0]
  <2>1. \A s \in SUBSET U : Cardinality(s) <= 0 => s = {}
    BY <1>1, FS_EmptySet
  <2>2. \A s \in SUBSET U : Cardinality(s) <= 0 => g[s] = Step(g)[s]
    BY <2>1
  <2>3. g \in [SUBSET U -> Int]
    OBVIOUS
  <2> HIDE DEF g
  <2> QED
    BY <2>2, <2>3
<1>4. ASSUME NEW n \in Nat, UpTo(n) PROVE UpTo(n + 1)
  <2>1. PICK g \in [SUBSET U -> Int] :
           \A s \in SUBSET U : Cardinality(s) <= n => g[s] = Step(g)[s]
    BY <1>4
  <2> DEFINE h == Step(g)
  <2>2. h \in [SUBSET U -> Int]
    BY <1>2
  <2>3. ASSUME NEW s \in SUBSET U, Cardinality(s) <= n + 1 PROVE h[s] = Step(h)[s]
    <3>1. CASE s = {}
      BY <3>1
    <3>2. CASE s # {}
      <4>1. Any(s) \in s /\ s \ {Any(s)} \in SUBSET U
        BY <3>2, AnyMember
      <4>2. Cardinality(s \ {Any(s)}) <= n
        BY <1>1, <2>3, <4>1, FS_RemoveElement
      <4>3. g[s \ {Any(s)}] = h[s \ {Any(s)}]
        BY <2>1, <4>1, <4>2
      <4>4. h[s] = w[Any(s)] + g[s \ {Any(s)}] /\ Step(h)[s] = w[Any(s)] + h[s \ {Any(s)}]
        BY <3>2
      <4> QED
        BY <4>3, <4>4
    <3> QED
      BY <3>1, <3>2
  <2> HIDE DEF h
  <2> QED
    BY <2>2, <2>3
<1> HIDE DEF UpTo
<1> DEFINE Bad == {n \in Nat : ~UpTo(n)}
<1>5. Bad = {}
  <2> SUFFICES ASSUME Bad # {} PROVE FALSE
    OBVIOUS
  <2>1. PICK n \in Bad : \A m \in Bad : n <= m
    BY LeastNumber, Bad \in SUBSET Nat
  <2>2. n # 0 /\ n - 1 \in Nat /\ n - 1 \notin Bad
    BY <1>3, <2>1
  <2> QED
    BY <1>4, <2>1, <2>2
<1>6. UpTo(Cardinality(U))
  BY <1>1, <1>5, U \in SUBSET U
<1>7. \A s \in SUBSET U : Cardinality(s) <= Cardinality(U)
  BY FS_Subset
<1> QED
  BY <1>6, <1>7 DEF UpTo, Sums, Unfolds

\* The sum over a set does not depend on the set its subsets are taken from.
LEMMA SumsUnique ==
    ASSUME NEW U, IsFiniteSet(U), NEW w \in [U -> Int], NEW g, Sums(w, U, g),
           NEW S \in SUBSET U,
           NEW h, Unfolds(w, S, h)
    PROVE  h[S] = g[S]
<1> DEFINE Good == {s \in SUBSET S : h[s] = g[s]}
<1>1. IsFiniteSet(S)
  BY FS_Subset
<1>2. ASSUME NEW s \in SUBSET S, \A x \in s : s \ {x} \in Good PROVE s \in Good
  <2>1. h[s] = IF s = {} THEN 0 ELSE w[Any(s)] + h[s \ {Any(s)}]
    BY DEF Unfolds
  <2>2. s # {} => h[s \ {Any(s)}] = g[s \ {Any(s)}]
    BY <1>2, AnyMember
  <2> QED
    BY <2>1, <2>2, s \in SUBSET U DEF Sums, Unfolds
<1> HIDE DEF Good
<1>3. S \in Good
  BY <1>1, <1>2, SubsetInduction, S \in SUBSET S
<1> QED
  BY <1>3 DEF Good

\* The order in which the elements are taken does not matter.
LEMMA SumsAdd ==
    ASSUME NEW U, IsFiniteSet(U), NEW w \in [U -> Int], NEW g, Sums(w, U, g),
           NEW S \in SUBSET U, NEW x \in U \ S
    PROVE  g[S \cup {x}] = g[S] + w[x]
<1> DEFINE Good == {s \in SUBSET U : \A y \in U \ s : g[s \cup {y}] = g[s] + w[y]}
<1>1. ASSUME NEW s \in SUBSET U, \A y \in s : s \ {y} \in Good PROVE s \in Good
  <2> SUFFICES ASSUME NEW y \in U \ s PROVE g[s \cup {y}] = g[s] + w[y]
    OBVIOUS
  <2> DEFINE a == Any(s \cup {y})
  <2>1. a \in s \cup {y} /\ s \cup {y} \in SUBSET U
    BY AnyMember
  <2>2. g[s \cup {y}] = w[a] + g[(s \cup {y}) \ {a}]
    BY <2>1 DEF Sums, Unfolds
  <2> HIDE DEF a
  <2>3. \A t \in SUBSET U : g[t] \in Int
    BY DEF Sums, Unfolds
  <2>4. CASE a = y
    <3>1. (s \cup {y}) \ {a} = s /\ w[y] \in Int /\ g[s] \in Int
      BY <2>3, <2>4
    <3>2. g[s \cup {y}] = w[y] + g[s]
      BY <2>2, <2>4, <3>1
    <3> QED
      BY <3>1, <3>2
  <2>5. CASE a # y
    <3>1. a \in s /\ (s \cup {y}) \ {a} = (s \ {a}) \cup {y} /\ s = (s \ {a}) \cup {a}
      BY <2>1, <2>5
    <3>2. s \ {a} \in Good /\ y \in U \ (s \ {a}) /\ a \in U \ (s \ {a})
      BY <1>1, <3>1
    <3>3. g[(s \ {a}) \cup {y}] = g[s \ {a}] + w[y]
      BY <3>2
    <3>4. g[(s \ {a}) \cup {a}] = g[s \ {a}] + w[a]
      BY <3>2
    <3>5. g[s \cup {y}] = w[a] + (g[s \ {a}] + w[y]) /\ g[s] = g[s \ {a}] + w[a]
      BY <2>2, <3>1, <3>3, <3>4
    <3>6. w[a] \in Int /\ w[y] \in Int /\ g[s \ {a}] \in Int
      BY <2>3, <3>2
    <3> QED
      BY <3>5, <3>6
  <2> QED
    BY <2>4, <2>5
<1> HIDE DEF Good
<1>2. S \in Good
  BY <1>1, SubsetInduction
<1> QED
  BY <1>2 DEF Good

-----------------------------------------------------------------------------
(* What the processes of a set have.                                       *)

Amount == [Resource -> Int]
Table == [Row -> Amount]

\* What the rows of a table say about one resource.
Column(A, U, r) == [p \in U |-> A[p][r]]

\* The processes are finitely many, and every number the user may enter is
\* within the rows.
LEMMA RowFinite ==
    /\ IsFiniteSet(Row) /\ Max(Counts) \in Nat
    /\ \A n \in Counts : n \in Nat \ {0} /\ n <= Max(Counts)
<1> DEFINE Good == {S \in SUBSET Counts : S # {} => \E x \in S : \A y \in S : x >= y}
<1>1. ASSUME NEW S \in SUBSET Counts, \A x \in S : S \ {x} \in Good PROVE S \in Good
  <2> SUFFICES ASSUME NEW x \in S PROVE \E z \in S : \A y \in S : z >= y
    OBVIOUS
  <2>1. S \subseteq Nat
    BY BankerAssumption
  <2>2. CASE S = {x}
    BY <2>1, <2>2
  <2>3. CASE S # {x}
    <3>1. PICK z \in S \ {x} : \A y \in S \ {x} : z >= y
      BY <1>1, <2>3
    <3>2. CASE z >= x
      BY <3>1, <3>2
    <3>3. CASE ~(z >= x)
      BY <2>1, <3>1, <3>3
    <3> QED
      BY <3>2, <3>3
  <2> QED
    BY <2>2, <2>3
<1>2. Counts \in Good
  <2> HIDE DEF Good
  <2> QED
    BY <1>1, SubsetInduction, BankerAssumption
<1>3. Max(Counts) \in Counts /\ \A y \in Counts : Max(Counts) >= y
  BY <1>2, BankerAssumption DEF Max
<1>4. Max(Counts) \in Nat
  BY <1>3, BankerAssumption
<1> QED
  BY <1>3, <1>4, BankerAssumption, FS_Interval DEF Row

\* A sum function gives what any set of processes has of a resource.
LEMMA HeldSums ==
    ASSUME NEW U, IsFiniteSet(U), NEW A \in [U -> Amount], NEW r \in Resource
    PROVE  \E g : /\ Sums(Column(A, U, r), U, g)
                  /\ \A S \in SUBSET U : Held(A, S)[r] = g[S]
<1> DEFINE w == Column(A, U, r)
<1>1. w \in [U -> Int]
  BY DEF Amount, Column
<1>2. PICK g : Sums(w, U, g)
  BY <1>1, SumsExist
<1>3. ASSUME NEW S \in SUBSET U PROVE Held(A, S)[r] = g[S]
  <2> DEFINE Eq(h) == h = [s \in SUBSET S |-> IF s = {} THEN 0
                                              ELSE A[Any(s)][r] + h[s \ {Any(s)}]]
  <2>1. Held(A, S)[r] = (CHOOSE h : Eq(h))[S]
    BY Zenon DEF Held, MapThenSumSet, MapThenFoldSet, Any
  <2>2. \A s \in SUBSET S : s # {} => w[Any(s)] = A[Any(s)][r]
    BY AnyMember DEF Column
  <2>3. Eq([s \in SUBSET S |-> g[s]])
    <3> DEFINE h == [s \in SUBSET S |-> g[s]]
    <3>1. \A s \in SUBSET S : h[s] = IF s = {} THEN 0 ELSE A[Any(s)][r] + h[s \ {Any(s)}]
      BY <1>2, <2>2 DEF Sums, Unfolds
    <3> QED
      BY <3>1
  <2>4. PICK h : h = (CHOOSE f : Eq(f)) /\ Eq(h)
    BY <2>3
  <2>5. Unfolds(w, S, h)
    <3>1. \A s \in SUBSET S : h[s] = IF s = {} THEN 0 ELSE A[Any(s)][r] + h[s \ {Any(s)}]
      BY <2>4
    <3> QED
      BY <2>2, <3>1 DEF Unfolds
  <2> HIDE DEF w
  <2>6. h[S] = g[S]
    BY <1>1, <1>2, <2>5, SumsUnique
  <2> QED
    BY <2>1, <2>4, <2>6
<1> QED
  BY <1>2, <1>3

\* What the processes of a set have is an amount of every resource; no process
\* has nothing.
LEMMA HeldType ==
    ASSUME NEW U, IsFiniteSet(U), NEW A \in [U -> Amount]
    PROVE  /\ \A S \in SUBSET U : Held(A, S) \in Amount
           /\ Held(A, {}) = Zero
<1>1. ASSUME NEW r \in Resource
      PROVE  (\A S \in SUBSET U : Held(A, S)[r] \in Int) /\ Held(A, {})[r] = 0
  <2>1. PICK g : Sums(Column(A, U, r), U, g) /\ \A S \in SUBSET U : Held(A, S)[r] = g[S]
    BY HeldSums
  <2> QED
    BY <2>1 DEF Sums, Unfolds
<1>2. \A S : Held(A, S) = [r \in Resource |-> Held(A, S)[r]]
  BY DEF Held
<1> QED
  BY <1>1, <1>2 DEF Amount, Zero

\* One process more.
LEMMA HeldAdd ==
    ASSUME NEW U, IsFiniteSet(U), NEW A \in [U -> Amount],
           NEW S \in SUBSET U, NEW x \in U \ S
    PROVE  Held(A, S \cup {x}) = Plus(Held(A, S), A[x])
<1>1. ASSUME NEW r \in Resource
      PROVE  Held(A, S \cup {x})[r] = Held(A, S)[r] + A[x][r]
  <2> DEFINE w == Column(A, U, r)
  <2>1. PICK g : Sums(w, U, g) /\ \A T \in SUBSET U : Held(A, T)[r] = g[T]
    BY HeldSums
  <2>2. w \in [U -> Int] /\ w[x] = A[x][r]
    BY DEF Amount, Column
  <2> HIDE DEF w
  <2>3. g[S \cup {x}] = g[S] + w[x]
    BY <2>1, <2>2, SumsAdd
  <2> QED
    BY <2>1, <2>2, <2>3, S \cup {x} \in SUBSET U
<1>2. Held(A, S \cup {x}) = [r \in Resource |-> Held(A, S \cup {x})[r]]
  BY DEF Held
<1> QED
  BY <1>1, <1>2 DEF Plus

\* Only the rows of the set count.
LEMMA HeldSame ==
    ASSUME NEW U, IsFiniteSet(U), NEW A \in [U -> Amount],
           NEW V, IsFiniteSet(V), NEW B \in [V -> Amount],
           NEW S, S \subseteq U, S \subseteq V, \A p \in S : A[p] = B[p]
    PROVE  Held(A, S) = Held(B, S)
<1> DEFINE Good == {s \in SUBSET S : Held(A, s) = Held(B, s)}
<1>1. ASSUME NEW s \in SUBSET S, \A x \in s : s \ {x} \in Good PROVE s \in Good
  <2>1. CASE s = {}
    BY <2>1, HeldType
  <2>2. ASSUME NEW x \in s PROVE s \in Good
    <3> DEFINE t == s \ {x}
    <3>1. t \in Good /\ t \in SUBSET U /\ t \in SUBSET V /\ x \in U \ t /\ x \in V \ t
          /\ t \cup {x} = s /\ A[x] = B[x]
      BY <1>1, <2>2
    <3> HIDE DEF t
    <3>2. Held(A, t \cup {x}) = Plus(Held(A, t), A[x])
      BY <3>1, HeldAdd
    <3>3. Held(B, t \cup {x}) = Plus(Held(B, t), B[x])
      BY <3>1, HeldAdd
    <3> QED
      BY <3>1, <3>2, <3>3
  <2> QED
    BY <2>1, <2>2
<1>2. IsFiniteSet(S)
  BY FS_Subset
<1> HIDE DEF Good
<1>3. S \in Good
  BY <1>1, <1>2, SubsetInduction, S \in SUBSET S
<1> QED
  BY <1>3 DEF Good

\* More processes have no less.
LEMMA HeldGrows ==
    ASSUME NEW U, IsFiniteSet(U), NEW A \in [U -> Amount],
           \A p \in U, r \in Resource : A[p][r] >= 0,
           NEW T \in SUBSET U, NEW S \in SUBSET T
    PROVE  LessEq(Held(A, S), Held(A, T))
<1> DEFINE Good == {t \in SUBSET U : \A s \in SUBSET t : LessEq(Held(A, s), Held(A, t))}
<1>1. ASSUME NEW t \in SUBSET U, \A x \in t : t \ {x} \in Good PROVE t \in Good
  <2> SUFFICES ASSUME NEW s \in SUBSET t PROVE LessEq(Held(A, s), Held(A, t))
    OBVIOUS
  <2>0. Held(A, s) \in Amount /\ Held(A, t) \in Amount
    BY HeldType, s \in SUBSET U
  <2>1. CASE s = t
    BY <2>0, <2>1 DEF LessEq, Amount
  <2>2. CASE s # t
    <3>1. PICK x \in t : x \notin s
      BY <2>2
    <3>2. t \ {x} \in SUBSET U /\ x \in U \ (t \ {x}) /\ (t \ {x}) \cup {x} = t
          /\ s \in SUBSET (t \ {x})
      BY <3>1
    <3>3. LessEq(Held(A, s), Held(A, t \ {x}))
      BY <1>1, <3>1, <3>2
    <3>4. Held(A, t) = Plus(Held(A, t \ {x}), A[x])
      BY <3>2, HeldAdd
    <3>5. Held(A, t \ {x}) \in Amount /\ A[x] \in Amount /\ \A r \in Resource : A[x][r] >= 0
      BY <3>2, HeldType
    <3>6. ASSUME NEW r \in Resource PROVE Held(A, s)[r] <= Held(A, t)[r]
      <4>1. Held(A, s)[r] \in Int /\ Held(A, t \ {x})[r] \in Int /\ A[x][r] \in Int
            /\ A[x][r] >= 0
        BY <2>0, <3>5 DEF Amount
      <4>2. Held(A, t)[r] = Held(A, t \ {x})[r] + A[x][r]
        BY <3>4 DEF Plus
      <4>3. Held(A, s)[r] <= Held(A, t \ {x})[r]
        BY <3>3 DEF LessEq
      <4> QED
        BY <4>1, <4>2, <4>3
    <3> QED
      BY <3>6 DEF LessEq
  <2> QED
    BY <2>1, <2>2
<1> HIDE DEF Good
<1>2. T \in Good
  BY <1>1, SubsetInduction
<1> QED
  BY <1>2 DEF Good

\* One row of the set gets more.
LEMMA HeldUpdate ==
    ASSUME NEW U, IsFiniteSet(U), NEW A \in [U -> Amount], NEW B \in [U -> Amount],
           NEW v \in Amount, NEW S \in SUBSET U, NEW x \in S,
           B[x] = Plus(A[x], v), \A p \in S \ {x} : A[p] = B[p]
    PROVE  Held(B, S) = Plus(Held(A, S), v)
<1> DEFINE T == S \ {x}
<1>1. T \subseteq U /\ x \in U \ T /\ T \cup {x} = S /\ \A p \in T : A[p] = B[p]
  OBVIOUS
<1>2. T \in SUBSET U
  OBVIOUS
<1> HIDE DEF T
<1>3. Held(A, T) = Held(B, T)
  BY <1>1, <1>2, HeldSame
<1>4. Held(A, S) = Plus(Held(A, T), A[x])
  BY <1>1, <1>2, HeldAdd
<1>5. Held(B, S) = Plus(Held(B, T), B[x])
  BY <1>1, <1>2, HeldAdd
<1>6. Held(A, T) \in Amount /\ A[x] \in Amount
  BY <1>1, <1>2, HeldType
<1>7. Plus(Held(A, T), Plus(A[x], v)) = Plus(Plus(Held(A, T), A[x]), v)
  BY <1>6 DEF Plus, Amount
<1> QED
  BY <1>3, <1>4, <1>5, <1>7

-----------------------------------------------------------------------------
(* The inductive invariant.                                                *)

NonNegative(v) == \A r \in Resource : v[r] >= 0

\* The tables are those from before the request with the request taken out.
Pending ==
    /\ Available = Minus(before[1], Request)
    /\ Need = [before[2] EXCEPT ![id] = Minus(@, Request)]
    /\ Allocate = [before[3] EXCEPT ![id] = Plus(@, Request)]

\* A request is being handled.
Handling == pc = "return_back" \/ (pc # "menu" /\ caller = "request")

Types ==
    /\ progress_num \in Counts \cup {0} /\ id \in Row
    /\ Available \in Amount /\ Work \in Amount
    /\ Need \in Table /\ Allocate \in Table
    /\ MAX \in [Row -> Vector]
    /\ Request \in Vector /\ total \in Vector
    /\ Finish \in [Row -> BOOLEAN]
    /\ i \in 0 .. progress_num
    /\ flag \in BOOLEAN
    /\ pc \in {"menu", "is_safe", "scan", "return_back"}
    /\ caller \in {"request", "check"}
    /\ before \in Amount \X Table \X Table

Positive ==
    /\ NonNegative(before[1])
    /\ pc # "return_back" => NonNegative(Available)
    /\ \A p \in Row : NonNegative(Allocate[p]) /\ NonNegative(before[3][p])

Ledger == Types /\ Positive /\ (Handling => Pending)

\* The processes the scan has let finish.
Finished == {p \in Process : Finish[p]}

\* A set of processes that the scan has taken one from is not stuck.
Scanned ==
    pc = "scan" =>
        /\ Work = Plus(Available, Held(Allocate, Finished))
        /\ \A S \in SUBSET Process : S \cap Finished # {} =>
              \E p \in S : LessEq(Need[p], Plus(Available, Held(Allocate, Process \ S)))

\* The processes are rows.
LEMMA ProcessRows ==
    ASSUME progress_num \in Counts \cup {0}
    PROVE  progress_num \in Row /\ Process \in SUBSET Row /\ progress_num \in Nat
           /\ 0 .. progress_num \in SUBSET Row
BY RowFinite DEF Row, Process

\* Vectors and amounts.
LEMMA Amounts ==
    /\ Vector \subseteq Amount /\ Zero \in Vector
    /\ \A v \in Vector : NonNegative(v)
    /\ \A u, v \in Amount : Plus(u, v) \in Amount /\ Minus(u, v) \in Amount
    /\ \A u, v \in Amount : Plus(Minus(u, v), v) = u /\ Minus(Plus(u, v), v) = u
<1>1. Units \in Nat
  BY BankerAssumption
<1> QED
  BY <1>1 DEF Vector, Amount, Zero, NonNegative, Plus, Minus

\* init_system() leaves tables of the right shape and nothing overdrawn.
LEMMA InitSystemLedger ==
    ASSUME Ledger, pc = "menu", NEW n \in Counts, NEW all \in Vector,
           NEW max \in Claims(n, all), NEW alloc \in Table,
           \A p \in Row : NonNegative(alloc[p]),
           LessEq(Held(alloc, 0 .. n - 1), all),
           InitSystem(n, all, max, alloc)
    PROVE  Ledger'
<1> DEFINE P == 0 .. n - 1
<1>1. n \in Nat \ {0} /\ P \in SUBSET Row
  BY RowFinite DEF Row
<1>2. max \in [P -> Vector]
  BY DEF Claims
<1>3. Held(alloc, P) \in Amount
  BY <1>1, RowFinite, HeldType DEF Table
<1> HIDE DEF P
<1>4. Available' = Minus(all, Held(alloc, P)) /\ LessEq(Held(alloc, P), all)
  BY DEF InitSystem, P
<1>5. Available' \in Amount
  BY <1>3, <1>4, Amounts
<1>6. NonNegative(Available')
  <2> SUFFICES ASSUME NEW r \in Resource PROVE Available'[r] >= 0
    BY DEF NonNegative
  <2>1. Available'[r] = all[r] - Held(alloc, P)[r] /\ Held(alloc, P)[r] <= all[r]
    BY <1>4 DEF Minus, LessEq
  <2>2. all[r] \in Int /\ Held(alloc, P)[r] \in Int
    BY <1>3, Amounts DEF Amount
  <2> QED
    BY <2>1, <2>2
<1>7. MAX' \in [Row -> Vector]
  <2>1. \A p \in Row : p < n => p \in P
    BY <1>1, RowFinite DEF Row, P
  <2> QED
    BY <1>2, <2>1 DEF InitSystem, Entered, Ledger, Types
<1>8. Need' \in Table
  <2>0. \A p \in Row : p < n => p \in P
    BY <1>1, RowFinite DEF Row, P
  <2>1. \A p \in Row : p < n => p \in P /\ Minus(max[p], alloc[p]) \in Amount
    BY <1>1, <1>2, <2>0, Amounts DEF Table
  <2> QED
    BY <2>1 DEF InitSystem, Entered, Ledger, Types, Table, P
<1>9. Allocate' = alloc /\ progress_num' = n /\ i' = 0 /\ total' = all
      /\ Request' = Zero /\ Work' = Zero /\ Finish' = [p \in Row |-> FALSE]
      /\ id' = id /\ flag' = flag /\ pc' = pc /\ caller' = caller /\ before' = before
  BY DEF InitSystem
<1>10. 0 \in 0 .. n
  BY <1>1
<1>11. Types'
  BY <1>5, <1>7, <1>8, <1>9, <1>10, Amounts DEF Ledger, Types
<1>12. Positive'
  BY <1>6, <1>9 DEF Ledger, Positive, NonNegative
<1>13. Handling' => Pending'
  BY <1>9 DEF Handling
<1> QED
  BY <1>11, <1>12, <1>13 DEF Ledger

\* Choosing init_system() from the menu.
LEMMA InitChoiceLedger ==
    ASSUME Ledger, NEW n \in Counts, NEW all \in Vector, NEW max \in Claims(n, all),
           InitChoice(n, all, max)
    PROVE  Ledger'
<1> DEFINE P == 0 .. n - 1
<1>0. n \in Nat \ {0} /\ P \in SUBSET Row
  BY RowFinite DEF Row
<1>1. n \in Nat \ {0} /\ P \in SUBSET Row /\ IsFiniteSet(P)
  BY <1>0, RowFinite, FS_Subset
<1>2. pc = "menu"
  BY DEF InitChoice
<1>3. CASE InitSystem(n, all, max, [p \in Row |-> Zero])
  <2> DEFINE A == [p \in Row |-> Zero]
  <2>1. A \in Table /\ \A p \in Row : NonNegative(A[p])
    BY Amounts DEF Table
  <2>2. Held(A, P) = Zero
    <3> DEFINE Good == {S \in SUBSET Row : Held(A, S) = Zero}
    <3> HIDE DEF A
    <3>1. ASSUME NEW S \in SUBSET Row, \A x \in S : S \ {x} \in Good PROVE S \in Good
      <4>1. CASE S = {}
        BY <2>1, <4>1, RowFinite, HeldType DEF Table
      <4>2. ASSUME NEW x \in S PROVE S \in Good
        <5>1. S \ {x} \in SUBSET Row /\ x \in Row \ (S \ {x}) /\ (S \ {x}) \cup {x} = S
          BY <4>2
        <5>2. Held(A, S) = Plus(Held(A, S \ {x}), A[x])
          BY <2>1, <5>1, RowFinite, HeldAdd DEF Table
        <5>3. Held(A, S \ {x}) = Zero /\ A[x] = Zero
          BY <3>1, <4>2 DEF A
        <5>4. Plus(Zero, Zero) = Zero
          BY DEF Plus, Zero
        <5> QED
          BY <5>2, <5>3, <5>4
      <4> QED
        BY <4>1, <4>2
    <3> HIDE DEF Good
    <3>2. P \in Good
      <4> HIDE DEF P
      <4>1. IsFiniteSet(Row)
        BY RowFinite
      <4> QED
        BY <1>1, <3>1, <4>1, SubsetInduction
    <3> QED
      BY <3>2 DEF Good
  <2>3. LessEq(Zero, all)
    BY Amounts DEF LessEq, Zero, NonNegative
  <2> HIDE DEF A, P
  <2>4. LessEq(Held(A, P), all)
    BY <2>2, <2>3
  <2> QED
    BY <1>2, <1>3, <2>1, <2>4, InitSystemLedger DEF A, P
<1>4. ASSUME NEW a \in Grants(n, all, max), InitSystem(n, all, max, Entered(n, Allocate, a))
      PROVE  Ledger'
  <2> DEFINE A == Entered(n, Allocate, a)
  <2>1. a \in [P -> Vector] /\ LessEq(Held(a, P), all)
    BY DEF Grants
  <2>2. Allocate \in Table /\ \A p \in Row : NonNegative(Allocate[p])
    BY DEF Ledger, Types, Positive
  <2>3. \A p \in Row : p < n <=> p \in P
    BY <1>1, RowFinite DEF Row
  <2>4. A \in Table /\ (\A p \in Row : NonNegative(A[p])) /\ \A p \in P : a[p] = A[p]
    BY <1>1, <2>1, <2>2, <2>3, Amounts DEF Entered, Table
  <2> HIDE DEF A, P
  <2>5. Held(a, P) = Held(A, P)
    <3>1. a \in [P -> Amount] /\ A \in [Row -> Amount] /\ IsFiniteSet(Row)
      BY <2>1, <2>4, RowFinite, Amounts DEF Table
    <3> QED
      BY <1>1, <2>4, <3>1, HeldSame
  <2>6. LessEq(Held(A, P), all)
    BY <2>1, <2>5
  <2> QED
    BY <1>2, <1>4, <2>4, <2>6, InitSystemLedger DEF A, P
<1> QED
  BY <1>3, <1>4 DEF InitChoice

\* try_allocate() takes a request out, and what fits leaves nothing overdrawn.
LEMMA TryAllocateLedger ==
    ASSUME Ledger, NEW p \in Row, NEW req \in Vector, TryAllocate(p, req)
    PROVE  Ledger'
<1>1. /\ Available \in Amount /\ Need \in Table /\ Allocate \in Table
      /\ NonNegative(Available) /\ \A q \in Row : NonNegative(Allocate[q])
  BY DEF Ledger, Types, Positive, TryAllocate
<1>2. /\ Available' = Minus(Available, req)
      /\ Allocate' = [Allocate EXCEPT ![p] = Plus(@, req)]
      /\ Need' = [Need EXCEPT ![p] = Minus(@, req)]
      /\ before' = <<Available, Need, Allocate>>
      /\ id' = p /\ Request' = req /\ caller' = "request"
  BY DEF TryAllocate, tables
<1>3. /\ progress_num' = progress_num /\ MAX' = MAX /\ total' = total /\ Work' = Work
      /\ Finish' = Finish /\ i' = i /\ flag' = flag
      /\ pc' \in {"is_safe", "return_back"}
  BY DEF TryAllocate, system, scan
<1>4. Types'
  <2>1. Available' \in Amount /\ Allocate' \in Table /\ Need' \in Table
    BY <1>1, <1>2, Amounts DEF Table
  <2>2. before' \in Amount \X Table \X Table
    BY <1>1, <1>2
  <2> QED
    BY <1>2, <1>3, <2>1, <2>2 DEF Ledger, Types
<1>5. Positive'
  <2>1. before'[1] = Available /\ before'[3] = Allocate
    BY <1>2
  <2>2. pc' # "return_back" => NonNegative(Available')
    <3> SUFFICES ASSUME pc' # "return_back", NEW r \in Resource PROVE Available'[r] >= 0
      BY DEF NonNegative
    <3>1. LessEq(req, Available)
      BY DEF TryAllocate, Fits
    <3>2. req[r] \in Int /\ Available[r] \in Int /\ req[r] <= Available[r]
      BY <1>1, <3>1, Amounts DEF Amount, LessEq
    <3> QED
      BY <1>2, <3>2 DEF Minus
  <2>3. ASSUME NEW q \in Row PROVE NonNegative(Allocate'[q])
    <3>1. CASE q # p
      BY <1>1, <1>2, <3>1 DEF Table
    <3>2. CASE q = p
      <4>1. Allocate'[q] = Plus(Allocate[p], req) /\ Allocate[p] \in Amount /\ req \in Amount
            /\ NonNegative(Allocate[p]) /\ NonNegative(req)
        BY <1>1, <1>2, <3>2, Amounts DEF Table
      <4> QED
        BY <4>1 DEF NonNegative, Plus, Amount
    <3> QED
      BY <3>1, <3>2
  <2> QED
    BY <1>1, <2>1, <2>2, <2>3 DEF Positive
<1>6. Pending'
  <2>1. before'[1] = Available /\ before'[2] = Need /\ before'[3] = Allocate
    BY <1>2
  <2> QED
    BY <1>2, <2>1 DEF Pending
<1> QED
  BY <1>4, <1>5, <1>6 DEF Ledger

\* return_back() restores what was before the request.
LEMMA ReturnRestores ==
    ASSUME Types, Pending, ReturnBack
    PROVE  tables' = before
<1>1. PICK a \in Amount, n \in Table, l \in Table : before = <<a, n, l>>
  BY DEF Types
<1>2. Request \in Amount /\ id \in Row
  BY Amounts DEF Types
<1>3. /\ Available = Minus(a, Request)
      /\ Need = [n EXCEPT ![id] = Minus(@, Request)]
      /\ Allocate = [l EXCEPT ![id] = Plus(@, Request)]
  BY <1>1 DEF Pending
<1>4. Available' = a
  BY <1>2, <1>3, Amounts DEF ReturnBack
<1>5. Need' = n
  <2>1. Need' = [n EXCEPT ![id] = Plus(Minus(n[id], Request), Request)] /\ n[id] \in Amount
    BY <1>2, <1>3 DEF ReturnBack, Table
  <2>2. Plus(Minus(n[id], Request), Request) = n[id]
    BY <1>2, <2>1, Amounts
  <2> QED
    BY <2>1, <2>2 DEF Table
<1>6. Allocate' = l
  <2>1. Allocate' = [l EXCEPT ![id] = Minus(Plus(l[id], Request), Request)] /\ l[id] \in Amount
    BY <1>2, <1>3 DEF ReturnBack, Table
  <2>2. Minus(Plus(l[id], Request), Request) = l[id]
    BY <1>2, <2>1, Amounts
  <2> QED
    BY <2>1, <2>2 DEF Table
<1> QED
  BY <1>1, <1>4, <1>5, <1>6 DEF tables

\* return_back() leaves the tables as they were.
LEMMA ReturnBackLedger ==
    ASSUME Ledger, ReturnBack
    PROVE  Ledger'
<1>1. tables' = before
  BY ReturnRestores DEF Ledger, Handling, ReturnBack
<1>2. PICK a \in Amount, n \in Table, l \in Table : before = <<a, n, l>>
  BY DEF Ledger, Types
<1>3. Available' = a /\ Need' = n /\ Allocate' = l
  BY <1>1, <1>2 DEF tables
<1>4. /\ progress_num' = progress_num /\ MAX' = MAX /\ total' = total /\ Work' = Work
      /\ Finish' = [p \in Row |-> FALSE] /\ i' = i /\ flag' = flag /\ pc' = "menu"
      /\ Request' = Request /\ id' = id /\ caller' = caller /\ before' = before
  BY DEF ReturnBack, system
<1>5. Types'
  BY <1>3, <1>4 DEF Ledger, Types
<1>6. Positive'
  BY <1>2, <1>3, <1>4 DEF Ledger, Positive
<1> QED
  BY <1>4, <1>5, <1>6 DEF Ledger, Handling

\* is_safe() and the menu leave the tables alone.
LEMMA ScanLedger ==
    ASSUME Ledger, CheckChoice \/ SafeStart \/ ScanFinish \/ ScanSkip \/ Verdict
    PROVE  Ledger'
<1>1. /\ progress_num' = progress_num /\ MAX' = MAX /\ total' = total
      /\ Available' = Available /\ Need' = Need /\ Allocate' = Allocate
      /\ Request' = Request /\ id' = id /\ before' = before
  BY DEF CheckChoice, SafeStart, ScanFinish, ScanSkip, Verdict, system, tables
<1>2. progress_num \in Nat /\ Process \in SUBSET Row
  BY ProcessRows DEF Ledger, Types
<1>3. i' \in 0 .. progress_num
  <2>1. i \in 0 .. progress_num
    BY DEF Ledger, Types
  <2>2. \/ i' = i \/ i' = 0
        \/ i < progress_num /\ i' = i + 1
    BY DEF CheckChoice, SafeStart, ScanFinish, ScanSkip, Verdict, scan
  <2> QED
    BY <1>2, <2>1, <2>2
<1>4. Work' \in Amount /\ Finish' \in [Row -> BOOLEAN]
  <2>1. CASE CheckChoice \/ ScanSkip \/ Verdict
    BY <2>1 DEF CheckChoice, ScanSkip, Verdict, scan, Ledger, Types
  <2>2. CASE SafeStart
    BY <2>2 DEF SafeStart, Ledger, Types
  <2>3. CASE ScanFinish
    <3>1. i \in Row
      BY <1>2, <2>3 DEF ScanFinish, Process, Ledger, Types
    <3>2. Allocate[i] \in Amount /\ Work \in Amount
      BY <3>1 DEF Ledger, Types, Table
    <3>3. Work' \in Amount
      BY <2>3, <3>2, Amounts DEF ScanFinish
    <3>4. Finish' \in [Row -> BOOLEAN]
      BY <2>3, <3>1 DEF ScanFinish, Ledger, Types
    <3> QED
      BY <3>3, <3>4
  <2> QED
    BY <2>1, <2>2, <2>3
<1>5. /\ flag' \in BOOLEAN /\ pc' \in {"menu", "is_safe", "scan", "return_back"}
      /\ caller' \in {"request", "check"}
      /\ Handling' => Handling
      /\ pc # "return_back"
  BY DEF CheckChoice, SafeStart, ScanFinish, ScanSkip, Verdict, Handling, Ledger, Types
<1>6. Types'
  BY <1>1, <1>3, <1>4, <1>5 DEF Ledger, Types
<1>7. Positive'
  BY <1>1, <1>5 DEF Ledger, Positive
<1>8. Pending => Pending'
  BY <1>1 DEF Pending
<1> QED
  BY <1>5, <1>6, <1>7, <1>8 DEF Ledger

\* The invariant holds at the start and every step keeps it.
LEMMA LedgerInductive ==
    /\ Init => Ledger
    /\ Ledger /\ [Next]_vars => Ledger'
<1>1. ASSUME Init PROVE Ledger
  <2>1. Zero \in Vector /\ Zero \in Amount /\ NonNegative(Zero) /\ 0 \in Row
    BY Amounts, RowFinite DEF Row
  <2>2. /\ Available = Zero /\ Work = Zero /\ Request = Zero /\ total = Zero
        /\ MAX = [p \in Row |-> Zero] /\ Need = [p \in Row |-> Zero]
        /\ Allocate = [p \in Row |-> Zero]
        /\ before = <<Available, Need, Allocate>>
        /\ pc = "menu"
    BY <1>1 DEF Init, tables
  <2>3. Need \in Table /\ Allocate \in Table /\ MAX \in [Row -> Vector]
    BY <2>1, <2>2 DEF Table
  <2>4. before \in Amount \X Table \X Table /\ before[1] = Available /\ before[3] = Allocate
    BY <2>1, <2>2, <2>3
  <2>5. Types
    <3>1. Finish \in [Row -> BOOLEAN] /\ i = 0 /\ progress_num = 0 /\ id = 0
          /\ flag \in BOOLEAN /\ caller = "check"
      BY <1>1 DEF Init
    <3> QED
      BY <2>1, <2>2, <2>3, <2>4, <3>1 DEF Types
  <2>6. Positive
    BY <2>1, <2>2, <2>4 DEF Positive
  <2> QED
    BY <2>2, <2>5, <2>6 DEF Ledger, Handling
<1>2. ASSUME Ledger, UNCHANGED vars PROVE Ledger'
  BY <1>2 DEF vars, system, tables, scan, Ledger, Types, Positive, Handling, Pending
<1>3. ASSUME Ledger, Next PROVE Ledger'
  BY <1>3, InitChoiceLedger, TryAllocateLedger, ReturnBackLedger, ScanLedger
     DEF Next, User, Program
<1> QED
  BY <1>1, <1>2, <1>3

-----------------------------------------------------------------------------
(* Theorems.                                                               *)

\* The tables keep their shape and nothing is overdrawn between two requests,
\* whatever the user asks for and however often the system is initialised.
THEOREM BankerTypes == Spec => []TypeOK
<1>1. Ledger => TypeOK
  <2> SUFFICES ASSUME Ledger PROVE TypeOK
    OBVIOUS
  <2>1. progress_num \in Nat
    BY ProcessRows DEF Ledger, Types
  <2>2. pc = "menu" => \A r \in Resource : Available[r] >= 0
    BY DEF Ledger, Positive, NonNegative
  <2> QED
    BY <2>1, <2>2 DEF Ledger, Types, TypeOK, Amount, Table
<1> QED
  BY <1>1, LedgerInductive, PTL DEF Spec

\* RefusedIsUndone: return_back() restores the three tables exactly, whether
\* try_allocate() or is_safe() refused the request.
THEOREM BankerRefusedIsUndone == Spec => RefusedIsUndone
<1>1. ASSUME Ledger, [Next]_vars PROVE [pc = "return_back" => tables' = before]_vars
  <2> SUFFICES ASSUME Next, pc = "return_back" PROVE tables' = before
    BY <1>1
  <2>1. ReturnBack
    BY DEF Next, User, Program, InitChoice, TryAllocate, CheckChoice, SafeStart, ScanFinish,
           ScanSkip, Verdict
  <2> QED
    BY <1>1, <2>1, ReturnRestores DEF Ledger, Handling
<1> QED
  BY <1>1, LedgerInductive, PTL DEF Spec, RefusedIsUndone

\* Process i joins the finished ones: a set it belongs to, and no process that
\* finished before, leaves it at least what it found in Work.
LEMMA ScanFinishScanned ==
    ASSUME Ledger, Scanned, ScanFinish
    PROVE  Scanned'
<1>1. /\ Available' = Available /\ Need' = Need /\ Allocate' = Allocate
      /\ Process' = Process /\ pc = "scan"
      /\ Work' = Plus(Work, Allocate[i]) /\ Finish' = [Finish EXCEPT ![i] = TRUE]
  BY DEF ScanFinish, system, tables, Process
<1>2. /\ Available \in Amount /\ Allocate \in [Row -> Amount] /\ Finish \in [Row -> BOOLEAN]
      /\ Process \in SUBSET Row /\ i \in Process /\ ~Finish[i]
      /\ LessEq(Need[i], Work) /\ Need[i] \in Amount
      /\ \A p \in Row, r \in Resource : Allocate[p][r] >= 0
  <2>1. Process \in SUBSET Row /\ progress_num \in Nat
    BY ProcessRows DEF Ledger, Types
  <2>2. i \in Process
    BY <2>1 DEF ScanFinish, Process, Ledger, Types
  <2> QED
    BY <2>1, <2>2 DEF ScanFinish, CanFinish, Ledger, Types, Table, Positive, NonNegative
<1>3. IsFiniteSet(Row)
  BY RowFinite
<1>4. Finished \in SUBSET Process /\ Finished' = Finished \cup {i} /\ i \in Row \ Finished
      /\ Finished \in SUBSET Row
  BY <1>1, <1>2 DEF Finished
<1>5. Work = Plus(Available, Held(Allocate, Finished))
  BY <1>1 DEF Scanned
<1>6. Work' = Plus(Available', Held(Allocate', Finished'))
  <2>1. Held(Allocate, Finished \cup {i}) = Plus(Held(Allocate, Finished), Allocate[i])
    BY <1>2, <1>3, <1>4, HeldAdd
  <2>2. Held(Allocate, Finished) \in Amount /\ Allocate[i] \in Amount
    BY <1>2, <1>3, <1>4, HeldType
  <2>3. Plus(Plus(Available, Held(Allocate, Finished)), Allocate[i])
           = Plus(Available, Plus(Held(Allocate, Finished), Allocate[i]))
    BY <1>2, <2>2 DEF Plus, Amount
  <2> QED
    BY <1>1, <1>4, <1>5, <2>1, <2>3
<1>7. ASSUME NEW S \in SUBSET Process, S \cap (Finished \cup {i}) # {}
      PROVE  \E p \in S : LessEq(Need[p], Plus(Available, Held(Allocate, Process \ S)))
  <2>1. CASE S \cap Finished # {}
    BY <1>1, <2>1 DEF Scanned
  <2>2. CASE S \cap Finished = {}
    <3>1. i \in S /\ Process \ S \in SUBSET Row /\ Finished \in SUBSET (Process \ S)
      BY <1>2, <1>4, <1>7, <2>2
    <3>2. LessEq(Held(Allocate, Finished), Held(Allocate, Process \ S))
      BY <1>2, <1>3, <3>1, HeldGrows
    <3>3. Held(Allocate, Finished) \in Amount /\ Held(Allocate, Process \ S) \in Amount
      BY <1>2, <1>3, <1>4, <3>1, HeldType
    <3>4. ASSUME NEW r \in Resource
          PROVE  Need[i][r] <= Plus(Available, Held(Allocate, Process \ S))[r]
      <4>1. Need[i][r] <= Available[r] + Held(Allocate, Finished)[r]
        BY <1>2, <1>5 DEF LessEq, Plus
      <4>2. Held(Allocate, Finished)[r] <= Held(Allocate, Process \ S)[r]
        BY <3>2 DEF LessEq
      <4>3. /\ Need[i][r] \in Int /\ Available[r] \in Int
            /\ Held(Allocate, Finished)[r] \in Int /\ Held(Allocate, Process \ S)[r] \in Int
        BY <1>2, <3>3 DEF Amount
      <4>4. Need[i][r] <= Available[r] + Held(Allocate, Process \ S)[r]
        BY <4>1, <4>2, <4>3
      <4> QED
        BY <4>4 DEF Plus
    <3> QED
      BY <3>1, <3>4 DEF LessEq
  <2> QED
    BY <2>1, <2>2
<1>8. ASSUME NEW S \in SUBSET Process', S \cap Finished' # {}
      PROVE  \E p \in S : LessEq(Need'[p], Plus(Available', Held(Allocate', Process' \ S)))
  BY <1>1, <1>4, <1>7, <1>8
<1> QED
  BY <1>6, <1>8 DEF Scanned

\* Every step keeps what the scan has found out.
LEMMA ScannedInductive ==
    /\ Init => Scanned
    /\ Ledger /\ Scanned /\ [Next]_vars => Scanned'
<1>1. Init => Scanned
  BY DEF Init, Scanned
<1>2. ASSUME Ledger, Scanned, SafeStart PROVE Scanned'
  <2>1. /\ Available' = Available /\ Need' = Need /\ Allocate' = Allocate
        /\ Process' = Process /\ Work' = Available
        /\ Finish' = [p \in Row |-> IF p \in Process THEN FALSE ELSE Finish[p]]
    BY <1>2 DEF SafeStart, system, tables, Process
  <2>2. Process \in SUBSET Row
    BY <1>2, ProcessRows DEF Ledger, Types
  <2>3. Finished' = {}
    BY <2>1, <2>2 DEF Finished
  <2>4. Available \in Amount /\ Held(Allocate, {}) = Zero
    BY <1>2, RowFinite, HeldType DEF Ledger, Types, Table
  <2>5. Work' = Plus(Available', Held(Allocate', Finished'))
    <3>1. Plus(Available, Zero) = Available
      BY <2>4 DEF Plus, Zero, Amount
    <3> QED
      BY <2>1, <2>3, <2>4, <3>1
  <2> QED
    BY <2>3, <2>5 DEF Scanned
<1>3. ASSUME Scanned, ScanSkip \/ UNCHANGED vars PROVE Scanned'
  <2>1. /\ Available' = Available /\ Need' = Need /\ Allocate' = Allocate
        /\ Process' = Process /\ Work' = Work /\ Finish' = Finish /\ pc' = pc
        /\ Finished' = Finished
    BY <1>3 DEF ScanSkip, system, tables, scan, vars, Process, Finished
  <2> QED
    BY <1>3, <2>1 DEF Scanned
<1>4. ASSUME Next, ~SafeStart, ~ScanFinish, ~ScanSkip PROVE Scanned'
  <2>1. pc' # "scan"
    BY <1>4 DEF Next, User, Program, InitChoice, InitSystem, TryAllocate, CheckChoice,
                Verdict, ReturnBack
  <2> QED
    BY <2>1 DEF Scanned
<1> QED
  BY <1>1, <1>2, <1>3, <1>4, ScanFinishScanned

\* SoundVerdict: when is_safe() answers yes, no set of processes can get stuck,
\* for any number of processes and resources.
THEOREM BankerSoundVerdict == Spec => SoundVerdict
<1>1. ASSUME Ledger, Scanned, [Next]_vars
      PROVE  [pc = "scan" /\ pc' = "menu" /\ flag' => Safe]_vars
  <2> SUFFICES ASSUME Next, pc = "scan", pc' = "menu", flag' PROVE Safe
    BY <1>1
  <2>1. Verdict
    BY DEF Next, User, Program, InitChoice, TryAllocate, CheckChoice, SafeStart, ScanFinish,
           ScanSkip, ReturnBack
  <2>2. Finished = Process
    BY <2>1 DEF Verdict, Finished
  <2> QED
    BY <1>1, <2>2 DEF Scanned, Safe
<1> QED
  BY <1>1, LedgerInductive, ScannedInductive, PTL DEF Spec, SoundVerdict

-----------------------------------------------------------------------------
(* Conservation, in a program whose system is initialised once.  A second   *)
(* initialisation with fewer processes leaves a claim in the first row past *)
(* the processes, which the input loop of try_allocate() lets through.      *)

\* The amounts add up, and a row past the processes claims nothing.
Balanced(available, need, allocate) ==
    /\ Plus(available, Held(allocate, Process)) = total
    /\ \A p \in Row : p >= progress_num => need[p] = Zero

\* The current tables balance, or those that return_back() will restore.
Books ==
    /\ pc # "return_back" => Balanced(Available, Need, Allocate)
    /\ Handling => Balanced(before[1], before[2], before[3])

\* After init_system() the books balance.
LEMMA InitChoiceBooks ==
    ASSUME ~Again, Ledger, Books, NEW n \in Counts, NEW all \in Vector,
           NEW max \in Claims(n, all), InitChoice(n, all, max)
    PROVE  Books'
<1>1. PICK alloc : InitSystem(n, all, max, alloc)
  BY DEF InitChoice
<1>2. pc = "menu" /\ progress_num = 0
  BY DEF InitChoice
<1>3. /\ progress_num' = n /\ total' = all /\ Allocate' = alloc /\ pc' = pc
      /\ Available' = Minus(all, Held(alloc, 0 .. n - 1))
      /\ Need' = Entered(n, Need, [p \in 0 .. n - 1 |-> Minus(max[p], alloc[p])])
  BY <1>1 DEF InitSystem
<1>4. Process' = 0 .. n - 1 /\ Process' \in SUBSET Row /\ n \in Nat
  BY <1>3, RowFinite DEF Process, Row
<1>5. Ledger'
  BY InitChoiceLedger
<1>6. Held(Allocate', Process') \in Amount
  BY <1>4, <1>5, RowFinite, HeldType DEF Ledger, Types, Table
<1>7. Plus(Available', Held(Allocate', Process')) = total'
  <2>1. Plus(Minus(all, Held(Allocate', Process')), Held(Allocate', Process')) = all
    BY <1>6, Amounts
  <2> QED
    BY <1>3, <1>4, <2>1
<1>8. ASSUME NEW p \in Row, p >= n PROVE Need'[p] = Zero
  <2>1. p \in Nat /\ p >= 0 /\ ~(p < n)
    BY <1>4, <1>8, RowFinite DEF Row
  <2>2. Need[p] = Zero
    BY <1>2, <2>1 DEF Books, Balanced
  <2> QED
    BY <1>3, <2>1, <2>2 DEF Entered
<1>9. Balanced(Available, Need, Allocate)'
  BY <1>3, <1>7, <1>8 DEF Balanced
<1> QED
  BY <1>2, <1>3, <1>9 DEF Books, Handling

\* A request that fits moves resources from the system to a process; for the row
\* past the processes only the empty request fits.
LEMMA TryAllocateBooks ==
    ASSUME Ledger, Books, NEW p \in Row, NEW req \in Vector, TryAllocate(p, req)
    PROVE  Books'
<1>1. /\ Available \in Amount /\ Need \in Table /\ Allocate \in Table /\ req \in Amount
      /\ pc = "menu" /\ p \in 0 .. progress_num
      /\ progress_num \in Nat /\ Process \in SUBSET Row
  BY ProcessRows, Amounts DEF Ledger, Types, TryAllocate
<1>2. Balanced(Available, Need, Allocate)
  BY <1>1 DEF Books
<1>3. /\ Available' = Minus(Available, req)
      /\ Allocate' = [Allocate EXCEPT ![p] = Plus(@, req)]
      /\ Need' = [Need EXCEPT ![p] = Minus(@, req)]
      /\ before' = <<Available, Need, Allocate>>
      /\ progress_num' = progress_num /\ total' = total /\ Process' = Process
      /\ pc' # "return_back" => LessEq(req, Need[p])
  BY DEF TryAllocate, tables, system, Process, Fits
<1>4. Balanced(before[1], before[2], before[3])'
  <2>1. before'[1] = Available /\ before'[2] = Need /\ before'[3] = Allocate
    BY <1>3
  <2> QED
    BY <1>2, <1>3, <2>1 DEF Balanced
<1>5. ASSUME pc' # "return_back" PROVE Balanced(Available, Need, Allocate)'
  <2>1. CASE p \in Process
    <3>1. Held(Allocate', Process) = Plus(Held(Allocate, Process), req)
      <4>1. IsFiniteSet(Row) /\ Allocate \in [Row -> Amount]
        BY <1>1, RowFinite DEF Table
      <4>2. PICK B : B = Allocate'
        OBVIOUS
      <4>3. /\ B \in [Row -> Amount] /\ B[p] = Plus(Allocate[p], req)
            /\ \A q \in Process \ {p} : Allocate[q] = B[q]
        <5>1. p \in Row /\ Plus(Allocate[p], req) \in Amount
          BY <1>1, <4>1, Amounts
        <5>2. B = [Allocate EXCEPT ![p] = Plus(Allocate[p], req)]
          BY <1>3, <4>2
        <5> QED
          BY <1>1, <4>1, <5>1, <5>2
      <4>4. Held(B, Process) = Plus(Held(Allocate, Process), req)
        <5>1. Process \in SUBSET Row /\ p \in Process /\ req \in Amount
          BY <1>1, <2>1
        <5> QED
          BY <2>1, <4>1, <4>3, <5>1, HeldUpdate
      <4> QED
        BY <4>2, <4>4
    <3>2. Held(Allocate, Process) \in Amount
      BY <1>1, RowFinite, HeldType DEF Table
    <3>3. Plus(Minus(Available, req), Plus(Held(Allocate, Process), req))
             = Plus(Available, Held(Allocate, Process))
      BY <1>1, <3>2 DEF Plus, Minus, Amount
    <3>4. Plus(Available', Held(Allocate', Process')) = total'
      BY <1>2, <1>3, <3>1, <3>3 DEF Balanced
    <3>5. ASSUME NEW q \in Row, q >= progress_num PROVE Need'[q] = Zero
      <4>1. q # p
        BY <1>1, <2>1, <3>5 DEF Process
      <4>2. Need'[q] = Need[q]
        BY <1>1, <1>3, <4>1 DEF Table
      <4> QED
        BY <1>2, <3>5, <4>2 DEF Balanced
    <3> QED
      BY <1>3, <3>4, <3>5 DEF Balanced
  <2>2. CASE p \notin Process
    <3>1. p >= progress_num
      BY <1>1, <2>2 DEF Process
    <3>2. Need[p] = Zero /\ LessEq(req, Zero)
      BY <1>2, <1>3, <1>5, <3>1 DEF Balanced
    <3>3. req = Zero
      <4>1. ASSUME NEW r \in Resource PROVE req[r] = 0
        <5>1. req[r] \in Int /\ req[r] >= 0 /\ req[r] <= 0
          BY <1>1, <3>2, Amounts DEF Amount, NonNegative, LessEq, Zero
        <5> QED
          BY <5>1
      <4> QED
        BY <1>1, <4>1 DEF Amount, Zero
    <3>4. Available' = Available /\ Need' = Need
      <4>1. Minus(Available, Zero) = Available /\ Minus(Zero, Zero) = Zero
        BY <1>1 DEF Minus, Zero, Amount
      <4> QED
        BY <1>1, <1>3, <3>2, <3>3, <4>1 DEF Table
    <3>5. Held(Allocate', Process) = Held(Allocate, Process)
      <4>1. Allocate' \in [Row -> Amount] /\ \A q \in Process : Allocate'[q] = Allocate[q]
        BY <1>1, <1>3, <2>2, Amounts DEF Table
      <4> QED
        <5>1. IsFiniteSet(Row) /\ Allocate \in [Row -> Amount]
          BY <1>1, RowFinite DEF Table
        <5>2. PICK B : B = Allocate'
          OBVIOUS
        <5>3. Process \subseteq Row /\ B \in [Row -> Amount]
              /\ \A q \in Process : B[q] = Allocate[q]
          BY <1>1, <4>1, <5>2
        <5>4. Held(B, Process) = Held(Allocate, Process)
          BY <5>1, <5>3, HeldSame
        <5> QED
          BY <5>2, <5>4
    <3> QED
      BY <1>2, <1>3, <3>4, <3>5 DEF Balanced
  <2> QED
    BY <2>1, <2>2
<1> QED
  BY <1>4, <1>5 DEF Books

\* The books balance at the start and every step keeps them.
LEMMA BooksInductive ==
    ASSUME ~Again
    PROVE  /\ Init => Books
           /\ Ledger /\ Books /\ [Next]_vars => Books'
<1>1. ASSUME Init PROVE Books
  <2>1. /\ Available = Zero /\ total = Zero /\ Need = [p \in Row |-> Zero]
        /\ Allocate = [p \in Row |-> Zero] /\ pc = "menu" /\ progress_num = 0
    BY <1>1 DEF Init
  <2>2. Process = {} /\ Allocate \in [Row -> Amount]
    BY <2>1, Amounts DEF Process
  <2>3. Held(Allocate, Process) = Zero
    BY <2>2, RowFinite, HeldType
  <2>4. Plus(Zero, Zero) = Zero
    BY DEF Plus, Zero
  <2> QED
    BY <2>1, <2>3, <2>4 DEF Books, Balanced, Handling
<1>2. ASSUME Ledger, Books,
             CheckChoice \/ SafeStart \/ ScanFinish \/ ScanSkip \/ Verdict \/ UNCHANGED vars
      PROVE  Books'
  <2>1. /\ Available' = Available /\ Need' = Need /\ Allocate' = Allocate
        /\ progress_num' = progress_num /\ total' = total /\ before' = before
        /\ Process' = Process
    BY <1>2 DEF CheckChoice, SafeStart, ScanFinish, ScanSkip, Verdict, vars, system, tables,
                Process
  <2>2. (Handling' => Handling) /\ (pc = "return_back" => pc' = "return_back")
    BY <1>2 DEF CheckChoice, SafeStart, ScanFinish, ScanSkip, Verdict, vars, Handling
  <2> QED
    BY <1>2, <2>1, <2>2 DEF Books, Balanced
<1>3. ASSUME Ledger, Books, ReturnBack PROVE Books'
  <2>1. tables' = before
    BY <1>3, ReturnRestores DEF Ledger, Handling, ReturnBack
  <2>2. Available' = before[1] /\ Need' = before[2] /\ Allocate' = before[3]
    BY <2>1 DEF tables
  <2>3. /\ progress_num' = progress_num /\ total' = total /\ Process' = Process
        /\ pc = "return_back" /\ pc' = "menu"
    BY <1>3 DEF ReturnBack, system, Process
  <2>4. Balanced(before[1], before[2], before[3])
    BY <1>3, <2>3 DEF Books, Handling
  <2>5. Balanced(Available, Need, Allocate)'
    BY <2>2, <2>3, <2>4 DEF Balanced
  <2> QED
    BY <2>3, <2>5 DEF Books, Handling
<1> QED
  BY <1>1, <1>2, <1>3, InitChoiceBooks, TryAllocateBooks DEF Next, User, Program

\* Conserved: in a program whose system is initialised once, granted and refused
\* requests neither lose nor make a resource.
THEOREM BankerConserved ==
    ASSUME ~Again
    PROVE  Spec => []Conserved
<1>1. TypeOK /\ Books => Conserved
  BY DEF Books, Balanced, Conserved
<1> QED
  BY <1>1, BankerTypes, LedgerInductive, BooksInductive, PTL DEF Spec

=============================================================================
