--------------------------- MODULE HashTblProofs ---------------------------
(***************************************************************************)
(* Proofs about the hash table, for any keys, values, hash function, load  *)
(* factors and maximal size: the table stays consistent and implements a   *)
(* map, its memory is freed once, and the iterator meets every entry.      *)
(***************************************************************************)
EXTENDS HashTbl, FiniteSetTheorems, SequenceTheorems, WellFoundedInduction, TLAPS

(* Induction, with the property given as a set.                            *)

\* The least-number principle for sets of natural numbers.
LEMMA LeastNumber ==
    ASSUME NEW S \in SUBSET Nat, S # {}
    PROVE  \E n \in S : \A m \in S : n <= m
<1> DEFINE R == {p \in Nat \X Nat : p[1] < p[2]}
<1>1. IsWellFoundedOn(R, Nat)
  BY NatLessThanWellFounded, Zenon DEF OpToRel
<1> HIDE DEF R
<1>2. PICK n \in S : \A m \in S : ~(<<m, n>> \in R)
  BY <1>1, WFMin, S \subseteq Nat
<1>3. \A m \in S : ~(m < n)
  BY <1>2 DEF R
<1> QED
  BY <1>3

\* A property that a subset of U has when the sets with one element less have
\* it, all subsets have.
LEMMA SubsetInduction ==
    ASSUME NEW U, IsFiniteSet(U), NEW Good,
           \A S \in SUBSET U : (\A x \in S : S \ {x} \in Good) => S \in Good
    PROVE  \A S \in SUBSET U : S \in Good
<1> SUFFICES ASSUME NEW B \in SUBSET U, B \notin Good PROVE FALSE
  OBVIOUS
<1> DEFINE Size == {n \in Nat : \E S \in SUBSET U : S \notin Good /\ Cardinality(S) = n}
<1>1. \A S \in SUBSET U : IsFiniteSet(S) /\ Cardinality(S) \in Nat
  BY FS_Subset, FS_CardinalityType
<1>2. Size # {} /\ Size \in SUBSET Nat
  BY <1>1
<1> HIDE DEF Size
<1>3. PICK n \in Size : \A m \in Size : n <= m
  BY <1>2, LeastNumber
<1>4. PICK S \in SUBSET U : S \notin Good /\ Cardinality(S) = n
  BY <1>3 DEF Size
<1>5. PICK x \in S : S \ {x} \notin Good
  BY <1>4
<1>6. Cardinality(S \ {x}) = n - 1
  BY <1>1, <1>4, <1>5, FS_RemoveElement
<1>7. n \in Nat /\ n - 1 \in Nat
  BY <1>1, <1>6, S \ {x} \in SUBSET U, <1>3 DEF Size
<1>8. n - 1 \in Size
  BY <1>5, <1>6, <1>7, S \ {x} \in SUBSET U DEF Size
<1> QED
  BY <1>3, <1>7, <1>8

-----------------------------------------------------------------------------
(* Sums over a finite set.                                                 *)

OneOf(s) == CHOOSE x \in s : TRUE

\* The recursion that g follows on the subsets of U.
Unfolds(w, U, g) ==
    \A s \in SUBSET U : g[s] = IF s = {} THEN 0 ELSE w[OneOf(s)] + g[s \ {OneOf(s)}]

\* g gives each subset of U the sum of its weights.
Sums(w, U, g) == g \in [SUBSET U -> Int] /\ Unfolds(w, U, g)

\* OneOf(s) is a member of s.
LEMMA AnyMember == \A s : s # {} => OneOf(s) \in s
BY DEF OneOf

\* There is such a function.
LEMMA SumsExist ==
    ASSUME NEW U, IsFiniteSet(U), NEW w \in [U -> Int]
    PROVE  \E g : Sums(w, U, g)
<1> DEFINE Step(g) == [s \in SUBSET U |-> IF s = {} THEN 0 ELSE w[OneOf(s)] + g[s \ {OneOf(s)}]]
<1> DEFINE UpTo(n) == \E g \in [SUBSET U -> Int] :
                         \A s \in SUBSET U : Cardinality(s) <= n => g[s] = Step(g)[s]
<1>1. \A s \in SUBSET U : IsFiniteSet(s) /\ Cardinality(s) \in Nat
  BY FS_Subset, FS_CardinalityType
<1>2. \A g \in [SUBSET U -> Int] : Step(g) \in [SUBSET U -> Int]
  BY AnyMember
<1>3. UpTo(0)
  <2> DEFINE g == [s \in SUBSET U |-> 0]
  <2>1. \A s \in SUBSET U : Cardinality(s) <= 0 => s = {}
    BY <1>1, FS_EmptySet
  <2>2. \A s \in SUBSET U : Cardinality(s) <= 0 => g[s] = Step(g)[s]
    BY <2>1
  <2>3. g \in [SUBSET U -> Int]
    OBVIOUS
  <2> HIDE DEF g
  <2> QED
    BY <2>2, <2>3
<1>4. ASSUME NEW n \in Nat, UpTo(n) PROVE UpTo(n + 1)
  <2>1. PICK g \in [SUBSET U -> Int] :
           \A s \in SUBSET U : Cardinality(s) <= n => g[s] = Step(g)[s]
    BY <1>4
  <2> DEFINE f == Step(g)
  <2>2. f \in [SUBSET U -> Int]
    BY <1>2
  <2>3. ASSUME NEW s \in SUBSET U, Cardinality(s) <= n + 1 PROVE f[s] = Step(f)[s]
    <3>1. CASE s = {}
      BY <3>1
    <3>2. CASE s # {}
      <4>1. OneOf(s) \in s /\ s \ {OneOf(s)} \in SUBSET U
        BY <3>2, AnyMember
      <4>2. Cardinality(s \ {OneOf(s)}) <= n
        BY <1>1, <2>3, <4>1, FS_RemoveElement
      <4>3. g[s \ {OneOf(s)}] = f[s \ {OneOf(s)}]
        BY <2>1, <4>1, <4>2
      <4>4. f[s] = w[OneOf(s)] + g[s \ {OneOf(s)}] /\ Step(f)[s] = w[OneOf(s)] + f[s \ {OneOf(s)}]
        BY <3>2
      <4> QED
        BY <4>3, <4>4
    <3> QED
      BY <3>1, <3>2
  <2> HIDE DEF f
  <2> QED
    BY <2>2, <2>3
<1> HIDE DEF UpTo
<1> DEFINE Bad == {n \in Nat : ~UpTo(n)}
<1>5. Bad = {}
  <2> SUFFICES ASSUME Bad # {} PROVE FALSE
    OBVIOUS
  <2>1. PICK n \in Bad : \A m \in Bad : n <= m
    BY LeastNumber, Bad \in SUBSET Nat
  <2>2. n # 0 /\ n - 1 \in Nat /\ n - 1 \notin Bad
    BY <1>3, <2>1
  <2> QED
    BY <1>4, <2>1, <2>2
<1>6. UpTo(Cardinality(U))
  BY <1>1, <1>5, U \in SUBSET U
<1>7. \A s \in SUBSET U : Cardinality(s) <= Cardinality(U)
  BY FS_Subset
<1> QED
  BY <1>6, <1>7 DEF UpTo, Sums, Unfolds

\* SumFunction() is such a sum.
LEMMA SumFunctionSums ==
    ASSUME NEW U, IsFiniteSet(U), NEW w \in [U -> Int]
    PROVE  \E g : Sums(w, U, g) /\ SumFunction(w) = g[U]
<1> DEFINE Eq(f) == f = [s \in SUBSET U |-> IF s = {} THEN 0 ELSE w[OneOf(s)] + f[s \ {OneOf(s)}]]
<1>1. DOMAIN w = U
  OBVIOUS
<1>2. SumFunction(w) = (CHOOSE f : Eq(f))[U]
  BY <1>1, Zenon DEF SumFunction, SumFunctionOnSet, FoldFunctionOnSet, MapThenFoldSet, OneOf
<1>3. PICK g : Sums(w, U, g)
  BY SumsExist
<1>4. Eq(g)
  BY <1>3 DEF Sums, Unfolds
<1>5. PICK f : f = (CHOOSE x : Eq(x)) /\ Eq(f)
  BY <1>4
<1>6. \A s \in SUBSET U : f[s] = IF s = {} THEN 0 ELSE w[OneOf(s)] + f[s \ {OneOf(s)}]
  BY <1>5
<1> DEFINE Good == {s \in SUBSET U : f[s] \in Int}
<1>7. ASSUME NEW s \in SUBSET U, \A x \in s : s \ {x} \in Good PROVE s \in Good
  <2>1. s # {} => f[s \ {OneOf(s)}] \in Int /\ w[OneOf(s)] \in Int
    BY <1>7, AnyMember
  <2>2. f[s] = IF s = {} THEN 0 ELSE w[OneOf(s)] + f[s \ {OneOf(s)}]
    BY <1>6
  <2>3. f[s] \in Int
    BY <2>1, <2>2
  <2> QED
    BY <2>3
<1> HIDE DEF Good
<1>8. \A s \in SUBSET U : s \in Good
  BY <1>7, SubsetInduction
<1>9. f \in [SUBSET U -> Int]
  <2>1. \A s \in SUBSET U : f[s] \in Int
    BY <1>8 DEF Good
  <2>2. f = [s \in SUBSET U |-> f[s]]
    <3> DEFINE body(s) == IF s = {} THEN 0 ELSE w[OneOf(s)] + f[s \ {OneOf(s)}]
    <3>1. f = [s \in SUBSET U |-> body(s)]
      BY <1>5
    <3> HIDE DEF body
    <3> QED
      BY <3>1
  <2> QED
    BY <2>1, <2>2
<1>10. Sums(w, U, f)
  BY <1>6, <1>9 DEF Sums, Unfolds
<1>11. SumFunction(w) = f[U]
  BY <1>2, <1>5
<1> QED
  BY <1>10, <1>11

\* A sum of natural numbers, and a sum of zeros.
LEMMA SumNat ==
    ASSUME NEW U, IsFiniteSet(U), NEW w \in [U -> Nat]
    PROVE  SumFunction(w) \in Nat /\ ((\A x \in U : w[x] = 0) => SumFunction(w) = 0)
<1>1. PICK g : Sums(w, U, g) /\ SumFunction(w) = g[U]
  BY SumFunctionSums, w \in [U -> Int]
<1> DEFINE Good == {s \in SUBSET U : g[s] \in Nat /\ ((\A x \in U : w[x] = 0) => g[s] = 0)}
<1>2. ASSUME NEW s \in SUBSET U, \A x \in s : s \ {x} \in Good PROVE s \in Good
  <2>1. g[s] = IF s = {} THEN 0 ELSE w[OneOf(s)] + g[s \ {OneOf(s)}]
    BY <1>1 DEF Sums, Unfolds
  <2>2. s # {} => s \ {OneOf(s)} \in Good /\ w[OneOf(s)] \in Nat /\ OneOf(s) \in U
    BY <1>2, AnyMember
  <2> QED
    BY <2>1, <2>2
<1> HIDE DEF Good
<1>3. U \in Good
  BY <1>2, SubsetInduction, U \in SUBSET U
<1> QED
  BY <1>1, <1>3 DEF Good

\* v differs from w by d at x.
DiffersBy(U, w, v, x, d) ==
    /\ w \in [U -> Int] /\ v \in [U -> Int] /\ x \in U /\ d \in Int
    /\ v[x] = w[x] + d
    /\ \A y \in U \ {x} : v[y] = w[y]

\* One number of a sum changes.
LEMMA SumUpdate ==
    ASSUME NEW U, IsFiniteSet(U), NEW w, NEW v, NEW x, NEW d, DiffersBy(U, w, v, x, d)
    PROVE  SumFunction(v) = SumFunction(w) + d
<1>0. /\ w \in [U -> Int] /\ v \in [U -> Int] /\ x \in U /\ d \in Int
      /\ v[x] = w[x] + d /\ \A y \in U \ {x} : v[y] = w[y]
  BY DEF DiffersBy
<1>1. PICK g : Sums(w, U, g) /\ SumFunction(w) = g[U]
  BY <1>0, SumFunctionSums
<1>2. PICK f : Sums(v, U, f) /\ SumFunction(v) = f[U]
  BY <1>0, SumFunctionSums
<1> DEFINE Good == {s \in SUBSET U : f[s] = g[s] + (IF x \in s THEN d ELSE 0)}
<1>3. ASSUME NEW s \in SUBSET U, \A y \in s : s \ {y} \in Good PROVE s \in Good
  <2>1. /\ f[s] = IF s = {} THEN 0 ELSE v[OneOf(s)] + f[s \ {OneOf(s)}]
        /\ g[s] = IF s = {} THEN 0 ELSE w[OneOf(s)] + g[s \ {OneOf(s)}]
    BY <1>1, <1>2 DEF Sums, Unfolds
  <2>2. CASE s = {}
    BY <1>0, <2>1, <2>2
  <2>3. CASE s # {}
    <3>1. PICK a : a = OneOf(s) /\ a \in s
      BY <2>3, AnyMember
    <3>2. f[s \ {a}] = g[s \ {a}] + (IF x \in s \ {a} THEN d ELSE 0)
      BY <1>3, <3>1
    <3>3. f[s] = v[a] + f[s \ {a}] /\ g[s] = w[a] + g[s \ {a}]
      BY <2>1, <2>3, <3>1
    <3>4. g[s \ {a}] \in Int /\ v[a] \in Int /\ w[a] \in Int
      BY <1>0, <1>1, <3>1 DEF Sums
    <3>5. CASE a = x
      BY <1>0, <3>1, <3>2, <3>3, <3>4, <3>5
    <3>6. CASE a # x
      BY <1>0, <3>1, <3>2, <3>3, <3>4, <3>6
    <3> QED
      BY <3>5, <3>6
  <2> QED
    BY <2>2, <2>3
<1> HIDE DEF Good
<1>4. U \in Good
  BY <1>3, SubsetInduction, U \in SUBSET U
<1> QED
  BY <1>0, <1>1, <1>2, <1>4 DEF Good

-----------------------------------------------------------------------------
(* Chains.                                                                 *)

\* r is s without its p-th element.
Without(s, p, r) ==
    /\ Len(r) = Len(s) - 1
    /\ \A i \in 1 .. Len(r) : r[i] = s[IF i < p THEN i ELSE i + 1]

\* A chain without one of its entries.
LEMMA RemoveAtSeq ==
    ASSUME NEW S, NEW s \in Seq(S), NEW p, p \in 1 .. Len(s), NEW r, r = RemoveAt(s, p)
    PROVE  r \in Seq(S) /\ Without(s, p, r)
<1> DEFINE a == SubSeq(s, 1, p - 1)
           b == SubSeq(s, p + 1, Len(s))
<1>1. /\ a \in Seq(S) /\ Len(a) = p - 1
      /\ \A i \in 1 .. p - 1 : a[i] = s[i]
  BY SubSeqProperties
<1>2. /\ b \in Seq(S) /\ Len(b) = Len(s) - p
      /\ \A i \in 1 .. Len(s) - p : b[i] = s[p + i]
  <2>1. \A i \in p + 1 .. Len(s) : s[i] \in S
    OBVIOUS
  <2>2. /\ b \in Seq(S) /\ Len(b) = IF p + 1 <= Len(s) THEN Len(s) - (p + 1) + 1 ELSE 0
        /\ \A i \in 1 .. Len(s) - (p + 1) + 1 : b[i] = s[(p + 1) + i - 1]
    BY <2>1, SubSeqProperties
  <2> QED
    BY <2>2
<1>3. r = a \o b
  BY DEF RemoveAt
<1> HIDE DEF a, b
<1>4. /\ r \in Seq(S) /\ Len(r) = Len(a) + Len(b)
      /\ \A i \in 1 .. Len(a) + Len(b) : r[i] = IF i <= Len(a) THEN a[i] ELSE b[i - Len(a)]
  <2>1. /\ a \o b \in Seq(S) /\ Len(a \o b) = Len(a) + Len(b)
        /\ \A i \in 1 .. Len(a) + Len(b) :
              (a \o b)[i] = IF i <= Len(a) THEN a[i] ELSE b[i - Len(a)]
    BY <1>1, <1>2, ConcatProperties
  <2> QED
    BY <1>3, <2>1
<1>5. ASSUME NEW i \in 1 .. Len(r) PROVE r[i] = s[IF i < p THEN i ELSE i + 1]
  <2>1. CASE i < p
    BY <1>1, <1>2, <1>4, <2>1
  <2>2. CASE ~(i < p)
    <3>1. r[i] = b[i - (p - 1)] /\ i - (p - 1) \in 1 .. Len(s) - p
      BY <1>1, <1>2, <1>4, <2>2
    <3> QED
      BY <1>2, <2>2, <3>1
  <2> QED
    BY <2>1, <2>2
<1> QED
  BY <1>1, <1>2, <1>4, <1>5 DEF Without

\* A chain with an entry in front.
LEMMA ConsSeq ==
    ASSUME NEW S, NEW s \in Seq(S), NEW e \in S, NEW r, r = <<e>> \o s
    PROVE  /\ r \in Seq(S) /\ Len(r) = Len(s) + 1 /\ r[1] = e
           /\ \A i \in 1 .. Len(s) : r[i + 1] = s[i]
BY ConcatProperties

-----------------------------------------------------------------------------
(* Tables.                                                                 *)

\* Each entry is in the chain of its hash.
Placed(t) ==
    \A i \in DOMAIN t.table : \A p \in DOMAIN t.table[i] :
        /\ t.table[i][p].hash = Hash[Name[t.table[i][p].key]]
        /\ Slot(t.table[i][p].hash, t.size) = i

\* A chain has no two entries with equal keys.
NoTwins(c) == \A p, q \in 1 .. Len(c) : Name[c[p].key] = Name[c[q].key] => p = q

\* A table at any time, also one that a resize fills or empties.
Sound(t) ==
    /\ t = [table |-> t.table, size |-> t.size, nentries |-> t.nentries]
    /\ t.size \in Powers \cup {0}
    /\ t.table \in [0 .. t.size - 1 -> Seq(Entry)]
    /\ Placed(t)
    /\ \A i \in 0 .. t.size - 1 : NoTwins(t.table[i])
    /\ t.nentries = Length(t)

\* Sizes.
LEMMA Sizes == Powers \subseteq Nat \ {0} /\ \A n \in Powers \cup {0} : n \in Nat /\ n <= MaxSize
BY HashTblAssumption DEF Powers

\* The slot of a hash is one of the table.
LEMMA SlotRange ==
    ASSUME NEW n \in Nat \ {0}, NEW x \in Nat
    PROVE  Slot(x, n) \in 0 .. n - 1
BY DEF Slot

\* What a sequence of entries holds.
LEMMA Members == \A c \in Seq(Entry) : ToSet(c) = {c[p] : p \in 1 .. Len(c)} /\ ToSet(c) \subseteq Entry
BY DEF ToSet

\* The entries of a table.
LEMMA EntriesOf ==
    ASSUME NEW t, t.size \in Nat, t.table \in [0 .. t.size - 1 -> Seq(Entry)]
    PROVE  /\ Entries(t) \subseteq Entry
           /\ \A e : e \in Entries(t) <=> \E i \in 0 .. t.size - 1 : e \in ToSet(t.table[i])
BY Members DEF Entries

\* The lengths of the chains.
Lengths(t) == [i \in DOMAIN t.table |-> Len(t.table[i])]

\* The number of entries is a sum.
LEMMA LengthNat ==
    ASSUME NEW t, t.size \in Nat, t.table \in [0 .. t.size - 1 -> Seq(Entry)]
    PROVE  /\ Length(t) \in Nat /\ Length(t) = SumFunction(Lengths(t))
           /\ IsFiniteSet(0 .. t.size - 1)
           /\ Lengths(t) \in [0 .. t.size - 1 -> Nat]
           /\ (\A i \in 0 .. t.size - 1 : t.table[i] = <<>>) => Length(t) = 0
<1>1. DOMAIN t.table = 0 .. t.size - 1
  OBVIOUS
<1>2. Length(t) = SumFunction(Lengths(t))
  BY DEF Length, Lengths
<1>3. IsFiniteSet(0 .. t.size - 1)
  BY FS_Interval
<1>4. Lengths(t) \in [0 .. t.size - 1 -> Nat]
  BY <1>1, LenProperties DEF Lengths
<1>5. (\A i \in 0 .. t.size - 1 : t.table[i] = <<>>) => \A i \in 0 .. t.size - 1 : Lengths(t)[i] = 0
  BY <1>1 DEF Lengths
<1>6. PICK w : w = Lengths(t)
  OBVIOUS
<1>7. SumFunction(w) \in Nat /\ ((\A x \in 0 .. t.size - 1 : w[x] = 0) => SumFunction(w) = 0)
  BY <1>3, <1>4, <1>6, SumNat
<1> QED
  BY <1>2, <1>3, <1>4, <1>5, <1>6, <1>7

\* A table in which one chain has been changed.
Changed(t, u, i, c) ==
    u = [table |-> [t.table EXCEPT ![i] = c], size |-> t.size,
         nentries |-> t.nentries + Len(c) - Len(t.table[i])]

\* A chain that may stand in slot i of a table of n slots.
Fits(c, n, i) ==
    /\ c \in Seq(Entry) /\ NoTwins(c)
    /\ \A p \in 1 .. Len(c) : c[p].hash = Hash[Name[c[p].key]] /\ Slot(c[p].hash, n) = i

\* What the change makes of the table.
Rewired(t, u, i, c) ==
    /\ Sound(u) /\ u.size = t.size /\ u.table[i] = c
    /\ \A j \in 0 .. t.size - 1 : j # i => u.table[j] = t.table[j]
    /\ Length(u) = Length(t) + Len(c) - Len(t.table[i])
    /\ Entries(u) = {e \in Entries(t) : Slot(e.hash, t.size) # i} \cup ToSet(c)

\* If the new chain is sound so is the table, and the other chains are as before.
LEMMA ChangedSound ==
    ASSUME NEW t, Sound(t), NEW i, i \in 0 .. t.size - 1, NEW c, Fits(c, t.size, i),
           NEW u, Changed(t, u, i, c)
    PROVE  Rewired(t, u, i, c)
<1>0. /\ c \in Seq(Entry) /\ NoTwins(c)
      /\ \A p \in 1 .. Len(c) : c[p].hash = Hash[Name[c[p].key]] /\ Slot(c[p].hash, t.size) = i
  BY DEF Fits
<1>1. /\ t.size \in Nat /\ t.table \in [0 .. t.size - 1 -> Seq(Entry)]
      /\ t.size \in Powers \cup {0} /\ t.nentries = Length(t)
  BY Sizes DEF Sound
<1>2. /\ u.table = [t.table EXCEPT ![i] = c] /\ u.size = t.size
      /\ u.nentries = t.nentries + Len(c) - Len(t.table[i])
      /\ u = [table |-> u.table, size |-> u.size, nentries |-> u.nentries]
  BY DEF Changed
<1>3. /\ u.table \in [0 .. u.size - 1 -> Seq(Entry)] /\ u.table[i] = c
      /\ \A j \in 0 .. t.size - 1 : j # i => u.table[j] = t.table[j]
  BY <1>0, <1>1, <1>2
<1>4. Length(u) = Length(t) + Len(c) - Len(t.table[i])
  <2>1. PICK w, v : w = Lengths(t) /\ v = Lengths(u)
    OBVIOUS
  <2>2. /\ w \in [0 .. t.size - 1 -> Nat] /\ v \in [0 .. t.size - 1 -> Nat]
        /\ Length(t) = SumFunction(w) /\ Length(u) = SumFunction(v)
        /\ IsFiniteSet(0 .. t.size - 1)
    BY <1>1, <1>2, <1>3, <2>1, LengthNat
  <2>3. /\ v[i] = Len(c) /\ w[i] = Len(t.table[i])
        /\ \A j \in (0 .. t.size - 1) \ {i} : v[j] = w[j]
    BY <1>1, <1>2, <1>3, <2>1 DEF Lengths
  <2>4. PICK d : d \in Int /\ d = Len(c) - Len(t.table[i]) /\ v[i] = w[i] + d
    <3>1. v[i] \in Nat /\ w[i] \in Nat
      BY <2>2
    <3>2. v[i] - w[i] \in Int /\ v[i] = w[i] + (v[i] - w[i])
      BY <3>1
    <3> QED
      BY <2>3, <3>2
  <2>5. v \in [0 .. t.size - 1 -> Int] /\ w \in [0 .. t.size - 1 -> Int]
    BY <2>2
  <2>6. SumFunction(v) = SumFunction(w) + d
    <3>1. PICK U : U = 0 .. t.size - 1
      OBVIOUS
    <3>2. IsFiniteSet(U) /\ DiffersBy(U, w, v, i, d)
      BY <2>2, <2>3, <2>4, <2>5, <3>1 DEF DiffersBy
    <3> QED
      BY <3>2, SumUpdate
  <2>7. SumFunction(w) \in Nat /\ Len(c) \in Nat /\ Len(t.table[i]) \in Nat
    BY <1>0, <1>1, <2>2, <2>3, LengthNat
  <2> QED
    BY <2>2, <2>4, <2>6, <2>7
<1>5. Placed(u)
  <2>1. Placed(t)
    BY DEF Sound
  <2>2. \A j \in 0 .. t.size - 1 : \A p \in 1 .. Len(u.table[j]) :
           /\ u.table[j][p].hash = Hash[Name[u.table[j][p].key]]
           /\ Slot(u.table[j][p].hash, t.size) = j
    <3> TAKE j \in 0 .. t.size - 1
    <3>1. CASE j = i
      BY <1>0, <1>3, <3>1
    <3>2. CASE j # i
      <4>1. u.table[j] = t.table[j] /\ DOMAIN t.table[j] = 1 .. Len(t.table[j]) /\ j \in DOMAIN t.table
        BY <1>1, <1>3, <3>2
      <4> QED
        BY <2>1, <4>1 DEF Placed
    <3> QED
      BY <3>1, <3>2
  <2>3. DOMAIN u.table = 0 .. t.size - 1 /\ \A j \in 0 .. t.size - 1 : DOMAIN u.table[j] = 1 .. Len(u.table[j])
    BY <1>2, <1>3
  <2> HIDE DEF Placed
  <2>4. ASSUME NEW j \in DOMAIN u.table, NEW p \in DOMAIN u.table[j]
        PROVE  /\ u.table[j][p].hash = Hash[Name[u.table[j][p].key]]
               /\ Slot(u.table[j][p].hash, u.size) = j
    <3>1. j \in 0 .. t.size - 1 /\ p \in 1 .. Len(u.table[j]) /\ u.size = t.size
      BY <1>2, <2>3
    <3> QED
      BY <2>2, <3>1
  <2> QED
    BY <2>4 DEF Placed
<1>6. \A j \in 0 .. u.size - 1 : NoTwins(u.table[j])
  BY <1>0, <1>2, <1>3 DEF Sound
<1>7. Sound(u)
  BY <1>1, <1>2, <1>3, <1>4, <1>5, <1>6 DEF Sound
<1>8. ASSUME NEW e PROVE e \in Entries(u) <=> e \in {d \in Entries(t) : Slot(d.hash, t.size) # i} \cup ToSet(c)
  <2>1. /\ e \in Entries(t) <=> \E j \in 0 .. t.size - 1 : e \in ToSet(t.table[j])
        /\ e \in Entries(u) <=> \E j \in 0 .. t.size - 1 : e \in ToSet(u.table[j])
    BY <1>1, <1>2, <1>3, EntriesOf
  <2>2. ASSUME NEW j \in 0 .. t.size - 1, e \in ToSet(t.table[j]) PROVE Slot(e.hash, t.size) = j
    BY <1>1, <2>2 DEF Sound, Placed, ToSet
  <2> QED
    BY <1>3, <2>1, <2>2
<1> QED
  BY <1>2, <1>3, <1>4, <1>7, <1>8 DEF Rewired

\* A sound table has an entry of a name in one place.
LEMMA EntryPlace ==
    ASSUME NEW t, Sound(t), NEW e \in Entries(t)
    PROVE  /\ e \in Entry /\ e.hash = Hash[Name[e.key]] /\ t.size \in Nat \ {0}
           /\ Slot(e.hash, t.size) \in 0 .. t.size - 1
           /\ \E p \in 1 .. Len(t.table[Slot(e.hash, t.size)]) : t.table[Slot(e.hash, t.size)][p] = e
<1>1. t.size \in Nat /\ t.table \in [0 .. t.size - 1 -> Seq(Entry)]
  BY Sizes DEF Sound
<1>2. PICK i \in 0 .. t.size - 1 : e \in ToSet(t.table[i])
  BY <1>1, EntriesOf
<1>3. PICK p \in 1 .. Len(t.table[i]) : t.table[i][p] = e
  BY <1>1, <1>2, Members
<1>4. e.hash = Hash[Name[e.key]] /\ Slot(e.hash, t.size) = i
  BY <1>1, <1>3 DEF Sound, Placed
<1> QED
  BY <1>1, <1>2, <1>3, <1>4, EntriesOf

\* A chain, and what of the table's entries it holds.
IsChain(t, i, o) ==
    /\ o \in Seq(Entry) /\ Len(o) \in Nat /\ NoTwins(o)
    /\ ToSet(o) = {o[p] : p \in 1 .. Len(o)}
    /\ ToSet(o) = {e \in Entries(t) : Slot(e.hash, t.size) = i}
    /\ \A p \in 1 .. Len(o) :
          /\ o[p] \in Entries(t) /\ o[p] \in Entry
          /\ o[p].hash = Hash[Name[o[p].key]] /\ Slot(o[p].hash, t.size) = i

\* The chains of a sound table are such chains.
LEMMA ChainOf ==
    ASSUME NEW t, Sound(t), NEW i, i \in 0 .. t.size - 1, NEW o, o = t.table[i]
    PROVE  IsChain(t, i, o)
<1>1. t.size \in Nat /\ t.table \in [0 .. t.size - 1 -> Seq(Entry)]
  BY Sizes DEF Sound
<1>2. o \in Seq(Entry) /\ Len(o) \in Nat /\ NoTwins(o) /\ DOMAIN o = 1 .. Len(o)
  BY <1>1 DEF Sound
<1>3. ToSet(o) = {o[p] : p \in 1 .. Len(o)}
  BY <1>2, Members
<1>4. ASSUME NEW p \in 1 .. Len(o)
      PROVE  /\ o[p] \in Entries(t) /\ o[p] \in Entry
             /\ o[p].hash = Hash[Name[o[p].key]] /\ Slot(o[p].hash, t.size) = i
  <2>1. Placed(t) /\ i \in DOMAIN t.table
    BY <1>1 DEF Sound
  <2>2. o[p].hash = Hash[Name[o[p].key]] /\ Slot(o[p].hash, t.size) = i
    BY <1>2, <2>1 DEF Placed
  <2>3. o[p] \in ToSet(o)
    BY <1>3
  <2> QED
    BY <1>1, <1>2, <2>2, <2>3, EntriesOf
<1>5. ASSUME NEW e \in Entries(t), Slot(e.hash, t.size) = i PROVE e \in ToSet(o)
  BY <1>3, <1>5, EntryPlace
<1> QED
  BY <1>2, <1>3, <1>4, <1>5 DEF IsChain

\* u holds e besides what t holds.
Adds(t, u, e) ==
    /\ Sound(u) /\ u.size = t.size /\ Entries(u) = Entries(t) \cup {e}
    /\ e \notin Entries(t) /\ Length(u) = Length(t) + 1

\* link_entry() adds one entry.
LEMMA Linked ==
    ASSUME NEW t, Sound(t), t.size > 0, NEW e \in Entry, e.hash = Hash[Name[e.key]],
           \A d \in Entries(t) : Name[d.key] # Name[e.key],
           NEW u, u = link_entry(t, e)
    PROVE  Adds(t, u, e)
<1>1. /\ t.size \in Nat \ {0} /\ t.table \in [0 .. t.size - 1 -> Seq(Entry)]
      /\ t = [table |-> t.table, size |-> t.size, nentries |-> t.nentries]
      /\ t.nentries = Length(t)
  BY Sizes DEF Sound
<1>2. PICK i : i = Slot(e.hash, t.size) /\ i \in 0 .. t.size - 1
  BY <1>1, SlotRange, HashTblAssumption DEF Entry
<1>3. PICK o, c : o = t.table[i] /\ c = <<e>> \o o
  OBVIOUS
<1>4. /\ o \in Seq(Entry) /\ Len(o) \in Nat /\ NoTwins(o)
      /\ ToSet(o) = {o[p] : p \in 1 .. Len(o)}
      /\ ToSet(o) = {d \in Entries(t) : Slot(d.hash, t.size) = i}
      /\ \A p \in 1 .. Len(o) :
            /\ o[p] \in Entries(t) /\ o[p] \in Entry
            /\ o[p].hash = Hash[Name[o[p].key]] /\ Slot(o[p].hash, t.size) = i
  <2>1. IsChain(t, i, o)
    BY <1>2, <1>3, ChainOf
  <2> QED
    BY <2>1 DEF IsChain
<1>5. /\ c \in Seq(Entry) /\ Len(c) = Len(o) + 1 /\ c[1] = e
      /\ \A j \in 1 .. Len(o) : c[j + 1] = o[j]
  BY <1>3, <1>4, ConsSeq
<1>6. Changed(t, u, i, c)
  <2>1. u = [t EXCEPT !.table[i] = <<e>> \o @, !.nentries = @ + 1]
    BY <1>2 DEF link_entry
  <2>2. u = [table |-> [t.table EXCEPT ![i] = c], size |-> t.size, nentries |-> t.nentries + 1]
    BY <1>1, <1>2, <1>3, <2>1
  <2>3. t.nentries + 1 = t.nentries + Len(c) - Len(o)
    <3>1. t.nentries \in Nat /\ Len(o) \in Nat
      BY <1>1, <1>4, LengthNat
    <3> QED
      BY <1>5, <3>1
  <2> QED
    BY <1>3, <2>2, <2>3 DEF Changed
<1>7. \A p \in 1 .. Len(c) : p = 1 \/ (p - 1 \in 1 .. Len(o) /\ c[p] = o[p - 1])
  <2> TAKE p \in 1 .. Len(c)
  <2>1. p # 1 => p - 1 \in 1 .. Len(o) /\ (p - 1) + 1 = p
    BY <1>4, <1>5
  <2> QED
    BY <1>5, <2>1
<1>8. ASSUME NEW p \in 1 .. Len(c)
      PROVE  c[p].hash = Hash[Name[c[p].key]] /\ Slot(c[p].hash, t.size) = i
  <2>1. CASE p = 1
    BY <1>2, <1>5, <2>1
  <2>2. CASE p # 1
    BY <1>4, <1>7, <2>2
  <2> QED
    BY <2>1, <2>2
<1>9. NoTwins(c)
  <2>1. \A r \in 1 .. Len(c) : r # 1 => Name[c[r].key] # Name[c[1].key]
    BY <1>4, <1>5, <1>7
  <2>2. ASSUME NEW p \in 1 .. Len(c), NEW q \in 1 .. Len(c), Name[c[p].key] = Name[c[q].key]
        PROVE  p = q
    <3>1. CASE p # 1 /\ q # 1
      <4>1. p - 1 \in 1 .. Len(o) /\ q - 1 \in 1 .. Len(o) /\ c[p] = o[p - 1] /\ c[q] = o[q - 1]
        BY <1>7, <3>1
      <4>2. p - 1 = q - 1
        BY <1>4, <2>2, <4>1 DEF NoTwins
      <4> QED
        BY <4>2
    <3> QED
      BY <2>1, <2>2, <3>1
  <2> QED
    BY <2>2 DEF NoTwins
<1>10. /\ Sound(u) /\ u.size = t.size
       /\ Length(u) = Length(t) + Len(c) - Len(t.table[i])
       /\ Entries(u) = {d \in Entries(t) : Slot(d.hash, t.size) # i} \cup ToSet(c)
  <2>1. Fits(c, t.size, i)
    BY <1>5, <1>8, <1>9 DEF Fits
  <2>2. Rewired(t, u, i, c)
    BY <1>2, <1>6, <2>1, ChangedSound
  <2> QED
    BY <2>2 DEF Rewired
<1>11. ToSet(c) = {e} \cup ToSet(o)
  <2>1. ToSet(c) = {c[p] : p \in 1 .. Len(c)}
    BY <1>5, Members
  <2>2. ASSUME NEW x \in ToSet(c) PROVE x \in {e} \cup ToSet(o)
    <3>1. PICK p \in 1 .. Len(c) : x = c[p]
      BY <2>1, <2>2
    <3> QED
      BY <1>4, <1>5, <1>7, <3>1
  <2>3. ASSUME NEW x \in ToSet(o) PROVE x \in ToSet(c)
    <3>1. PICK p \in 1 .. Len(o) : x = o[p]
      BY <1>4, <2>3
    <3>2. p + 1 \in 1 .. Len(c) /\ c[p + 1] = x
      BY <1>4, <1>5, <3>1
    <3> QED
      BY <2>1, <3>2
  <2>4. 1 \in 1 .. Len(c)
    BY <1>4, <1>5
  <2> QED
    BY <1>5, <2>1, <2>2, <2>3, <2>4
<1>12. Length(t) \in Nat
  BY <1>1, LengthNat
<1>13. Length(u) = Length(t) + 1
  BY <1>3, <1>4, <1>5, <1>10, <1>12
<1>14. Entries(u) = Entries(t) \cup {e}
  BY <1>4, <1>10, <1>11
<1> QED
  BY <1>10, <1>13, <1>14 DEF Adds

\* u is t without e.
Drops(t, u, e) ==
    /\ Sound(u) /\ u.size = t.size /\ Entries(u) = Entries(t) \ {e}
    /\ e \in Entries(t) /\ Length(u) = Length(t) - 1

\* unlink_entry() takes one entry away.
LEMMA Unlinked ==
    ASSUME NEW t, Sound(t), NEW i, i \in 0 .. t.size - 1, NEW o, o = t.table[i],
           NEW p, p \in 1 .. Len(o), NEW x, x = o[p],
           NEW u, u = unlink_entry(t, i, p)
    PROVE  Drops(t, u, x)
<1>1. /\ t.size \in Nat \ {0} /\ t.table \in [0 .. t.size - 1 -> Seq(Entry)]
      /\ t = [table |-> t.table, size |-> t.size, nentries |-> t.nentries]
      /\ t.nentries = Length(t)
  BY Sizes DEF Sound
<1>2. PICK c : c = RemoveAt(o, p)
  OBVIOUS
<1>3. IsChain(t, i, o)
  BY ChainOf
<1>4. /\ o \in Seq(Entry) /\ Len(o) \in Nat /\ NoTwins(o)
      /\ ToSet(o) = {o[q] : q \in 1 .. Len(o)}
      /\ ToSet(o) = {d \in Entries(t) : Slot(d.hash, t.size) = i}
      /\ \A q \in 1 .. Len(o) :
            /\ o[q] \in Entries(t) /\ o[q] \in Entry
            /\ o[q].hash = Hash[Name[o[q].key]] /\ Slot(o[q].hash, t.size) = i
  BY <1>3 DEF IsChain
<1>5. /\ c \in Seq(Entry) /\ Len(c) = Len(o) - 1
      /\ \A q \in 1 .. Len(c) : c[q] = o[IF q < p THEN q ELSE q + 1]
  <2>1. c \in Seq(Entry) /\ Without(o, p, c)
    BY <1>2, <1>4, RemoveAtSeq
  <2> QED
    BY <2>1 DEF Without
<1>6. Changed(t, u, i, c)
  <2>1. u = [t EXCEPT !.table[i] = RemoveAt(@, p), !.nentries = @ - 1]
    BY DEF unlink_entry
  <2>2. u = [table |-> [t.table EXCEPT ![i] = c], size |-> t.size, nentries |-> t.nentries - 1]
    BY <1>1, <1>2, <2>1
  <2>3. t.nentries - 1 = t.nentries + Len(c) - Len(o)
    <3>1. t.nentries \in Nat /\ Len(o) \in Nat
      BY <1>1, <1>4, LengthNat
    <3> QED
      BY <1>5, <3>1
  <2> QED
    BY <2>2, <2>3 DEF Changed
<1>7. ASSUME NEW q \in 1 .. Len(c)
      PROVE  \E r \in 1 .. Len(o) : r # p /\ r = (IF q < p THEN q ELSE q + 1) /\ c[q] = o[r]
  <2>1. PICK r : r = IF q < p THEN q ELSE q + 1
    OBVIOUS
  <2>2. r \in 1 .. Len(o) /\ r # p
    BY <1>4, <1>5, <2>1
  <2> QED
    BY <1>5, <2>1, <2>2
<1>8. Fits(c, t.size, i)
  <2>1. ASSUME NEW q \in 1 .. Len(c)
        PROVE  c[q].hash = Hash[Name[c[q].key]] /\ Slot(c[q].hash, t.size) = i
    <3>1. PICK r \in 1 .. Len(o) : c[q] = o[r]
      BY <1>7
    <3> QED
      BY <1>4, <3>1
  <2>2. ASSUME NEW a \in 1 .. Len(c), NEW b \in 1 .. Len(c), Name[c[a].key] = Name[c[b].key]
        PROVE  a = b
    <3>1. PICK r \in 1 .. Len(o) : r = (IF a < p THEN a ELSE a + 1) /\ c[a] = o[r]
      BY <1>7
    <3>2. PICK s \in 1 .. Len(o) : s = (IF b < p THEN b ELSE b + 1) /\ c[b] = o[s]
      BY <1>7
    <3>3. r = s
      <4>1. NoTwins(o) /\ Name[o[r].key] = Name[o[s].key]
        BY <1>4, <2>2, <3>1, <3>2
      <4> QED
        BY <4>1 DEF NoTwins
    <3> QED
      BY <1>4, <1>5, <3>1, <3>2, <3>3
  <2> QED
    BY <1>5, <2>1, <2>2 DEF Fits, NoTwins
<1>9. Rewired(t, u, i, c)
  BY <1>6, <1>8, ChangedSound
<1>10. ToSet(c) = {c[q] : q \in 1 .. Len(c)}
  BY <1>5, Members
<1>11. ToSet(c) = ToSet(o) \ {x}
  <2>1. ASSUME NEW y \in ToSet(c) PROVE y \in ToSet(o) \ {x}
    <3>1. PICK q \in 1 .. Len(c) : y = c[q]
      BY <1>10, <2>1
    <3>2. PICK r \in 1 .. Len(o) : r # p /\ y = o[r]
      BY <1>7, <3>1
    <3> QED
      BY <1>4, <3>2 DEF NoTwins
  <2>2. ASSUME NEW y \in ToSet(o), y # x PROVE y \in ToSet(c)
    <3>1. PICK r \in 1 .. Len(o) : y = o[r] /\ r # p
      BY <1>4, <2>2
    <3>2. PICK q \in 1 .. Len(c) : r = IF q < p THEN q ELSE q + 1
      <4>1. (IF r < p THEN r ELSE r - 1) \in 1 .. Len(c)
        BY <1>4, <1>5, <3>1
      <4> QED
        BY <3>1, <4>1
    <3> QED
      BY <1>5, <1>10, <3>1, <3>2
  <2> QED
    BY <2>1, <2>2
<1>12. x \in ToSet(o)
  BY <1>4
<1>13. Entries(u) = Entries(t) \ {x} /\ x \in Entries(t)
  BY <1>4, <1>9, <1>11, <1>12 DEF Rewired
<1>14. Length(u) = Length(t) - 1
  <2>1. Length(t) \in Nat /\ Length(u) = Length(t) + Len(c) - Len(o)
    BY <1>1, <1>9, LengthNat DEF Rewired
  <2> QED
    BY <1>4, <1>5, <2>1
<1> QED
  BY <1>9, <1>13, <1>14 DEF Drops, Rewired

\* x with the value v.
WithVal(x, v) == [key |-> x.key, val |-> v, hash |-> x.hash]

\* u is t with y in the place of x, which has the same key.
Revalues(t, u, x, y) ==
    /\ Sound(u) /\ u.size = t.size /\ Entries(u) = (Entries(t) \ {x}) \cup {y}
    /\ x \in Entries(t) /\ y.key = x.key /\ Length(u) = Length(t)
    /\ \A j \in 0 .. t.size - 1 :
          /\ Len(u.table[j]) = Len(t.table[j])
          /\ \A q \in 1 .. Len(t.table[j]) : u.table[j][q].key = t.table[j][q].key

\* Storing a value changes one entry, and no key.
LEMMA Revalued ==
    ASSUME NEW t, Sound(t), NEW i, i \in 0 .. t.size - 1, NEW o, o = t.table[i],
           NEW p, p \in 1 .. Len(o), NEW x, x = o[p], NEW v \in Vals,
           NEW y, y = WithVal(x, v),
           NEW u, u = [t EXCEPT !.table[i][p].val = v]
    PROVE  Revalues(t, u, x, y)
<1>1. /\ t.size \in Nat \ {0} /\ t.table \in [0 .. t.size - 1 -> Seq(Entry)]
      /\ t = [table |-> t.table, size |-> t.size, nentries |-> t.nentries]
      /\ t.nentries = Length(t)
  BY Sizes DEF Sound
<1>3. IsChain(t, i, o)
  BY ChainOf
<1>4. /\ o \in Seq(Entry) /\ Len(o) \in Nat /\ NoTwins(o)
      /\ ToSet(o) = {o[q] : q \in 1 .. Len(o)}
      /\ ToSet(o) = {d \in Entries(t) : Slot(d.hash, t.size) = i}
      /\ \A q \in 1 .. Len(o) :
            /\ o[q] \in Entries(t) /\ o[q] \in Entry
            /\ o[q].hash = Hash[Name[o[q].key]] /\ Slot(o[q].hash, t.size) = i
  BY <1>3 DEF IsChain
<1>2. PICK c : c = [o EXCEPT ![p] = y]
  OBVIOUS
<1>5. x \in Entry /\ y \in Entry /\ y.key = x.key /\ y.hash = x.hash
  BY <1>4 DEF Entry, WithVal
<1>6. /\ c \in Seq(Entry) /\ Len(c) = Len(o) /\ c[p] = y
      /\ \A q \in 1 .. Len(o) : q # p => c[q] = o[q]
  BY <1>2, <1>4, <1>5
<1>7. \A q \in 1 .. Len(o) : c[q].key = o[q].key /\ c[q].hash = o[q].hash
  BY <1>5, <1>6
<1>8. Changed(t, u, i, c)
  <2>1. [o EXCEPT ![p].val = v] = c
    <3>1. [x EXCEPT !.val = v] = y
      BY <1>5 DEF Entry, WithVal
    <3> QED
      BY <1>2, <1>4, <3>1
  <2>2. u = [table |-> [t.table EXCEPT ![i] = c], size |-> t.size, nentries |-> t.nentries]
    BY <1>1, <2>1
  <2>3. t.nentries = t.nentries + Len(c) - Len(o)
    <3>1. t.nentries \in Nat /\ Len(o) \in Nat
      BY <1>1, <1>4, LengthNat
    <3> QED
      BY <1>6, <3>1
  <2> QED
    BY <2>2, <2>3 DEF Changed
<1>9. Fits(c, t.size, i)
  <2>1. NoTwins(o)
    BY <1>4
  <2>2. \A q \in 1 .. Len(c) : c[q].key = o[q].key
    BY <1>6, <1>7
  <2>3. NoTwins(c)
    BY <1>6, <2>1, <2>2 DEF NoTwins
  <2>4. ASSUME NEW q \in 1 .. Len(c)
        PROVE  c[q].hash = Hash[Name[c[q].key]] /\ Slot(c[q].hash, t.size) = i
    <3>1. c[q].key = o[q].key /\ c[q].hash = o[q].hash /\ q \in 1 .. Len(o)
      BY <1>6, <1>7
    <3> QED
      BY <1>4, <3>1
  <2> QED
    BY <1>6, <2>3, <2>4 DEF Fits
<1>10. Rewired(t, u, i, c)
  BY <1>8, <1>9, ChangedSound
<1>11. ToSet(c) = (ToSet(o) \ {x}) \cup {y}
  <2>1. ToSet(c) = {c[q] : q \in 1 .. Len(c)}
    BY <1>6, Members
  <2>2. ASSUME NEW z \in ToSet(c) PROVE z \in (ToSet(o) \ {x}) \cup {y}
    <3>1. PICK q \in 1 .. Len(c) : z = c[q]
      BY <2>1, <2>2
    <3>2. q # p => o[q] # x
      BY <1>4, <1>6, <3>1 DEF NoTwins
    <3> QED
      BY <1>4, <1>6, <3>1, <3>2
  <2>3. ASSUME NEW z \in ToSet(o), z # x PROVE z \in ToSet(c)
    BY <1>4, <1>6, <2>1, <2>3
  <2>4. y \in ToSet(c)
    BY <1>6, <2>1
  <2> QED
    BY <2>2, <2>3, <2>4
<1>12. x \in ToSet(o) /\ Slot(y.hash, t.size) = i
  BY <1>4, <1>5
<1>13. Entries(u) = (Entries(t) \ {x}) \cup {y} /\ x \in Entries(t)
  BY <1>4, <1>10, <1>11, <1>12 DEF Rewired
<1>14. Length(u) = Length(t)
  <2>1. Length(t) \in Nat /\ Length(u) = Length(t) + Len(c) - Len(o)
    BY <1>1, <1>10, LengthNat DEF Rewired
  <2> QED
    BY <1>4, <1>6, <2>1
<1>15. ASSUME NEW j \in 0 .. t.size - 1
       PROVE  /\ Len(u.table[j]) = Len(t.table[j])
              /\ \A q \in 1 .. Len(t.table[j]) : u.table[j][q].key = t.table[j][q].key
  <2>1. CASE j = i
    BY <1>6, <1>7, <1>10, <2>1 DEF Rewired
  <2>2. CASE j # i
    BY <1>10, <2>2 DEF Rewired
  <2> QED
    BY <2>1, <2>2
<1> QED
  BY <1>5, <1>10, <1>13, <1>14, <1>15 DEF Revalues, Rewired

\* A table without entries.
IsEmpty(t, n) ==
    /\ Sound(t) /\ t.size = n /\ Entries(t) = {} /\ Length(t) = 0 /\ t.nentries = 0
    /\ \A i \in 0 .. n - 1 : t.table[i] = <<>>

\* A new table is sound and empty.
LEMMA NewTableEmpty ==
    ASSUME NEW n, n \in Powers \cup {0}, NEW t, t = NewTable(n)
    PROVE  IsEmpty(t, n)
<1>1. /\ n \in Nat /\ t.size = n /\ t.nentries = 0
      /\ t.table = [i \in 0 .. n - 1 |-> <<>>]
      /\ t = [table |-> t.table, size |-> t.size, nentries |-> t.nentries]
  BY Sizes DEF NewTable
<1>2. t.table \in [0 .. t.size - 1 -> Seq(Entry)] /\ \A i \in 0 .. n - 1 : t.table[i] = <<>>
  BY <1>1
<1>3. Entries(t) = {}
  BY <1>1, <1>2 DEF Entries, ToSet
<1>4. Length(t) = 0
  BY <1>1, <1>2, LengthNat
<1>5. Placed(t) /\ \A i \in 0 .. n - 1 : NoTwins(t.table[i])
  BY <1>1, <1>2 DEF Placed, NoTwins
<1>6. Sound(t)
  BY <1>1, <1>2, <1>4, <1>5 DEF Sound
<1> QED
  BY <1>1, <1>2, <1>3, <1>4, <1>6 DEF IsEmpty

\* A table whose chains are all empty has no entry.
LEMMA NothingLeft ==
    ASSUME NEW t, Sound(t), \A i \in DOMAIN t.table : t.table[i] = <<>>
    PROVE  Entries(t) = {} /\ Length(t) = 0
<1>1. t.size \in Nat /\ t.table \in [0 .. t.size - 1 -> Seq(Entry)]
  BY Sizes DEF Sound
<1>2. Entries(t) = {}
  BY <1>1 DEF Entries, ToSet
<1> QED
  BY <1>1, <1>2, LengthNat

\* The least of some natural numbers.
LEMMA MinNat ==
    ASSUME NEW S, S \subseteq Nat, S # {}
    PROVE  Min(S) \in S /\ \A m \in S : Min(S) <= m
<1>1. PICK n \in S : \A m \in S : n <= m
  BY LeastNumber
<1> QED
  BY <1>1 DEF Min

\* hashtbl_resize() makes a power of two of any argument, not below it unless
\* the table may not grow further.
LEMMA TableSizes ==
    ASSUME NEW c, c \in Int, NEW n, n = TableSize(c)
    PROVE  n \in Powers /\ n \in Nat /\ n >= 1 /\ n <= MaxSize /\ (n >= c \/ n = MaxSize)
<1>1. MaxSize \in Powers /\ MaxSize \in Nat /\ MaxSize >= 1
  BY HashTblAssumption, Sizes
<1>2. 1 \in Powers
  BY <1>1 DEF Powers
<1>3. CASE c < 1
  BY <1>1, <1>2, <1>3 DEF TableSize
<1>4. CASE c >= 1 /\ c >= MaxSize
  BY <1>1, <1>4 DEF TableSize
<1>5. CASE c >= 1 /\ c < MaxSize
  <2> DEFINE S == {m \in Powers : c <= m}
  <2>1. S \subseteq Nat /\ MaxSize \in S
    <3>1. c <= MaxSize
      BY <1>1, <1>5
    <3>2. MaxSize \in S
      BY <1>1, <3>1
    <3>3. Powers \subseteq Nat
      BY Sizes
    <3> QED
      BY <3>2, <3>3
  <2>2. n = Min(S)
    BY <1>1, <1>5 DEF TableSize, roundup_to_next_power_of_2
  <2>3. n \in S
    <3> HIDE DEF S
    <3> QED
      BY <2>1, <2>2, MinNat
  <2> QED
    BY <2>3, Sizes
<1> QED
  BY <1>1, <1>3, <1>4, <1>5

-----------------------------------------------------------------------------
(* Searching.                                                              *)

\* The search for n ends at the entry e, the p-th of chain i.
Found(t, n, i, o, p, e) ==
    /\ i = Slot(Hash[n], t.size) /\ i \in 0 .. t.size - 1 /\ o = t.table[i]
    /\ p = find_entry(t, n) /\ p \in 1 .. Len(o) /\ Matches(t, n) = {p}
    /\ e = o[p] /\ e \in Entries(t) /\ Name[e.key] = n /\ hashtbl_lookup(t, n) = e.val

\* The places where a search stops.
LEMMA MatchesOf ==
    ASSUME NEW t, Sound(t), t.size > 0, NEW n \in Names,
           NEW i, i = Slot(Hash[n], t.size), NEW o, o = t.table[i]
    PROVE  /\ i \in 0 .. t.size - 1 /\ IsChain(t, i, o)
           /\ Matches(t, n) = {p \in 1 .. Len(o) : Name[o[p].key] = n}
<1>1. t.size \in Nat \ {0}
  BY Sizes DEF Sound
<1>2. i \in 0 .. t.size - 1
  BY <1>1, SlotRange, HashTblAssumption
<1>3. IsChain(t, i, o)
  BY <1>2, ChainOf
<1>4. DOMAIN o = 1 .. Len(o) /\ \A p \in 1 .. Len(o) : o[p].hash = Hash[Name[o[p].key]]
  BY <1>3 DEF IsChain
<1>5. Matches(t, n) = {p \in DOMAIN o : o[p].hash = Hash[n] /\ Name[o[p].key] = n}
  BY DEF Matches, Chain
<1>6. ASSUME NEW p \in 1 .. Len(o)
      PROVE  (o[p].hash = Hash[n] /\ Name[o[p].key] = n) <=> Name[o[p].key] = n
  BY <1>4
<1>7. Matches(t, n) = {p \in 1 .. Len(o) : o[p].hash = Hash[n] /\ Name[o[p].key] = n}
  BY <1>4, <1>5, Zenon
<1>8. Matches(t, n) = {p \in 1 .. Len(o) : Name[o[p].key] = n}
  BY <1>6, <1>7, Zenon
<1> QED
  BY <1>2, <1>3, <1>8, Zenon

\* A search that meets the name ends at the only entry of that name.
LEMMA PresentFound ==
    ASSUME NEW t, Sound(t), NEW n \in Names, Present(t, n)
    PROVE  \E i, o, p, e : Found(t, n, i, o, p, e)
<1>1. t.size > 0 /\ Matches(t, n) # {}
  BY DEF Present
<1>2. PICK i, o : i = Slot(Hash[n], t.size) /\ o = t.table[i]
  OBVIOUS
<1>3. /\ i \in 0 .. t.size - 1 /\ IsChain(t, i, o)
      /\ Matches(t, n) = {p \in 1 .. Len(o) : Name[o[p].key] = n}
  BY <1>1, <1>2, MatchesOf
<1>4. PICK p : p \in Matches(t, n)
  BY <1>1
<1>5. p \in 1 .. Len(o) /\ Name[o[p].key] = n
  BY <1>3, <1>4
<1>6. NoTwins(o) /\ o[p] \in Entries(t)
  BY <1>3, <1>5 DEF IsChain
<1>7. Matches(t, n) = {p}
  BY <1>3, <1>5, <1>6 DEF NoTwins
<1>8. find_entry(t, n) = p
  BY <1>5, <1>7, MinNat DEF find_entry
<1>9. hashtbl_lookup(t, n) = o[p].val
  BY <1>2, <1>8 DEF hashtbl_lookup, Chain
<1>10. Found(t, n, i, o, p, o[p])
  BY <1>2, <1>3, <1>5, <1>6, <1>7, <1>8, <1>9 DEF Found
<1> QED
  BY <1>10

\* Every entry is found.
LEMMA HeldFound ==
    ASSUME NEW t, Sound(t), NEW e \in Entries(t), NEW n, n = Name[e.key]
    PROVE  /\ n \in Names /\ Present(t, n) /\ hashtbl_lookup(t, n) = e.val
           /\ \E i, o, p : Found(t, n, i, o, p, e)
<1>1. PICK i, o : i = Slot(Hash[n], t.size) /\ o = t.table[i]
  OBVIOUS
<1>2. /\ e \in Entry /\ e.hash = Hash[n] /\ t.size \in Nat \ {0}
      /\ \E p \in 1 .. Len(o) : o[p] = e
  BY <1>1, EntryPlace
<1>3. n \in Names
  BY <1>2, HashTblAssumption DEF Entry
<1>4. /\ i \in 0 .. t.size - 1 /\ IsChain(t, i, o)
      /\ Matches(t, n) = {p \in 1 .. Len(o) : Name[o[p].key] = n}
  BY <1>1, <1>2, <1>3, MatchesOf
<1>5. PICK p \in 1 .. Len(o) : o[p] = e
  BY <1>2
<1>6. p \in Matches(t, n)
  BY <1>4, <1>5
<1>7. Present(t, n)
  BY <1>2, <1>6 DEF Present
<1>8. PICK j, c, q, d : Found(t, n, j, c, q, d)
  BY <1>3, <1>7, PresentFound
<1>9. q = p /\ j = i /\ c = o /\ d = e
  BY <1>1, <1>5, <1>6, <1>8 DEF Found
<1> QED
  BY <1>3, <1>7, <1>8, <1>9 DEF Found

-----------------------------------------------------------------------------
(* The entries as a set: what they mean, and who owns their objects.       *)

\* No two entries have equal keys, or share a value.
Distinct(H) == \A d, e \in H : Name[d.key] = Name[e.key] \/ d.val = e.val => d = e

\* The map that a set of entries stands for.
MapOf(H) == [n \in {Name[e.key] : e \in H} |-> (CHOOSE e \in H : Name[e.key] = n).val]

\* What lookups in two tables find.
Reads(t, u) ==
    [n \in {m \in Names : Present(t, m) \/ Present(u, m)} |->
        IF Present(t, n) THEN hashtbl_lookup(t, n) ELSE hashtbl_lookup(u, n)]

\* A name has the value of its entry.
LEMMA MapAt ==
    ASSUME NEW H, Distinct(H), NEW e \in H, NEW n, n = Name[e.key]
    PROVE  n \in DOMAIN MapOf(H) /\ MapOf(H)[n] = e.val
<1>1. PICK d : d = (CHOOSE x \in H : Name[x.key] = n)
  OBVIOUS
<1>2. d \in H /\ Name[d.key] = n
  BY <1>1
<1>3. d = e
  BY <1>2 DEF Distinct
<1> QED
  BY <1>1, <1>3 DEF MapOf

\* Lookups read the map of the entries.
LEMMA ReadsMap ==
    ASSUME NEW t, NEW u, Sound(t), Sound(u), NEW H, H = Entries(t) \cup Entries(u), Distinct(H)
    PROVE  Reads(t, u) = MapOf(H)
<1>1. ASSUME NEW n \in Names, Present(t, n) PROVE \E e \in H : Name[e.key] = n /\ hashtbl_lookup(t, n) = e.val
  <2>1. PICK i, o, p, e : Found(t, n, i, o, p, e)
    BY <1>1, PresentFound
  <2> QED
    BY <2>1 DEF Found
<1>2. ASSUME NEW n \in Names, Present(u, n) PROVE \E e \in H : Name[e.key] = n /\ hashtbl_lookup(u, n) = e.val
  <2>1. PICK i, o, p, e : Found(u, n, i, o, p, e)
    BY <1>2, PresentFound
  <2> QED
    BY <2>1 DEF Found
<1>3. ASSUME NEW e \in H PROVE Name[e.key] \in Names /\ (Present(t, Name[e.key]) \/ Present(u, Name[e.key]))
  BY HeldFound
<1>4. {m \in Names : Present(t, m) \/ Present(u, m)} = {Name[e.key] : e \in H}
  BY <1>1, <1>2, <1>3
<1>5. ASSUME NEW n \in Names, Present(t, n) \/ Present(u, n)
      PROVE  (IF Present(t, n) THEN hashtbl_lookup(t, n) ELSE hashtbl_lookup(u, n)) = MapOf(H)[n]
  <2>1. CASE Present(t, n)
    BY <1>1, <2>1, MapAt
  <2>2. CASE ~Present(t, n)
    BY <1>2, <1>5, <2>2, MapAt
  <2> QED
    BY <2>1, <2>2
<1>6. MapOf(H) = [n \in {Name[e.key] : e \in H} |-> MapOf(H)[n]]
  BY DEF MapOf
<1>7. Reads(t, u) = [n \in {m \in Names : Present(t, m) \/ Present(u, m)} |-> MapOf(H)[n]]
  BY <1>5 DEF Reads
<1> QED
  BY <1>4, <1>6, <1>7

\* Adding an entry, or one of another value in its place, stores a value.
LEMMA MapPut ==
    ASSUME NEW H, NEW I, Distinct(H), Distinct(I), NEW e \in I,
           \A d : d \in I /\ d # e => d \in H,
           \A d : d \in H => d \in I \/ Name[d.key] = Name[e.key],
           NEW n, n = Name[e.key]
    PROVE  MapOf(I) = [m \in DOMAIN MapOf(H) \cup {n} |-> IF m = n THEN e.val ELSE MapOf(H)[m]]
<1>1. DOMAIN MapOf(H) = {Name[d.key] : d \in H} /\ DOMAIN MapOf(I) = {Name[d.key] : d \in I}
  BY DEF MapOf
<1>2. DOMAIN MapOf(I) = DOMAIN MapOf(H) \cup {n}
  BY <1>1
<1>3. ASSUME NEW m \in DOMAIN MapOf(I)
      PROVE  MapOf(I)[m] = IF m = n THEN e.val ELSE MapOf(H)[m]
  <2>1. PICK d \in I : Name[d.key] = m
    BY <1>1
  <2>2. MapOf(I)[m] = d.val
    BY <2>1, MapAt
  <2>3. CASE m = n
    BY <2>1, <2>2, <2>3 DEF Distinct
  <2>4. CASE m # n
    <3>1. d \in H
      BY <2>1, <2>4
    <3>2. MapOf(H)[m] = d.val
      BY <2>1, <3>1, MapAt
    <3> QED
      BY <2>2, <2>4, <3>2
  <2> QED
    BY <2>3, <2>4
<1>4. MapOf(I) = [m \in DOMAIN MapOf(I) |-> MapOf(I)[m]]
  BY DEF MapOf
<1> QED
  BY <1>2, <1>3, <1>4

\* Taking an entry away takes its name away.
LEMMA MapDrop ==
    ASSUME NEW H, Distinct(H), NEW e \in H, NEW I, I = H \ {e}, NEW n, n = Name[e.key]
    PROVE  n \in DOMAIN MapOf(H) /\ MapOf(I) = Restrict(MapOf(H), DOMAIN MapOf(H) \ {n})
<1>0. Distinct(I)
  BY DEF Distinct
<1>1. DOMAIN MapOf(H) = {Name[d.key] : d \in H} /\ DOMAIN MapOf(I) = {Name[d.key] : d \in I}
  BY DEF MapOf
<1>2. \A d \in I : Name[d.key] # n
  BY DEF Distinct
<1>3. DOMAIN MapOf(I) = DOMAIN MapOf(H) \ {n} /\ n \in DOMAIN MapOf(H)
  BY <1>1, <1>2
<1>4. ASSUME NEW m \in DOMAIN MapOf(I) PROVE MapOf(I)[m] = MapOf(H)[m]
  <2>1. PICK d \in I : Name[d.key] = m
    BY <1>1
  <2>2. MapOf(I)[m] = d.val
    BY <1>0, <2>1, MapAt
  <2>3. MapOf(H)[m] = d.val
    BY <2>1, MapAt
  <2> QED
    BY <2>2, <2>3
<1>5. MapOf(I) = [m \in DOMAIN MapOf(I) |-> MapOf(I)[m]]
  BY DEF MapOf
<1> QED
  BY <1>3, <1>4, <1>5 DEF Restrict

-----------------------------------------------------------------------------

\* The objects of the entries are the ones the table owns.
Owned(H, ow) == \A o \in Keys \cup Vals : ow[o] = "table" <=> \E e \in H : o = e.key \/ o = e.val

Owners == [Keys \cup Vals -> {"client", "table", "freed"}]

\* n entries that share nothing, with what they own.
Single(H, ow, n) ==
    /\ H \subseteq Entry /\ Distinct(H) /\ Owned(H, ow) /\ ow \in Owners
    /\ IsFiniteSet(H) /\ Cardinality(H) = n

\* ow with the objects freed.
FreedIn(ow, objs) == [o \in Keys \cup Vals |-> IF o \in objs THEN "freed" ELSE ow[o]]

\* A key object is no value object.
LEMMA EntryObjects ==
    ASSUME NEW e \in Entry
    PROVE  /\ e.key \in Keys /\ e.val \in Vals /\ e.key \in Keys \cup Vals /\ e.val \in Keys \cup Vals
           /\ e.key \notin Vals /\ e.val \notin Keys /\ Name[e.key] \in Names
BY HashTblAssumption DEF Entry

\* A new entry takes over two objects of the client.
LEMMA SingleAdd ==
    ASSUME NEW H, NEW ow, NEW n, n \in Nat, Single(H, ow, n),
           NEW e \in Entry, \A d \in H : Name[d.key] # Name[e.key],
           ow[e.key] = "client", ow[e.val] = "client",
           NEW I, I = H \cup {e},
           NEW ov, ov = [ow EXCEPT ![e.key] = "table", ![e.val] = "table"]
    PROVE  Single(I, ov, n + 1)
<1>1. /\ H \subseteq Entry /\ Distinct(H) /\ Owned(H, ow) /\ ow \in Owners
      /\ IsFiniteSet(H) /\ Cardinality(H) = n
  BY DEF Single
<1>2. I \subseteq Entry /\ e \notin H
  BY <1>1
<1>3. IsFiniteSet(I) /\ Cardinality(I) = n + 1
  BY <1>1, <1>2, FS_AddElement
<1>4. \A d \in H : d.val # e.val
  BY <1>1, EntryObjects DEF Owned
<1>5. Distinct(I)
  BY <1>1, <1>4 DEF Distinct
<1>6. ov \in Owners
  BY <1>1, EntryObjects DEF Owners
<1>7. Owned(I, ov)
  <2> SUFFICES ASSUME NEW o \in Keys \cup Vals
               PROVE  ov[o] = "table" <=> \E d \in I : o = d.key \/ o = d.val
    BY DEF Owned
  <2>1. ov[o] = IF o = e.key \/ o = e.val THEN "table" ELSE ow[o]
    BY <1>1, EntryObjects DEF Owners
  <2>2. ow[o] = "table" <=> \E d \in H : o = d.key \/ o = d.val
    BY <1>1 DEF Owned
  <2> QED
    BY <2>1, <2>2
<1> QED
  BY <1>2, <1>3, <1>5, <1>6, <1>7 DEF Single

\* An entry goes with its objects.
LEMMA SingleDrop ==
    ASSUME NEW H, NEW ow, NEW n, n \in Nat, Single(H, ow, n), NEW e \in H,
           NEW I, I = H \ {e}, NEW ov, ov = FreedIn(ow, {e.key, e.val})
    PROVE  Single(I, ov, n - 1)
<1>1. /\ H \subseteq Entry /\ Distinct(H) /\ Owned(H, ow) /\ ow \in Owners
      /\ IsFiniteSet(H) /\ Cardinality(H) = n
  BY DEF Single
<1>2. I \subseteq Entry /\ e \in Entry
  BY <1>1
<1>3. IsFiniteSet(I) /\ Cardinality(I) = n - 1
  BY <1>1, FS_RemoveElement
<1>5. Distinct(I)
  BY <1>1 DEF Distinct
<1>6. ov \in Owners
  BY <1>1 DEF Owners, FreedIn
<1>7. Owned(I, ov)
  <2> SUFFICES ASSUME NEW o \in Keys \cup Vals
               PROVE  ov[o] = "table" <=> \E d \in I : o = d.key \/ o = d.val
    BY DEF Owned
  <2>1. ov[o] = IF o = e.key \/ o = e.val THEN "freed" ELSE ow[o]
    BY DEF FreedIn
  <2>2. ow[o] = "table" <=> \E d \in H : o = d.key \/ o = d.val
    BY <1>1 DEF Owned
  <2>3. \A d \in I : d.key # e.key /\ d.val # e.val
    BY <1>1 DEF Distinct
  <2>4. \A d \in I : d.key # e.val /\ d.val # e.key
    BY <1>2, EntryObjects
  <2> QED
    BY <2>1, <2>2, <2>3, <2>4
<1> QED
  BY <1>2, <1>3, <1>5, <1>6, <1>7 DEF Single

\* ow when x gets the value v.
Exchanged(ow, x, v) == [FreedIn(ow, {x.val}) EXCEPT ![v] = "table"]

\* A replaced value is freed, and the new one taken over.
LEMMA SingleReplace ==
    ASSUME NEW H, NEW ow, NEW n, n \in Nat, Single(H, ow, n), NEW x \in H,
           NEW v \in Vals, ow[v] = "client",
           NEW y, y = WithVal(x, v),
           NEW I, I = (H \ {x}) \cup {y},
           NEW ov, ov = Exchanged(ow, x, v)
    PROVE  Single(I, ov, n)
<1>1. /\ H \subseteq Entry /\ Distinct(H) /\ Owned(H, ow) /\ ow \in Owners
      /\ IsFiniteSet(H) /\ Cardinality(H) = n
  BY DEF Single
<1>2. I \subseteq Entry /\ x \in Entry /\ y \in Entry /\ y.key = x.key /\ y.val = v
  BY <1>1 DEF Entry, WithVal
<1>3. \A d \in H : d.val # v
  BY <1>1 DEF Owned
<1>4. y \notin H
  BY <1>2, <1>3
<1>5. IsFiniteSet(I) /\ Cardinality(I) = n
  <2>1. IsFiniteSet(H \ {x}) /\ Cardinality(H \ {x}) = n - 1 /\ y \notin H \ {x}
    BY <1>1, <1>4, FS_RemoveElement
  <2>2. IsFiniteSet(I) /\ Cardinality(I) = (n - 1) + 1
    BY <2>1, FS_AddElement
  <2> QED
    BY <2>2
<1>6. Distinct(I)
  BY <1>1, <1>2, <1>3 DEF Distinct
<1>7. ov \in Owners
  BY <1>1 DEF Owners, FreedIn, Exchanged
<1>8. Owned(I, ov)
  <2> SUFFICES ASSUME NEW o \in Keys \cup Vals
               PROVE  ov[o] = "table" <=> \E d \in I : o = d.key \/ o = d.val
    BY DEF Owned
  <2>1. ov[o] = IF o = v THEN "table" ELSE IF o = x.val THEN "freed" ELSE ow[o]
    BY DEF FreedIn, Exchanged
  <2>2. ow[o] = "table" <=> \E d \in H : o = d.key \/ o = d.val
    BY <1>1 DEF Owned
  <2>3. \A d \in H : d # x => d.val # x.val
    BY <1>1 DEF Distinct
  <2>4. \A d \in I : d.key # x.val
    BY <1>2, EntryObjects
  <2>5. x.val # v
    BY <1>3
  <2>6. CASE o = v
    BY <1>2, <2>1, <2>6
  <2>7. CASE o = x.val
    BY <1>2, <2>1, <2>3, <2>4, <2>5, <2>7
  <2>8. CASE o # v /\ o # x.val
    BY <1>2, <2>1, <2>2, <2>8
  <2> QED
    BY <2>6, <2>7, <2>8
<1> QED
  BY <1>2, <1>4, <1>5, <1>6, <1>7, <1>8 DEF Single

\* All entries go with their objects.
LEMMA SingleClear ==
    ASSUME NEW H, NEW ow, NEW n, Single(H, ow, n),
           NEW ov, ov = FreedIn(ow, {e.key : e \in H} \cup {e.val : e \in H})
    PROVE  Single({}, ov, 0)
<1>1. Owned(H, ow) /\ ow \in Owners
  BY DEF Single
<1>2. ov \in Owners
  BY <1>1 DEF Owners, FreedIn
<1>3. ASSUME NEW o \in Keys \cup Vals PROVE ov[o] # "table"
  <2>1. ov[o] = IF \E d \in H : o = d.key \/ o = d.val THEN "freed" ELSE ow[o]
    BY DEF FreedIn
  <2>2. ow[o] = "table" <=> \E d \in H : o = d.key \/ o = d.val
    BY <1>1 DEF Owned
  <2> QED
    BY <2>1, <2>2
<1>4. IsFiniteSet({}) /\ Cardinality({}) = 0
  BY FS_EmptySet
<1> QED
  BY <1>2, <1>3, <1>4 DEF Single, Distinct, Owned

\* An object that is not the table's changes hands.
LEMMA SingleReuse ==
    ASSUME NEW H, NEW ow, NEW n, Single(H, ow, n), NEW o \in Keys \cup Vals, ow[o] = "freed",
           NEW ov, ov = [ow EXCEPT ![o] = "client"]
    PROVE  Single(H, ov, n)
BY DEF Single, Owned, Owners

-----------------------------------------------------------------------------
(* Two tables: the one in use and the one that a resize fills.             *)

\* The two tables are sound and hold each entry once.
Whole(t, u, ow) ==
    /\ Sound(t) /\ Sound(u)
    /\ Entries(t) \cap Entries(u) = {}
    /\ Single(Entries(t) \cup Entries(u), ow, Length(t) + Length(u))

\* Numbers of entries are natural numbers, and so is their sum.
LEMMA SoundLength ==
    ASSUME NEW t, Sound(t)
    PROVE  /\ Length(t) \in Nat /\ t.nentries = Length(t) /\ t.size \in Nat /\ t.size \in Powers \cup {0}
           /\ t.table \in [0 .. t.size - 1 -> Seq(Entry)] /\ DOMAIN t.table = 0 .. t.size - 1
BY LengthNat, Sizes DEF Sound

\* A resize keeps every entry when it moves one.
LEMMA WholeMove ==
    ASSUME NEW t, NEW u, NEW ow, Whole(t, u, ow), u.size > 0,
           NEW i, i \in 0 .. t.size - 1, NEW o, o = t.table[i], o # <<>>,
           NEW r, r = unlink_entry(t, i, 1), NEW s, s = link_entry(u, Head(o))
    PROVE  /\ Whole(r, s, ow) /\ r.size = t.size /\ s.size = u.size
           /\ Entries(r) \cup Entries(s) = Entries(t) \cup Entries(u)
           /\ Length(r) + Length(s) = Length(t) + Length(u)
<1>1. /\ Sound(t) /\ Sound(u) /\ Entries(t) \cap Entries(u) = {}
      /\ Single(Entries(t) \cup Entries(u), ow, Length(t) + Length(u))
  BY DEF Whole
<1>2. IsChain(t, i, o)
  BY <1>1, ChainOf
<1>3. o \in Seq(Entry) /\ Len(o) \in Nat /\ Len(o) # 0
  BY <1>2, EmptySeq DEF IsChain
<1>4. PICK p, e : p = 1 /\ p \in 1 .. Len(o) /\ e = o[p]
  <2>1. 1 \in 1 .. Len(o)
    BY <1>3
  <2> QED
    BY <2>1
<1>5. Head(o) = e /\ e \in Entry /\ e \in Entries(t) /\ e.hash = Hash[Name[e.key]]
  BY <1>2, <1>3, <1>4 DEF IsChain
<1>6. Drops(t, r, e)
  BY <1>1, <1>4, Unlinked
<1>7. \A d \in Entries(u) : Name[d.key] # Name[e.key]
  BY <1>1, <1>5 DEF Single, Distinct
<1>8. Adds(u, s, e)
  BY <1>1, <1>5, <1>7, Linked
<1>9. /\ Entries(r) \cup Entries(s) = Entries(t) \cup Entries(u)
      /\ Entries(r) \cap Entries(s) = {}
  BY <1>1, <1>6, <1>8 DEF Drops, Adds
<1>10. Length(r) + Length(s) = Length(t) + Length(u)
  <2>1. /\ Length(t) \in Nat /\ Length(u) \in Nat
        /\ Length(r) = Length(t) - 1 /\ Length(s) = Length(u) + 1
    BY <1>1, <1>6, <1>8, SoundLength DEF Drops, Adds
  <2> QED
    BY <2>1
<1>11. Sound(r) /\ Sound(s) /\ r.size = t.size /\ s.size = u.size
  BY <1>6, <1>8 DEF Drops, Adds
<1>12. Whole(r, s, ow)
  BY <1>1, <1>9, <1>10, <1>11 DEF Whole
<1> QED
  BY <1>9, <1>10, <1>11, <1>12

\* Beside an empty table the other holds all entries.
LEMMA WholeAlone ==
    ASSUME NEW t, NEW u, NEW ow, NEW n, IsEmpty(u, n)
    PROVE  Whole(t, u, ow) <=> Sound(t) /\ Single(Entries(t), ow, Length(t))
<1>1. Sound(u) /\ Entries(u) = {} /\ Length(u) = 0
  BY DEF IsEmpty
<1>2. Entries(t) \cup Entries(u) = Entries(t) /\ Entries(t) \cap Entries(u) = {}
  BY <1>1
<1>3. Sound(t) => Length(t) + Length(u) = Length(t)
  BY <1>1, SoundLength
<1> QED
  BY <1>1, <1>2, <1>3 DEF Whole

\* The empty table may be either of the two.
LEMMA WholeSwap ==
    ASSUME NEW t, NEW u, NEW ow, Whole(t, u, ow), Entries(t) = {}, Length(t) = 0,
           NEW z, NEW n, IsEmpty(z, n)
    PROVE  Whole(u, z, ow)
<1>1. Sound(t) /\ Sound(u) /\ Single(Entries(t) \cup Entries(u), ow, Length(t) + Length(u))
  BY DEF Whole
<1>2. Entries(t) \cup Entries(u) = Entries(u) /\ Length(t) + Length(u) = Length(u)
  BY <1>1, SoundLength
<1> QED
  BY <1>1, <1>2, WholeAlone

\* A table in use is a map of its own.
LEMMA WholeAdd ==
    ASSUME NEW t, NEW u, NEW ow, NEW z, Whole(t, u, ow), IsEmpty(u, z), t.size > 0,
           NEW e \in Entry, e.hash = Hash[Name[e.key]],
           \A d \in Entries(t) : Name[d.key] # Name[e.key],
           ow[e.key] = "client", ow[e.val] = "client",
           NEW ov, ov = [ow EXCEPT ![e.key] = "table", ![e.val] = "table"],
           NEW r, r = link_entry(t, e)
    PROVE  Whole(r, u, ov) /\ Adds(t, r, e)
<1>1. Sound(t) /\ Single(Entries(t), ow, Length(t)) /\ Length(t) \in Nat
  BY WholeAlone, SoundLength
<1>2. Adds(t, r, e)
  BY <1>1, Linked
<1>3. Sound(r) /\ Entries(r) = Entries(t) \cup {e} /\ Length(r) = Length(t) + 1
  BY <1>2 DEF Adds
<1>4. Single(Entries(r), ov, Length(t) + 1)
  BY <1>1, <1>3, SingleAdd
<1> QED
  BY <1>2, <1>3, <1>4, WholeAlone

\* Removing an entry frees its objects.
LEMMA WholeDrop ==
    ASSUME NEW t, NEW u, NEW ow, NEW z, Whole(t, u, ow), IsEmpty(u, z),
           NEW n, NEW i, NEW o, NEW p, NEW e, Found(t, n, i, o, p, e),
           NEW ov, ov = FreedIn(ow, {e.key, e.val}),
           NEW r, r = unlink_entry(t, i, p)
    PROVE  Whole(r, u, ov) /\ Drops(t, r, e)
<1>1. Sound(t) /\ Single(Entries(t), ow, Length(t)) /\ Length(t) \in Nat
  BY WholeAlone, SoundLength
<1>2. i \in 0 .. t.size - 1 /\ o = t.table[i] /\ p \in 1 .. Len(o) /\ e = o[p]
  BY DEF Found
<1>3. Drops(t, r, e)
  BY <1>1, <1>2, Unlinked
<1>4. Sound(r) /\ Entries(r) = Entries(t) \ {e} /\ Length(r) = Length(t) - 1 /\ e \in Entries(t)
  BY <1>3 DEF Drops
<1>5. Single(Entries(r), ov, Length(t) - 1)
  BY <1>1, <1>4, SingleDrop
<1> QED
  BY <1>3, <1>4, <1>5, WholeAlone

\* Replacing a value frees the old one.
LEMMA WholeReplace ==
    ASSUME NEW t, NEW u, NEW ow, NEW z, Whole(t, u, ow), IsEmpty(u, z),
           NEW n, NEW i, NEW o, NEW p, NEW x, Found(t, n, i, o, p, x),
           NEW v \in Vals, ow[v] = "client",
           NEW y, y = WithVal(x, v), NEW ov, ov = Exchanged(ow, x, v),
           NEW r, r = [t EXCEPT !.table[i][p].val = v]
    PROVE  Whole(r, u, ov) /\ Revalues(t, r, x, y)
<1>1. Sound(t) /\ Single(Entries(t), ow, Length(t)) /\ Length(t) \in Nat
  BY WholeAlone, SoundLength
<1>2. i \in 0 .. t.size - 1 /\ o = t.table[i] /\ p \in 1 .. Len(o) /\ x = o[p]
  BY DEF Found
<1>3. Revalues(t, r, x, y)
  BY <1>1, <1>2, Revalued
<1>4. Sound(r) /\ Entries(r) = (Entries(t) \ {x}) \cup {y} /\ Length(r) = Length(t) /\ x \in Entries(t)
  BY <1>3 DEF Revalues
<1>5. Single(Entries(r), ov, Length(t))
  <2>1. PICK H, I, k : H = Entries(t) /\ I = Entries(r) /\ k = Length(t)
    OBVIOUS
  <2>2. k \in Nat /\ Single(H, ow, k) /\ x \in H /\ I = (H \ {x}) \cup {y}
    BY <1>1, <1>4, <2>1
  <2>3. Single(I, ov, k)
    BY <2>2, SingleReplace
  <2> QED
    BY <2>1, <2>3
<1> QED
  BY <1>3, <1>4, <1>5, WholeAlone

\* Clearing the table frees everything it holds.
LEMMA WholeClear ==
    ASSUME NEW t, NEW u, NEW ow, NEW z, Whole(t, u, ow), IsEmpty(u, z),
           NEW ov, ov = FreedIn(ow, {e.key : e \in Entries(t)} \cup {e.val : e \in Entries(t)}),
           NEW n, NEW r, IsEmpty(r, n)
    PROVE  Whole(r, u, ov)
<1>1. Sound(t) /\ Single(Entries(t), ow, Length(t))
  BY WholeAlone
<1>2. Single({}, ov, 0)
  BY <1>1, SingleClear
<1>3. Sound(r) /\ Entries(r) = {} /\ Length(r) = 0
  BY DEF IsEmpty
<1> QED
  BY <1>2, <1>3, WholeAlone

-----------------------------------------------------------------------------
(* The inductive invariant of the tables.                                  *)

Shape ==
    /\ max_load_factor \in 0 .. 100
    /\ resize_threshold \in Nat
    /\ auto_resize \in BOOLEAN
    /\ failed \in BOOLEAN
    /\ pc \in {"none", "idle", "resize", "move", "add"}
    /\ call \in {"none", "create", "resize", "insert"}
    /\ capacity \in Int
    /\ arg \in Keys \X Vals \cup {<<>>}

Held == Entries(h) \cup Entries(tmp)

\* What is known of the tables and of the call at each point of it.
Stages ==
    /\ pc = "none" => Entries(h) = {}
    /\ pc # "move" => tmp = NewTable(0)
    /\ pc = "move" => tmp.size > h.size /\ tmp.size = TableSize(capacity)
    /\ pc \in {"none", "idle"} <=> call = "none"
    /\ pc = "add" => call = "insert"
    /\ pc = "idle" => h.size > 0
    /\ call = "create" => h.size = 0
    /\ call \in {"resize", "insert"} => h.size > 0

\* The objects of an insertion in progress are still the caller's, and no entry
\* of that name has appeared.
Pending ==
    call = "insert" =>
        /\ arg \in Keys \X Vals
        /\ owner[arg[1]] = "client" /\ owner[arg[2]] = "client"
        /\ \A e \in Held : Name[e.key] # Name[arg[1]]
        /\ pc # "add" => capacity = 2 * h.size

Core == Shape /\ Whole(h, tmp, owner) /\ Stages /\ Pending

\* The threshold is a natural number.
LEMMA ThresholdNat ==
    ASSUME NEW c \in Nat, NEW load \in 0 .. 100
    PROVE  Threshold(c, load) \in Nat
<1>1. PICK x : x = c * load /\ x \in Nat
  <2>1. c * load \in Nat
    OBVIOUS
  <2> QED
    BY <2>1
<1>2. 2 * c * load = 2 * x
  BY <1>1
<1>3. (2 * x + 100) \div 200 \in Nat
  BY <1>1
<1> QED
  BY <1>2, <1>3 DEF Threshold

\* Outside of a move the second table is empty.
LEMMA TmpEmpty == Core /\ pc # "move" => IsEmpty(tmp, 0)
<1>1. ASSUME tmp = NewTable(0) PROVE IsEmpty(tmp, 0)
  BY <1>1, NewTableEmpty
<1> QED
  BY <1>1 DEF Core, Stages

\* The initial state satisfies it.
LEMMA CoreInit == Init => Core
<1> SUFFICES ASSUME Init PROVE Core
  OBVIOUS
<1>1. Shape
  <2>1. arg \in Keys \X Vals \cup {<<>>}
    BY DEF Init
  <2>2. max_load_factor \in 0 .. 100 /\ resize_threshold \in Nat /\ capacity \in Int
    BY DEF Init
  <2>3. auto_resize \in BOOLEAN /\ failed \in BOOLEAN
    BY DEF Init
  <2> QED
    BY <2>1, <2>2, <2>3 DEF Init, Shape
<1>2. IsEmpty(h, 0) /\ IsEmpty(tmp, 0)
  BY NewTableEmpty DEF Init
<1>3. Single({}, owner, 0)
  <2>1. IsFiniteSet({}) /\ Cardinality({}) = 0
    BY FS_EmptySet
  <2> QED
    BY <2>1 DEF Init, Single, Distinct, Owned, Owners
<1>4. Whole(h, tmp, owner)
  <2>1. Sound(h) /\ Entries(h) = {} /\ Length(h) = 0
    BY <1>2 DEF IsEmpty
  <2> QED
    BY <1>2, <1>3, <2>1, WholeAlone
<1>5. Stages /\ Pending
  BY <1>2 DEF Init, Stages, Pending, IsEmpty
<1> QED
  BY <1>1, <1>4, <1>5 DEF Core

\* hashtbl_create() makes a table without slots.
LEMMA CoreCreate ==
    ASSUME Core, NEW c \in Capacities, NEW load \in Loads, NEW auto \in BOOLEAN,
           hashtbl_create(c, load, auto)
    PROVE  Core'
<1>1. pc = "none" /\ pc' = "resize" /\ call' = "create" /\ h' = NewTable(0) /\ tmp' = tmp /\ owner' = owner
  BY DEF hashtbl_create
<1>2. IsEmpty(tmp, 0) /\ IsEmpty(h', 0)
  BY <1>1, TmpEmpty, NewTableEmpty
<1>3. Shape'
  <2>1. load \in Int /\ c \in Int
    BY HashTblAssumption
  <2>2. (IF load < 0 THEN 75 ELSE IF load > 100 THEN 100 ELSE load) \in 0 .. 100
    BY <2>1
  <2> QED
    BY <2>1, <2>2 DEF hashtbl_create, Core, Shape
<1>4. Whole(h', tmp', owner')
  <2>1. Whole(h, tmp, owner) /\ Entries(h) = {}
    BY <1>1 DEF Core, Stages
  <2>2. Single(Entries(h), owner, Length(h)) /\ Sound(h)
    BY <1>2, <2>1, WholeAlone
  <2>3. Length(h) = 0
    <3>1. Cardinality({}) = 0
      BY FS_EmptySet
    <3> QED
      BY <2>1, <2>2, <3>1 DEF Single
  <2>4. Sound(h') /\ Entries(h') = {} /\ Length(h') = 0
    BY <1>2 DEF IsEmpty
  <2>5. Single(Entries(h'), owner, Length(h'))
    BY <2>1, <2>2, <2>3, <2>4
  <2> QED
    BY <1>1, <1>2, <2>4, <2>5, WholeAlone
<1>5. Stages' /\ Pending'
  BY <1>1, <1>2 DEF Stages, Pending, Core, IsEmpty
<1> QED
  BY <1>3, <1>4, <1>5 DEF Core

\* hashtbl_resize() begins.
LEMMA CoreResize ==
    ASSUME Core, NEW c \in Capacities, hashtbl_resize(c)
    PROVE  Core'
<1>1. Shape'
  BY HashTblAssumption DEF hashtbl_resize, settings, Core, Shape
<1>2. Whole(h', tmp', owner')
  BY DEF hashtbl_resize, Core
<1>3. Stages' /\ Pending'
  BY DEF hashtbl_resize, Core, Stages, Pending
<1> QED
  BY <1>1, <1>2, <1>3 DEF Core

\* A resize that is not needed.
LEMMA CoreResizeKeeps == ASSUME Core, ResizeKeeps PROVE Core'
<1>1. Shape'
  BY DEF ResizeKeeps, Resized, Return, settings, Core, Shape
<1>2. Whole(h', tmp', owner')
  BY DEF ResizeKeeps, Core
<1>3. call # "create"
  <2>1. TableSize(capacity) >= 1 /\ TableSize(capacity) \in Nat /\ TableSize(capacity) <= h.size
    BY TableSizes DEF ResizeKeeps, Core, Shape
  <2> QED
    BY <2>1 DEF Core, Stages
<1>4. Stages'
  BY <1>3 DEF ResizeKeeps, Resized, Return, Core, Stages, Shape
<1>5. Pending'
  BY DEF ResizeKeeps, Resized, Return, Core, Pending, Held
<1> QED
  BY <1>1, <1>2, <1>4, <1>5 DEF Core

\* A resize without memory.
LEMMA CoreResizeFails == ASSUME Core, ResizeFails PROVE Core'
<1>1. Shape'
  BY DEF ResizeFails, Resized, Return, settings, Core, Shape
<1>2. Whole(h', tmp', owner')
  BY DEF ResizeFails, Core
<1>3. h.size = 0 => Entries(h) = {}
  <2>1. Sound(h)
    BY DEF Core, Whole
  <2> QED
    BY <2>1, EntryPlace
<1>4. Stages'
  BY <1>3 DEF ResizeFails, Resized, Return, Core, Stages, Shape
<1>5. Pending'
  BY DEF ResizeFails, Resized, Return, Core, Pending, Held
<1> QED
  BY <1>1, <1>2, <1>4, <1>5 DEF Core

\* The new table of a resize.
LEMMA CoreResizeStarts == ASSUME Core, ResizeStarts PROVE Core'
<1>1. Shape'
  BY DEF ResizeStarts, settings, Core, Shape
<1>2. /\ pc = "resize" /\ pc' = "move" /\ h' = h /\ owner' = owner
      /\ TableSize(capacity) > h.size /\ tmp' = NewTable(TableSize(capacity))
      /\ call' = call /\ capacity' = capacity /\ arg' = arg
  BY DEF ResizeStarts
<1>3. IsEmpty(tmp, 0) /\ IsEmpty(tmp', TableSize(capacity))
  <2>1. TableSize(capacity) \in Powers \cup {0}
    BY TableSizes DEF Core, Shape
  <2> QED
    BY <1>2, <2>1, TmpEmpty, NewTableEmpty
<1>4. Whole(h', tmp', owner')
  <2>1. Whole(h, tmp, owner)
    BY DEF Core
  <2> QED
    BY <1>2, <1>3, <2>1, WholeAlone
<1>5. Stages'
  BY <1>2, <1>3 DEF Core, Stages, IsEmpty
<1>6. Held' = Held
  BY <1>2, <1>3 DEF Held, IsEmpty
<1>7. Pending'
  BY <1>2, <1>6 DEF Core, Pending
<1> QED
  BY <1>1, <1>4, <1>5, <1>7 DEF Core

\* What a move of one entry does.
LEMMA MoveStep ==
    ASSUME Core, MoveEntry
    PROVE  /\ Whole(h', tmp', owner) /\ h'.size = h.size /\ tmp'.size = tmp.size
           /\ Held' = Held /\ Length(h)' + Length(tmp)' = Length(h) + Length(tmp)
<1>1. PICK i : i = Min(Unmoved) /\ tmp' = link_entry(tmp, Head(h.table[i])) /\ h' = unlink_entry(h, i, 1)
  BY DEF MoveEntry
<1>2. Sound(h) /\ Whole(h, tmp, owner)
  BY DEF Core, Whole
<1>3. h.size \in Nat /\ DOMAIN h.table = 0 .. h.size - 1
  BY <1>2, SoundLength
<1>4. i \in Unmoved
  <2>1. Unmoved \subseteq Nat /\ Unmoved # {}
    BY <1>3 DEF MoveEntry, Unmoved
  <2> QED
    BY <1>1, <2>1, MinNat
<1>5. i \in 0 .. h.size - 1 /\ h.table[i] # <<>>
  BY <1>3, <1>4 DEF Unmoved
<1>6. tmp.size > 0
  <2>1. tmp.size > h.size /\ tmp.size \in Nat
    BY <1>2, SoundLength DEF Core, Stages, MoveEntry, Whole
  <2> QED
    BY <1>3, <2>1
<1>7. PICK r, s, o : r = h' /\ s = tmp' /\ o = h.table[i]
  OBVIOUS
<1>8. r = unlink_entry(h, i, 1) /\ s = link_entry(tmp, Head(o)) /\ o # <<>>
  BY <1>1, <1>5, <1>7
<1>9. /\ Whole(r, s, owner) /\ r.size = h.size /\ s.size = tmp.size
      /\ Entries(r) \cup Entries(s) = Entries(h) \cup Entries(tmp)
      /\ Length(r) + Length(s) = Length(h) + Length(tmp)
  BY <1>2, <1>5, <1>6, <1>7, <1>8, WholeMove
<1> QED
  BY <1>7, <1>9 DEF Held

\* One entry moves.
LEMMA CoreMoveEntry == ASSUME Core, MoveEntry PROVE Core'
<1>1. /\ Whole(h', tmp', owner) /\ h'.size = h.size /\ tmp'.size = tmp.size /\ Held' = Held
  BY MoveStep
<1>2. Shape' /\ owner' = owner /\ pc' = pc /\ call' = call /\ capacity' = capacity /\ arg' = arg /\ pc = "move"
  BY DEF MoveEntry, settings, Core, Shape
<1>3. Stages'
  BY <1>1, <1>2 DEF Core, Stages
<1>4. Pending'
  BY <1>1, <1>2 DEF Core, Pending
<1> QED
  BY <1>1, <1>2, <1>3, <1>4 DEF Core

\* At the end of the move the old table is empty.
LEMMA MoveEndStep ==
    ASSUME Core, MoveEnds
    PROVE  /\ Entries(h) = {} /\ Length(h) = 0 /\ IsEmpty(tmp', 0) /\ h' = tmp
           /\ Whole(h', tmp', owner) /\ Held' = Held
<1>1. Whole(h, tmp, owner) /\ Sound(h)
  BY DEF Core, Whole
<1>2. \A i \in DOMAIN h.table : h.table[i] = <<>>
  BY DEF MoveEnds, Unmoved
<1>3. Entries(h) = {} /\ Length(h) = 0
  BY <1>1, <1>2, NothingLeft
<1>4. h' = tmp /\ tmp' = NewTable(0)
  BY DEF MoveEnds
<1>5. IsEmpty(tmp', 0)
  BY <1>4, NewTableEmpty
<1>6. Whole(h', tmp', owner)
  BY <1>1, <1>3, <1>4, <1>5, WholeSwap
<1>7. Held' = Held
  BY <1>3, <1>4, <1>5 DEF Held, IsEmpty
<1> QED
  BY <1>3, <1>4, <1>5, <1>6, <1>7

\* The move ends.
LEMMA CoreMoveEnds == ASSUME Core, MoveEnds PROVE Core'
<1>1. Whole(h', tmp', owner) /\ Held' = Held /\ IsEmpty(tmp', 0) /\ h' = tmp
  BY MoveEndStep
<1>2. owner' = owner /\ pc = "move" /\ tmp' = NewTable(0)
  BY DEF MoveEnds
<1>3. tmp.size \in Nat /\ h.size \in Nat
  BY SoundLength DEF Core, Whole
<1>4. Shape'
  <2>1. resize_threshold' \in Nat
    BY <1>3, ThresholdNat DEF MoveEnds, Core, Shape
  <2> QED
    BY <2>1 DEF MoveEnds, Resized, Return, Core, Shape
<1>5. h'.size > 0
  BY <1>1, <1>2, <1>3 DEF Core, Stages
<1>6. Stages'
  BY <1>1, <1>2, <1>5 DEF MoveEnds, Resized, Return, Core, Stages, Shape
<1>7. Pending'
  BY <1>1, <1>2 DEF MoveEnds, Resized, Return, Core, Pending
<1> QED
  BY <1>1, <1>2, <1>4, <1>6, <1>7 DEF Core

\* An insertion that finds the name changes one entry of the table.
LEMMA ReplaceStep ==
    ASSUME Core, NEW k \in Keys, NEW v \in Vals, InsertReplaces(k, v)
    PROVE  \E x, y : /\ y = WithVal(x, v) /\ Name[x.key] = Name[k]
                     /\ Revalues(h, h', x, y) /\ Whole(h', tmp', owner')
<1>1. PICK n : n = Name[k] /\ n \in Names
  BY HashTblAssumption
<1>2. Sound(h) /\ Present(h, n) /\ Whole(h, tmp, owner) /\ IsEmpty(tmp, 0) /\ tmp' = tmp
      /\ owner[v] = "client"
  BY <1>1, TmpEmpty DEF InsertReplaces, Offered, Core, Whole
<1>3. PICK i, o, p, x : Found(h, n, i, o, p, x)
  BY <1>1, <1>2, PresentFound
<1>4. i = Slot(Hash[n], h.size) /\ p = find_entry(h, n) /\ o = h.table[i] /\ x = o[p] /\ Name[x.key] = n
  BY <1>3 DEF Found
<1>5. PICK r, ov, y : r = h' /\ ov = owner' /\ y = WithVal(x, v)
  OBVIOUS
<1>6. r = [h EXCEPT !.table[i][p].val = v]
  BY <1>1, <1>4, <1>5 DEF InsertReplaces
<1>7. ov = Exchanged(owner, x, v)
  BY <1>1, <1>4, <1>5 DEF InsertReplaces, Exchanged, FreedIn, Freed
<1>8. Whole(r, tmp, ov) /\ Revalues(h, r, x, y)
  BY <1>2, <1>3, <1>5, <1>6, <1>7, WholeReplace
<1> QED
  BY <1>1, <1>2, <1>4, <1>5, <1>8

\* The value of an entry is replaced.
LEMMA CoreInsertReplaces ==
    ASSUME Core, NEW k \in Keys, NEW v \in Vals, InsertReplaces(k, v)
    PROVE  Core'
<1>1. PICK x, y : Revalues(h, h', x, y) /\ Whole(h', tmp', owner')
  BY ReplaceStep
<1>2. h'.size = h.size
  BY <1>1 DEF Revalues
<1>3. Shape' /\ pc = "idle" /\ pc' = pc /\ call' = call /\ tmp' = tmp
  BY DEF InsertReplaces, Offered, settings, Core, Shape
<1>4. Stages'
  BY <1>2, <1>3 DEF Core, Stages
<1>5. Pending'
  BY <1>3 DEF Core, Stages, Pending
<1> QED
  BY <1>1, <1>3, <1>4, <1>5 DEF Core

\* An insertion of a new name begins.
LEMMA CoreInsertNew ==
    ASSUME Core, NEW k \in Keys, NEW v \in Vals, InsertNew(k, v)
    PROVE  Core'
<1>1. /\ pc = "idle" /\ owner[k] = "client" /\ owner[v] = "client" /\ ~Present(h, Name[k])
      /\ arg' = <<k, v>> /\ call' = "insert" /\ h' = h /\ tmp' = tmp /\ owner' = owner
      /\ failed' = failed
      /\ pc' \in {"resize", "add"} /\ capacity' \in {capacity, 2 * h.size}
      /\ pc' # "add" => capacity' = 2 * h.size
  BY DEF InsertNew, Offered
<1>2. Sound(h) /\ Whole(h', tmp', owner') /\ h.size \in Nat /\ IsEmpty(tmp, 0)
  BY <1>1, SoundLength, TmpEmpty DEF Core, Whole
<1>3. Shape'
  <2>1. capacity' \in Int /\ arg' \in Keys \X Vals
    BY <1>1, <1>2 DEF Core, Shape
  <2> QED
    BY <1>1, <2>1 DEF InsertNew, settings, Core, Shape
<1>4. Stages'
  BY <1>1, <1>2 DEF Core, Stages
<1>5. \A e \in Entries(h) : Name[e.key] # Name[k]
  BY <1>1, <1>2, HeldFound
<1>6. Pending'
  <2>1. Held' = Entries(h)
    BY <1>1, <1>2 DEF Held, IsEmpty
  <2> QED
    BY <1>1, <1>5, <2>1 DEF Pending
<1> QED
  BY <1>2, <1>3, <1>4, <1>6 DEF Core

\* The entry of an insertion.
LEMMA AddStep ==
    ASSUME Core, InsertAdds
    PROVE  \E e : /\ arg \in Keys \X Vals /\ Name[e.key] = Name[arg[1]] /\ e.val = arg[2]
                  /\ Adds(h, h', e) /\ Whole(h', tmp', owner')
                  /\ \A d \in Entries(h) : Name[d.key] # Name[e.key]
<1>1. /\ pc = "add" /\ call = "insert" /\ IsEmpty(tmp, 0) /\ tmp' = tmp
      /\ arg \in Keys \X Vals /\ owner[arg[1]] = "client" /\ owner[arg[2]] = "client"
      /\ \A d \in Held : Name[d.key] # Name[arg[1]]
      /\ h.size > 0 /\ Whole(h, tmp, owner)
  BY TmpEmpty DEF InsertAdds, Core, Stages, Pending
<1>2. PICK e : e = [key |-> arg[1], val |-> arg[2], hash |-> Hash[Name[arg[1]]]]
  OBVIOUS
<1>3. e \in Entry /\ e.hash = Hash[Name[e.key]] /\ e.key = arg[1] /\ e.val = arg[2]
  BY <1>1, <1>2, HashTblAssumption DEF Entry
<1>4. PICK r, ov : r = h' /\ ov = owner'
  OBVIOUS
<1>5. r = link_entry(h, e) /\ ov = [owner EXCEPT ![e.key] = "table", ![e.val] = "table"]
  BY <1>2, <1>3, <1>4 DEF InsertAdds
<1>6. \A d \in Entries(h) : Name[d.key] # Name[e.key]
  BY <1>1, <1>3 DEF Held
<1>7. owner[e.key] = "client" /\ owner[e.val] = "client"
  BY <1>1, <1>3
<1>8. Whole(r, tmp, ov) /\ Adds(h, r, e)
  BY <1>1, <1>3, <1>5, <1>6, <1>7, WholeAdd
<1> QED
  BY <1>1, <1>3, <1>4, <1>6, <1>8

\* A new entry is linked.
LEMMA CoreInsertAdds == ASSUME Core, InsertAdds PROVE Core'
<1>1. PICK e : Adds(h, h', e) /\ Whole(h', tmp', owner')
  BY AddStep
<1>2. h'.size = h.size
  BY <1>1 DEF Adds
<1>3. Shape' /\ pc = "add" /\ pc' = "idle" /\ call' = "none" /\ tmp' = tmp
  BY DEF InsertAdds, Return, settings, Core, Shape
<1>4. Stages'
  BY <1>2, <1>3 DEF Core, Stages
<1>5. Pending'
  BY <1>3 DEF Pending
<1> QED
  BY <1>1, <1>3, <1>4, <1>5 DEF Core

\* The entry cannot be allocated.
LEMMA CoreInsertFails == ASSUME Core, InsertFails PROVE Core'
<1>0. /\ pc' = "idle" /\ call' = "none" /\ capacity' = 0 /\ arg' = <<>> /\ failed' = TRUE
      /\ UNCHANGED <<h, tmp, max_load_factor, resize_threshold, auto_resize, owner>>
  BY DEF InsertFails, Return, settings
<1>1. Shape'
  BY <1>0 DEF Core, Shape
<1>2. Whole(h', tmp', owner')
  BY DEF InsertFails, Core
<1>3. Stages' /\ Pending'
  BY DEF InsertFails, Return, Core, Stages, Pending
<1> QED
  BY <1>1, <1>2, <1>3 DEF Core

\* A removal takes one entry away.
LEMMA RemoveStep ==
    ASSUME Core, NEW n \in Names, hashtbl_remove(n)
    PROVE  \E e : Name[e.key] = n /\ Drops(h, h', e) /\ Whole(h', tmp', owner')
<1>1. Sound(h) /\ Present(h, n) /\ Whole(h, tmp, owner) /\ IsEmpty(tmp, 0) /\ tmp' = tmp
  BY TmpEmpty DEF hashtbl_remove, Core, Whole
<1>2. PICK i, o, p, e : Found(h, n, i, o, p, e)
  BY <1>1, PresentFound
<1>3. i = Slot(Hash[n], h.size) /\ p = find_entry(h, n) /\ o = h.table[i] /\ e = o[p] /\ Name[e.key] = n
  BY <1>2 DEF Found
<1>4. PICK r, ov : r = h' /\ ov = owner'
  OBVIOUS
<1>5. r = unlink_entry(h, i, p)
  BY <1>3, <1>4 DEF hashtbl_remove
<1>6. ov = FreedIn(owner, {e.key, e.val})
  BY <1>3, <1>4 DEF hashtbl_remove, FreedIn, Freed
<1>7. Whole(r, tmp, ov) /\ Drops(h, r, e)
  BY <1>1, <1>2, <1>5, <1>6, WholeDrop
<1> QED
  BY <1>1, <1>3, <1>4, <1>7

\* An entry is removed.
LEMMA CoreRemove ==
    ASSUME Core, NEW n \in Names, hashtbl_remove(n)
    PROVE  Core'
<1>1. PICK e : Drops(h, h', e) /\ Whole(h', tmp', owner')
  BY RemoveStep
<1>2. h'.size = h.size
  BY <1>1 DEF Drops
<1>3. Shape' /\ pc = "idle" /\ pc' = pc /\ call' = call /\ tmp' = tmp
  BY DEF hashtbl_remove, settings, Core, Shape
<1>4. Stages'
  BY <1>2, <1>3 DEF Core, Stages
<1>5. Pending'
  BY <1>3 DEF Core, Stages, Pending
<1> QED
  BY <1>1, <1>3, <1>4, <1>5 DEF Core

\* Clearing leaves an empty table of the same size.
LEMMA ClearStep ==
    ASSUME Core, pc = "idle", Cleared, tmp' = tmp
    PROVE  IsEmpty(h', h.size) /\ Whole(h', tmp', owner')
<1>1. Whole(h, tmp, owner) /\ IsEmpty(tmp, 0) /\ Sound(h)
  BY TmpEmpty DEF Core, Whole
<1>2. h.size \in Powers \cup {0} /\ h.nentries = Length(h) /\ Length(h) \in Nat
  BY <1>1, SoundLength
<1>3. h.nentries - Length(h) = 0
  BY <1>2
<1>4. h' = NewTable(h.size)
  BY <1>3 DEF Cleared, NewTable
<1>5. IsEmpty(h', h.size)
  BY <1>2, <1>4, NewTableEmpty
<1>6. PICK r, ov : r = h' /\ ov = owner'
  OBVIOUS
<1>7. ov = FreedIn(owner, {e.key : e \in Entries(h)} \cup {e.val : e \in Entries(h)})
  BY <1>6 DEF Cleared, FreedIn, Freed
<1>8. IsEmpty(r, h.size)
  BY <1>5, <1>6
<1>9. Whole(r, tmp, ov)
  BY <1>1, <1>7, <1>8, WholeClear
<1> QED
  BY <1>5, <1>6, <1>9

\* The table is cleared.
LEMMA CoreClear == ASSUME Core, hashtbl_clear PROVE Core'
<1>1. IsEmpty(h', h.size) /\ Whole(h', tmp', owner')
  BY ClearStep DEF hashtbl_clear
<1>2. Shape' /\ pc = "idle" /\ pc' = pc /\ call' = call /\ tmp' = tmp
  BY DEF hashtbl_clear, settings, Core, Shape
<1>3. Stages' /\ Pending'
  BY <1>1, <1>2 DEF Core, Stages, Pending, IsEmpty
<1> QED
  BY <1>1, <1>2, <1>3 DEF Core

\* The table is deleted.
LEMMA CoreDelete == ASSUME Core, hashtbl_delete PROVE Core'
<1>1. IsEmpty(h', h.size) /\ Whole(h', tmp', owner')
  BY ClearStep DEF hashtbl_delete
<1>2. Shape' /\ pc = "idle" /\ pc' = "none" /\ call' = call /\ tmp' = tmp
  BY DEF hashtbl_delete, settings, Core, Shape
<1>3. Stages' /\ Pending'
  BY <1>1, <1>2 DEF Core, Stages, Pending, IsEmpty
<1> QED
  BY <1>1, <1>2, <1>3 DEF Core

\* The iterator leaves the tables alone.
LEMMA CoreSame ==
    ASSUME Core, UNCHANGED <<h, tmp, settings, pc, call, capacity, arg, owner, failed>>
    PROVE  Core'
<1>1. Shape'
  BY DEF settings, Core, Shape
<1>2. Whole(h', tmp', owner')
  BY DEF Core
<1>3. Stages' /\ Pending'
  BY DEF Core, Stages, Pending, Held
<1> QED
  BY <1>1, <1>2, <1>3 DEF Core

\* A freed object is handed out again.
LEMMA CoreReuse ==
    ASSUME Core, NEW o \in Keys \cup Vals, Reuse(o)
    PROVE  Core'
<1>1. Shape' /\ h' = h /\ tmp' = tmp /\ pc' = pc /\ call' = call /\ pc \in {"none", "idle"}
  BY DEF Reuse, settings, Core, Shape
<1>2. Whole(h', tmp', owner')
  <2>1. PICK ov : ov = owner' /\ ov = [owner EXCEPT ![o] = "client"]
    BY DEF Reuse
  <2>2. owner[o] = "freed"
    BY DEF Reuse
  <2>3. Single(Entries(h) \cup Entries(tmp), ov, Length(h) + Length(tmp))
    BY <2>1, <2>2, SingleReuse DEF Core, Whole
  <2> QED
    BY <1>1, <2>1, <2>3 DEF Core, Whole
<1>3. Stages'
  BY <1>1, capacity' = capacity DEF Core, Stages, Reuse
<1>4. Pending'
  BY <1>1 DEF Core, Stages, Pending
<1> QED
  BY <1>1, <1>2, <1>3, <1>4 DEF Core

\* Every step keeps it.
LEMMA CoreNext == Core /\ [Next]_vars => Core'
<1> SUFFICES ASSUME Core, [Next]_vars PROVE Core'
  OBVIOUS
<1>1. CASE UNCHANGED vars
  BY <1>1, CoreSame DEF vars, settings
<1>2. CASE \E c \in Capacities, load \in Loads, auto \in BOOLEAN : hashtbl_create(c, load, auto)
  BY <1>2, CoreCreate
<1>3. CASE \E c \in Capacities : hashtbl_resize(c)
  BY <1>3, CoreResize
<1>4. CASE ResizeKeeps \/ ResizeFails \/ ResizeStarts
  BY <1>4, CoreResizeKeeps, CoreResizeFails, CoreResizeStarts
<1>5. CASE MoveEntry \/ MoveEnds
  BY <1>5, CoreMoveEntry, CoreMoveEnds
<1>6. CASE \E k \in Keys, v \in Vals : InsertReplaces(k, v) \/ InsertNew(k, v)
  BY <1>6, CoreInsertReplaces, CoreInsertNew
<1>7. CASE InsertAdds \/ InsertFails
  BY <1>7, CoreInsertAdds, CoreInsertFails
<1>8. CASE \E n \in Names : hashtbl_remove(n) \/ RemoveMisses(n)
  BY <1>8, CoreRemove, CoreSame DEF RemoveMisses
<1>9. CASE hashtbl_clear \/ hashtbl_delete
  BY <1>9, CoreClear, CoreDelete
<1>10. CASE hashtbl_iter_init \/ hashtbl_iter_next
  BY <1>10, CoreSame DEF hashtbl_iter_init, hashtbl_iter_next
<1>11. CASE \E o \in Keys \cup Vals : Reuse(o)
  BY <1>11, CoreReuse
<1> QED
  BY <1>1, <1>2, <1>3, <1>4, <1>5, <1>6, <1>7, <1>8, <1>9, <1>10, <1>11 DEF Next

\* The invariant holds in every state of the hash table.
LEMMA CoreAlways == Spec => []Core
BY CoreInit, CoreNext, PTL DEF Spec

\* An object that hashtbl_insert() took over is in exactly one entry, of the
\* old table or of the new, until it is freed with it: nothing is lost, shared
\* or freed twice by replacements, resizes, removals or failed allocations.
THEOREM HashTblOwnedOnce == Spec => []OwnedOnce
<1>1. Core => OwnedOnce
  <2> SUFFICES ASSUME Core PROVE OwnedOnce
    OBVIOUS
  <2>1. PICK H, n : H = Entries(h) \cup Entries(tmp) /\ n = Length(h) + Length(tmp)
    OBVIOUS
  <2>2. H \subseteq Entry /\ Distinct(H) /\ Owned(H, owner) /\ Cardinality(H) = n
    BY <2>1 DEF Core, Whole, Single
  <2>3. {o \in Keys \cup Vals : owner[o] = "table"} = {e.key : e \in H} \cup {e.val : e \in H}
    <3>1. \A e \in H : e.key \in Keys \cup Vals /\ e.val \in Keys \cup Vals
      BY <2>2, EntryObjects
    <3> QED
      BY <2>2, <3>1 DEF Owned
  <2>4. \A d, e \in H : d.key = e.key \/ d.val = e.val => d = e
    BY <2>2 DEF Distinct
  <2> QED
    BY <2>1, <2>2, <2>3, <2>4 DEF OwnedOnce
<1> QED
  BY <1>1, CoreAlways, PTL

-----------------------------------------------------------------------------
(* The table implements a map.                                             *)

\* What the caller sees in a state.
Seen(p, t, u) == IF p = "none" THEN [n \in {} |-> n] ELSE Reads(t, u)

\* It is the map of the entries.
LEMMA SeenMap ==
    ASSUME NEW p, NEW t, NEW u, NEW ow, Whole(t, u, ow), NEW H, H = Entries(t) \cup Entries(u),
           p = "none" => H = {}
    PROVE  Seen(p, t, u) = MapOf(H) /\ Distinct(H)
<1>1. Sound(t) /\ Sound(u) /\ Distinct(H)
  BY DEF Whole, Single
<1>2. Reads(t, u) = MapOf(H)
  BY <1>1, ReadsMap
<1>3. CASE p = "none"
  BY <1>1, <1>3 DEF Seen, MapOf
<1>4. CASE p # "none"
  BY <1>1, <1>2, <1>4 DEF Seen
<1> QED
  BY <1>3, <1>4

Dict == IF pc = "none" THEN [n \in {} |-> n] ELSE Contents

\* The refinement mapping gives the map of the entries.
LEMMA DictMap ==
    ASSUME Core, Core'
    PROVE  /\ Dict = MapOf(Held) /\ Distinct(Held)
           /\ Dict' = MapOf(Held') /\ Distinct(Held')
<1>1. Dict = Seen(pc, h, tmp) /\ Dict' = Seen(pc', h', tmp')
  BY DEF Dict, Seen, Reads, Contents
<1>2. Entries(NewTable(0)) = {}
  BY NewTableEmpty DEF IsEmpty
<1>3. (pc = "none" => Held = {}) /\ Held = Entries(h) \cup Entries(tmp) /\ Whole(h, tmp, owner)
  BY <1>2 DEF Core, Stages, Held
<1>4. (pc' = "none" => Held' = {}) /\ Held' = Entries(h') \cup Entries(tmp') /\ Whole(h', tmp', owner')
  BY <1>2 DEF Core, Stages, Held
<1>5. Seen(pc, h, tmp) = MapOf(Held) /\ Distinct(Held)
  BY <1>3, SeenMap
<1>6. Seen(pc', h', tmp') = MapOf(Held') /\ Distinct(Held')
  BY <1>4, SeenMap
<1> QED
  BY <1>1, <1>5, <1>6

\* I is H with e, in the place of the entry of that name if there is one.
Stores(H, I, e) ==
    /\ e \in I /\ e \in Entry
    /\ \A d : d \in I /\ d # e => d \in H
    /\ \A d : d \in H => d \in I \/ Name[d.key] = Name[e.key]

\* What a step does to the entries, and what it reports.
HeldChange ==
    \/ Held' = Held /\ ret' \in {ret, <<>>}
    \/ \E e : Stores(Held, Held', e) /\ ret' = <<"insert", Name[e.key], e.val>>
    \/ Held' = Held /\ \E n \in Names, v \in Vals : ret' = <<"no memory", n, v>>
    \/ \E e \in Held : /\ Held' = Held \ {e} /\ Name[e.key] \in Names
                       /\ ret' = <<"remove", Name[e.key]>>
    \/ /\ Held' = Held
       /\ \E n \in Names : (\A e \in Held : Name[e.key] # n) /\ ret' = <<"absent", n>>
    \/ Held' = {} /\ ret' = <<"clear">>

\* The set of entries changes only with the report of an insertion, a removal
\* or a clearing, and as reported.
LEMMA HeldSteps == Core /\ Core' /\ [Next]_vars => HeldChange
<1> SUFFICES ASSUME Core, Core', [Next]_vars PROVE HeldChange
  OBVIOUS
<1>0. ASSUME h' = h, tmp' = tmp, ret' \in {ret, <<>>} PROVE HeldChange
  BY <1>0 DEF HeldChange, Held
<1>e. /\ pc # "move" => Entries(tmp) = {}
      /\ \A t : t = NewTable(0) => Entries(t) = {}
      /\ Held' \subseteq Entry /\ Held \subseteq Entry
  <2>1. pc # "move" => Entries(tmp) = {}
    BY TmpEmpty DEF IsEmpty
  <2>2. \A t : t = NewTable(0) => Entries(t) = {}
    BY NewTableEmpty DEF IsEmpty
  <2> QED
    BY <2>1, <2>2 DEF Core, Whole, Single, Held
<1>1. CASE UNCHANGED vars
  BY <1>0, <1>1 DEF vars
<1>2. CASE \E c \in Capacities, load \in Loads, auto \in BOOLEAN : hashtbl_create(c, load, auto)
  <2>1. pc = "none" /\ h' = NewTable(0) /\ tmp' = tmp /\ ret' = <<>>
    BY <1>2 DEF hashtbl_create
  <2>2. Held = {} /\ Held' = {}
    BY <1>e, <2>1 DEF Held, Core, Stages
  <2> QED
    BY <2>1, <2>2 DEF HeldChange
<1>3. CASE \E c \in Capacities : hashtbl_resize(c)
  BY <1>0, <1>3 DEF hashtbl_resize
<1>4. CASE ResizeKeeps \/ ResizeFails
  BY <1>0, <1>4 DEF ResizeKeeps, ResizeFails
<1>5. CASE ResizeStarts
  <2>1. pc # "move" /\ h' = h /\ tmp' = NewTable(TableSize(capacity)) /\ ret' = ret
    BY <1>5 DEF ResizeStarts
  <2>2. TableSize(capacity) \in Powers \cup {0}
    BY TableSizes DEF Core, Shape
  <2>3. Entries(tmp') = {}
    BY <2>1, <2>2, NewTableEmpty DEF IsEmpty
  <2>4. Held' = Held
    BY <1>e, <2>1, <2>3 DEF Held
  <2> QED
    BY <2>1, <2>4 DEF HeldChange
<1>6. CASE MoveEntry \/ MoveEnds
  <2>1. Held' = Held
    BY <1>6, MoveStep, MoveEndStep
  <2>2. ret' = ret
    BY <1>6 DEF MoveEntry, MoveEnds
  <2> QED
    BY <2>1, <2>2 DEF HeldChange
<1>7. ASSUME NEW k \in Keys, NEW v \in Vals, InsertReplaces(k, v) PROVE HeldChange
  <2>1. PICK x, y : y = WithVal(x, v) /\ Name[x.key] = Name[k] /\ Revalues(h, h', x, y)
    BY <1>7, ReplaceStep
  <2>2. pc # "move" /\ tmp' = tmp /\ ret' = <<"insert", Name[k], v>>
    BY <1>7 DEF InsertReplaces, Offered
  <2>3. Held = Entries(h) /\ Held' = (Held \ {x}) \cup {y} /\ y.key = x.key
    BY <1>e, <2>1, <2>2 DEF Held, Revalues
  <2>4. Stores(Held, Held', y)
    BY <1>e, <2>3 DEF Stores
  <2>5. y.key = x.key /\ y.val = v
    BY <2>1 DEF WithVal
  <2>6. ret' = <<"insert", Name[y.key], y.val>>
    BY <2>1, <2>2, <2>5
  <2> QED
    BY <2>4, <2>6 DEF HeldChange
<1>8. ASSUME NEW k \in Keys, NEW v \in Vals, InsertNew(k, v) PROVE HeldChange
  BY <1>0, <1>8 DEF InsertNew
<1>9. CASE InsertAdds
  <2>1. PICK e : Adds(h, h', e) /\ Name[e.key] = Name[arg[1]] /\ e.val = arg[2]
    BY <1>9, AddStep
  <2>2. pc # "move" /\ tmp' = tmp /\ ret' = <<"insert", Name[arg[1]], arg[2]>>
    BY <1>9 DEF InsertAdds
  <2>3. Held = Entries(h) /\ Held' = Held \cup {e}
    BY <1>e, <2>1, <2>2 DEF Held, Adds
  <2>4. Stores(Held, Held', e)
    BY <1>e, <2>3 DEF Stores
  <2>5. ret' = <<"insert", Name[e.key], e.val>>
    BY <2>1, <2>2
  <2> QED
    BY <2>4, <2>5 DEF HeldChange
<1>10. CASE InsertFails
  <2>1. h' = h /\ tmp' = tmp /\ pc = "add" /\ ret' = <<"no memory", Name[arg[1]], arg[2]>>
    BY <1>10 DEF InsertFails
  <2>2. arg \in Keys \X Vals
    BY <2>1 DEF Core, Stages, Pending
  <2>3. Name[arg[1]] \in Names /\ arg[2] \in Vals
    BY <2>2, HashTblAssumption
  <2>4. Held' = Held
    BY <2>1 DEF Held
  <2> QED
    BY <2>1, <2>3, <2>4 DEF HeldChange
<1>11. ASSUME NEW n \in Names, hashtbl_remove(n) PROVE HeldChange
  <2>1. PICK e : Name[e.key] = n /\ Drops(h, h', e)
    BY <1>11, RemoveStep
  <2>2. pc # "move" /\ tmp' = tmp /\ ret' = <<"remove", n>>
    BY <1>11 DEF hashtbl_remove
  <2>3. Held = Entries(h) /\ Held' = Held \ {e} /\ e \in Held
    BY <1>e, <2>1, <2>2 DEF Held, Drops
  <2> QED
    BY <2>1, <2>2, <2>3 DEF HeldChange
<1>12. CASE hashtbl_clear \/ hashtbl_delete
  <2>1. pc = "idle" /\ Cleared /\ tmp' = tmp /\ ret' = <<"clear">>
    BY <1>12 DEF hashtbl_clear, hashtbl_delete
  <2>2. IsEmpty(h', h.size)
    BY <2>1, ClearStep
  <2>3. Held' = {}
    BY <1>e, <2>1, <2>2 DEF Held, IsEmpty
  <2> QED
    BY <2>1, <2>3 DEF HeldChange
<1>13. CASE hashtbl_iter_init \/ hashtbl_iter_next
  BY <1>0, <1>13 DEF hashtbl_iter_init, hashtbl_iter_next
<1>14. CASE \E o \in Keys \cup Vals : Reuse(o)
  BY <1>0, <1>14 DEF Reuse
<1>15. ASSUME NEW n \in Names, RemoveMisses(n) PROVE HeldChange
  <2>1. pc = "idle" /\ ~Present(h, n) /\ h' = h /\ tmp' = tmp /\ ret' = <<"absent", n>>
    BY <1>15 DEF RemoveMisses
  <2>2. Held' = Held /\ Held = Entries(h)
    BY <1>e, <2>1 DEF Held
  <2>3. \A e \in Entries(h) : Name[e.key] # n
    BY <2>1, HeldFound DEF Core, Whole
  <2> QED
    BY <2>1, <2>2, <2>3 DEF HeldChange
<1> QED
  BY <1>1, <1>2, <1>3, <1>4, <1>5, <1>6, <1>7, <1>8, <1>9, <1>10, <1>11, <1>12, <1>13, <1>14, <1>15 DEF Next

\* The initial table is an empty map.
LEMMA RefinesInit == Init => Abstract!Init
BY DEF Init, Abstract!Init, Abstract!NoEntry

\* Every step of the table is a step of the map, or no step of it.
LEMMA RefinesNext == Core /\ Core' /\ [Next]_vars => [Abstract!Next]_<<Dict, ret>>
<1> SUFFICES ASSUME Core, Core', [Next]_vars PROVE Abstract!Next \/ (Dict' = Dict /\ ret' = ret)
  OBVIOUS
<1>1. Dict = MapOf(Held) /\ Distinct(Held) /\ Dict' = MapOf(Held') /\ Distinct(Held')
  BY DictMap
<1>2. HeldChange
  BY HeldSteps
<1>3. CASE Held' = Held /\ ret' \in {ret, <<>>}
  <2>1. Dict' = Dict
    BY <1>1, <1>3
  <2>2. ret' = <<>> => Abstract!Other
    BY <2>1 DEF Abstract!Other, Dict
  <2> QED
    BY <1>3, <2>1, <2>2 DEF Abstract!Next
<1>4. ASSUME NEW e, Stores(Held, Held', e), ret' = <<"insert", Name[e.key], e.val>> PROVE Abstract!Next
  <2>1. Name[e.key] \in Names /\ e.val \in Vals
    BY <1>4, EntryObjects DEF Stores
  <2>2. PICK n : n = Name[e.key]
    OBVIOUS
  <2>3. PICK H, I : H = Held /\ I = Held'
    OBVIOUS
  <2>4. /\ Distinct(H) /\ Distinct(I) /\ e \in I
        /\ \A d : d \in I /\ d # e => d \in H
        /\ \A d : d \in H => d \in I \/ Name[d.key] = Name[e.key]
    BY <1>1, <1>4, <2>3 DEF Stores
  <2>5. MapOf(I) = [m \in DOMAIN MapOf(H) \cup {n} |-> IF m = n THEN e.val ELSE MapOf(H)[m]]
    BY <2>2, <2>4, MapPut
  <2>6. Dict' = [m \in DOMAIN Dict \cup {n} |-> IF m = n THEN e.val ELSE Dict[m]]
    BY <1>1, <2>3, <2>5
  <2>7. Abstract!Insert(n, e.val)
    BY <1>4, <2>2, <2>6 DEF Abstract!Insert, Dict
  <2> QED
    BY <2>1, <2>2, <2>7 DEF Abstract!Next
<1>5. ASSUME NEW e \in Held, Held' = Held \ {e}, Name[e.key] \in Names, ret' = <<"remove", Name[e.key]>>
      PROVE  Abstract!Next
  <2>1. PICK n : n = Name[e.key]
    OBVIOUS
  <2>2. n \in DOMAIN MapOf(Held) /\ MapOf(Held') = Restrict(MapOf(Held), DOMAIN MapOf(Held) \ {n})
    BY <1>1, <1>5, <2>1, MapDrop
  <2>3. n \in DOMAIN Dict /\ Dict' = [m \in DOMAIN Dict \ {n} |-> Dict[m]]
    BY <1>1, <2>2 DEF Restrict
  <2>4. Abstract!Remove(n)
    BY <1>5, <2>1, <2>3 DEF Abstract!Remove, Abstract!Restrict, Dict
  <2> QED
    BY <1>5, <2>1, <2>4 DEF Abstract!Next
<1>6. CASE Held' = {} /\ ret' = <<"clear">>
  <2>1. Dict' = [n \in {} |-> n]
    BY <1>1, <1>6 DEF MapOf
  <2>2. Abstract!Clear
    BY <1>6, <2>1 DEF Abstract!Clear, Abstract!NoEntry, Dict
  <2> QED
    BY <2>2 DEF Abstract!Next
<1>7. ASSUME Held' = Held, NEW n \in Names, NEW v \in Vals, ret' = <<"no memory", n, v>>
      PROVE  Abstract!Next
  <2>1. Dict' = Dict
    BY <1>1, <1>7
  <2>2. Abstract!InsertFails(n, v)
    BY <1>7, <2>1 DEF Abstract!InsertFails, Dict
  <2> QED
    BY <2>2 DEF Abstract!Next
<1>8. ASSUME Held' = Held, NEW n \in Names, \A e \in Held : Name[e.key] # n, ret' = <<"absent", n>>
      PROVE  Abstract!Next
  <2>1. Dict' = Dict
    BY <1>1, <1>8
  <2>2. n \notin DOMAIN Dict
    BY <1>1, <1>8 DEF MapOf
  <2>3. Abstract!RemoveMisses(n)
    BY <1>8, <2>1, <2>2 DEF Abstract!RemoveMisses, Dict
  <2> QED
    BY <2>3 DEF Abstract!Next
<1> QED
  BY <1>2, <1>3, <1>4, <1>5, <1>6, <1>7, <1>8 DEF HeldChange

\* The hash table implements Dictionary: what lookups find changes only in the
\* step in which an insertion, a removal or a clearing reports its success, to
\* what that call with its arguments makes of a map.  An insertion that reports
\* a failed allocation, a removal that finds nothing and a resize, whatever of
\* it fails and between any two entries it moves, change nothing.
THEOREM HashTblImplementsDictionary == Spec => ImplementsDictionary
<1>1. Core /\ Core' /\ [Next]_vars
      => [Abstract!Next]_<<IF pc = "none" THEN [n \in {} |-> n] ELSE Contents, ret>>
  BY RefinesNext DEF Dict
<1> QED
  BY <1>1, RefinesInit, CoreAlways, PTL DEF Spec, ImplementsDictionary, Abstract!Spec

-----------------------------------------------------------------------------
(* The load of a table that grows by itself.                               *)

Growing == pc # "none" /\ auto_resize /\ ~failed /\ h.size < MaxSize /\ max_load_factor >= 50

\* The entry that InsertAdds is going to link.
Adding == IF pc = "add" THEN 1 ELSE 0

\* The number of entries, the announced one included.
Count == Length(h) + Length(tmp) + Adding

Bounded == 100 * Count <= max_load_factor * h.size + 100

Loading ==
    /\ h.size > 0 => resize_threshold = Threshold(h.size, max_load_factor)
    /\ Growing => Bounded

\* A larger table may hold more.
LEMMA LoadGrows ==
    ASSUME NEW l \in Nat, NEW s \in Nat, NEW t \in Nat, s <= t
    PROVE  l * s \in Nat /\ l * t \in Nat /\ l * s <= l * t
<1>1. PICK d \in Nat : t = s + d
  <2>1. t - s \in Nat /\ t = s + (t - s)
    OBVIOUS
  <2> QED
    BY <2>1
<1>2. l * s \in Nat /\ l * d \in Nat
  OBVIOUS
<1>3. l * t = l * s + l * d
  BY <1>1
<1> QED
  BY <1>2, <1>3

\* A table of at least twice the size has room for one entry more.
LEMMA LoadDoubles ==
    ASSUME NEW l \in 50 .. 100, NEW s \in Nat \ {0}, NEW t \in Nat, 2 * s <= t,
           NEW n \in Nat, 100 * n <= l * s + 100
    PROVE  100 * (n + 1) <= l * t + 100
<1>1. l * (2 * s) \in Nat /\ l * t \in Nat /\ l * (2 * s) <= l * t
  BY LoadGrows, 2 * s \in Nat
<1>2. PICK x : x = l * s /\ x \in Nat
  <2>1. l * s \in Nat
    OBVIOUS
  <2> QED
    BY <2>1
<1>3. l * (2 * s) = 2 * x
  BY <1>2
<1>4. 100 * n <= 2 * x
  <2>1. CASE x >= 100
    BY <1>2, <2>1
  <2>2. CASE x < 100
    <3>1. s = 1
      <4>1. s >= 2 => l * 2 <= l * s
        BY LoadGrows
      <4> QED
        BY <1>2, <2>2, <4>1
    <3>2. x = l
      BY <1>2, <3>1
    <3>3. n <= 1
      BY <1>2, <2>2
    <3> QED
      BY <3>2, <3>3
  <2> QED
    BY <1>2, <2>1, <2>2
<1> QED
  BY <1>1, <1>3, <1>4

\* Below the threshold there is room for one entry more.
LEMMA LoadThreshold ==
    ASSUME NEW l \in 0 .. 100, NEW s \in Nat, NEW n \in Nat, n < Threshold(s, l)
    PROVE  100 * (n + 1) <= l * s + 100
<1>1. PICK x : x = s * l /\ x \in Nat
  <2>1. s * l \in Nat
    OBVIOUS
  <2> QED
    BY <2>1
<1>2. 2 * s * l = 2 * x /\ l * s = x
  BY <1>1
<1>3. PICK d : d = (2 * x + 100) \div 200
  OBVIOUS
<1>4. d \in Nat /\ 200 * d <= 2 * x + 100
  BY <1>1, <1>3
<1>5. n < d
  BY <1>2, <1>3 DEF Threshold
<1>6. 100 * (n + 1) <= x + 100
  BY <1>1, <1>4, <1>5
<1> QED
  BY <1>2, <1>6

\* Numbers that the arithmetic needs.
LEMMA CoreNumbers ==
    ASSUME Core
    PROVE  /\ Length(h) \in Nat /\ Length(tmp) \in Nat /\ h.size \in Nat /\ tmp.size \in Nat
           /\ h.nentries = Length(h) /\ tmp.nentries = Length(tmp)
           /\ Adding \in Nat /\ Count \in Nat /\ max_load_factor \in 0 .. 100
           /\ max_load_factor * h.size \in Nat
           /\ pc # "move" => Length(tmp) = 0
<1>1. Sound(h) /\ Sound(tmp)
  BY DEF Core, Whole
<1>2. /\ Length(h) \in Nat /\ Length(tmp) \in Nat /\ h.size \in Nat /\ tmp.size \in Nat
      /\ h.nentries = Length(h) /\ tmp.nentries = Length(tmp)
  BY <1>1, SoundLength
<1>3. Adding \in Nat
  BY DEF Adding
<1>4. Count \in Nat
  BY <1>2, <1>3 DEF Count
<1>5. max_load_factor \in 0 .. 100
  BY DEF Core, Shape
<1>6. max_load_factor * h.size \in Nat
  BY <1>2, <1>5
<1>7. pc # "move" => Length(tmp) = 0
  BY TmpEmpty DEF IsEmpty
<1> QED
  BY <1>2, <1>3, <1>4, <1>5, <1>6, <1>7

\* Steps that add nothing.
LEMMA LoadingKept ==
    ASSUME Core, Loading, UNCHANGED settings, h'.size = h.size,
           Growing' => Growing, Growing' => Count' \in Nat /\ Count' <= Count
    PROVE  Loading'
<1>1. /\ max_load_factor' = max_load_factor /\ resize_threshold' = resize_threshold
  BY DEF settings
<1>2. ASSUME Growing' PROVE Bounded'
  <2>1. 100 * Count <= max_load_factor * h.size + 100
    BY <1>2 DEF Loading, Bounded
  <2>2. Count \in Nat /\ max_load_factor * h.size \in Nat
    BY CoreNumbers
  <2>3. Count' \in Nat /\ Count' <= Count
    BY <1>2
  <2>4. 100 * Count' <= max_load_factor * h.size + 100
    BY <2>1, <2>2, <2>3
  <2> QED
    BY <1>1, <2>4 DEF Bounded
<1>3. h'.size > 0 => resize_threshold' = Threshold(h'.size, max_load_factor')
  BY <1>1 DEF Loading
<1> QED
  BY <1>2, <1>3 DEF Loading

\* The same numbers after a step.
LEMMA CountNext ==
    ASSUME Core'
    PROVE  /\ Length(h') \in Nat /\ Length(tmp') \in Nat /\ h'.size \in Nat
           /\ Count' \in Nat /\ Count' = Length(h') + Length(tmp') + Adding'
           /\ Adding' = IF pc' = "add" THEN 1 ELSE 0
<1>1. Sound(h') /\ Sound(tmp')
  BY DEF Core, Whole
<1>2. Length(h') \in Nat /\ Length(tmp') \in Nat /\ h'.size \in Nat
  BY <1>1, SoundLength
<1>3. Adding' = IF pc' = "add" THEN 1 ELSE 0
  BY DEF Adding
<1>4. Count' = Length(h') + Length(tmp') + Adding'
  BY DEF Count
<1> QED
  BY <1>2, <1>3, <1>4

\* A table without slots is not loaded.
LEMMA LoadingCreate ==
    ASSUME Core, Core', NEW c, NEW load, NEW auto, hashtbl_create(c, load, auto)
    PROVE  Loading'
<1>1. h' = NewTable(0) /\ tmp' = tmp /\ pc = "none" /\ pc' = "resize"
  BY DEF hashtbl_create
<1>2. IsEmpty(h', 0) /\ IsEmpty(tmp', 0)
  BY <1>1, TmpEmpty, NewTableEmpty
<1>3. h'.size = 0 /\ Length(h') = 0 /\ Length(tmp') = 0
  BY <1>2 DEF IsEmpty
<1>4. Count' = 0
  BY <1>1, <1>3, CountNext
<1>5. max_load_factor' \in 0 .. 100
  BY DEF Core, Shape
<1>6. 100 * Count' <= max_load_factor' * h'.size + 100
  <2>1. max_load_factor' * 0 = 0
    <3>1. \A l \in 0 .. 100 : l * 0 = 0
      OBVIOUS
    <3> QED
      BY <1>5, <3>1
  <2>2. max_load_factor' * h'.size = 0
    BY <1>3, <2>1
  <2> QED
    BY <1>4, <2>2
<1> QED
  BY <1>3, <1>6 DEF Loading, Bounded

\* One doubling keeps up with one insertion.
LEMMA LoadingMoveEnds ==
    ASSUME Core, Core', Loading, MoveEnds
    PROVE  Loading'
<1>1. /\ h' = tmp /\ Length(h) = 0 /\ IsEmpty(tmp', 0)
  BY MoveEndStep
<1>2. /\ pc = "move" /\ resize_threshold' = Threshold(tmp.size, max_load_factor)
      /\ max_load_factor' = max_load_factor /\ auto_resize' = auto_resize /\ failed' = failed
      /\ pc' = IF call = "insert" THEN "add" ELSE "idle"
  BY DEF MoveEnds, Resized, Return
<1>3. /\ Length(tmp) \in Nat /\ h.size \in Nat /\ tmp.size \in Nat /\ max_load_factor \in 0 .. 100
      /\ Count = Length(tmp)
  <2>1. /\ Length(tmp) \in Nat /\ h.size \in Nat /\ tmp.size \in Nat /\ max_load_factor \in 0 .. 100
    BY CoreNumbers
  <2> QED
    BY <1>1, <1>2, <2>1 DEF Count, Adding
<1>4. /\ tmp.size > h.size /\ tmp.size <= MaxSize /\ (tmp.size >= capacity \/ tmp.size = MaxSize)
      /\ (call = "insert" => capacity = 2 * h.size /\ h.size > 0)
  <2>1. tmp.size = TableSize(capacity) /\ capacity \in Int
    BY <1>2 DEF Core, Stages, Shape
  <2>2. tmp.size <= MaxSize /\ (tmp.size >= capacity \/ tmp.size = MaxSize)
    BY <2>1, TableSizes
  <2> QED
    BY <1>2, <2>2 DEF Core, Stages, Pending
<1>5. Count' = Length(tmp) + (IF call = "insert" THEN 1 ELSE 0)
  <2>1. Length(tmp') = 0 /\ Length(h') = Length(tmp)
    BY <1>1 DEF IsEmpty
  <2>2. Count' = Length(h') + Length(tmp') + Adding' /\ Adding' = IF pc' = "add" THEN 1 ELSE 0
    BY CountNext
  <2> QED
    BY <1>2, <1>3, <2>1, <2>2
<1>6. ASSUME Growing' PROVE Bounded'
  <2>1. tmp.size < MaxSize /\ max_load_factor >= 50 /\ auto_resize /\ ~failed
    BY <1>1, <1>2, <1>6 DEF Growing
  <2>2. MaxSize \in Nat /\ h.size < MaxSize
    BY <1>3, <1>4, <2>1, HashTblAssumption
  <2>3. Growing
    BY <1>2, <2>1, <2>2 DEF Growing
  <2>4. PICK l, s, t, n : l = max_load_factor /\ s = h.size /\ t = tmp.size /\ n = Length(tmp)
    OBVIOUS
  <2>5. l \in 50 .. 100 /\ s \in Nat /\ t \in Nat /\ n \in Nat /\ s <= t
    BY <1>3, <1>4, <2>1, <2>4
  <2>6. 100 * n <= l * s + 100
    BY <1>3, <2>3, <2>4 DEF Loading, Bounded
  <2>7. CASE call = "insert"
    <3>1. s \in Nat \ {0} /\ 2 * s <= t
      BY <1>4, <2>1, <2>4, <2>5, <2>7, HashTblAssumption
    <3>2. 100 * (n + 1) <= l * t + 100
      BY <2>5, <2>6, <3>1, LoadDoubles
    <3> QED
      BY <1>1, <1>2, <1>5, <2>4, <2>7, <3>2 DEF Bounded
  <2>8. CASE call # "insert"
    <3>1. l * s \in Nat /\ l * t \in Nat /\ l * s <= l * t
      BY <2>5, LoadGrows, l \in Nat
    <3>2. 100 * n <= l * t + 100
      BY <2>5, <2>6, <3>1
    <3>3. Count' = n
      BY <1>3, <1>5, <2>4, <2>8
    <3> QED
      BY <1>1, <1>2, <2>4, <3>2, <3>3 DEF Bounded
  <2> QED
    BY <2>7, <2>8
<1> QED
  BY <1>1, <1>2, <1>6 DEF Loading

\* An entry is announced below the threshold, or after a resize.
LEMMA LoadingInsertNew ==
    ASSUME Core, Core', Loading, NEW k, NEW v, InsertNew(k, v)
    PROVE  Loading'
<1>1. /\ pc = "idle" /\ h' = h /\ tmp' = tmp /\ UNCHANGED settings /\ failed' = failed
      /\ (pc' = "resize" \/ pc' = "add")
      /\ pc' = "add" => ~(auto_resize /\ h.nentries >= resize_threshold)
  BY DEF InsertNew, Offered
<1>2. h.size > 0
  BY <1>1 DEF Core, Stages
<1>3. /\ Length(h) \in Nat /\ h.nentries = Length(h) /\ h.size \in Nat /\ max_load_factor \in 0 .. 100
      /\ Length(tmp) = 0 /\ Count = Length(h)
  <2>1. /\ Length(h) \in Nat /\ h.nentries = Length(h) /\ h.size \in Nat /\ max_load_factor \in 0 .. 100
        /\ Length(tmp) = 0
    BY <1>1, CoreNumbers
  <2> QED
    BY <1>1, <2>1 DEF Count, Adding
<1>4. CASE pc' = "resize"
  <2>1. Growing' => Growing
    BY <1>1, <1>4 DEF Growing, settings
  <2>2. Count' = Count
    BY <1>1, <1>4 DEF Count, Adding
  <2>3. Count' \in Nat
    BY CountNext
  <2>4. Growing' => Count' \in Nat /\ Count' <= Count
    BY <2>2, <2>3
  <2> QED
    BY <1>1, <2>1, <2>4, LoadingKept
<1>5. CASE pc' = "add"
  <2>1. ASSUME Growing' PROVE Bounded'
    <3>1. auto_resize
      BY <1>1, <2>1 DEF Growing, settings
    <3>2. Length(h) < Threshold(h.size, max_load_factor)
      <4>1. resize_threshold = Threshold(h.size, max_load_factor) /\ resize_threshold \in Nat
        BY <1>2 DEF Loading, Core, Shape
      <4> QED
        BY <1>1, <1>3, <1>5, <3>1, <4>1
    <3>3. 100 * (Length(h) + 1) <= max_load_factor * h.size + 100
      BY <1>3, <3>2, LoadThreshold
    <3>4. Count' = Length(h) + 1
      <4>1. Count' = Length(h') + Length(tmp') + Adding' /\ Adding' = IF pc' = "add" THEN 1 ELSE 0
        BY CountNext
      <4> QED
        BY <1>1, <1>3, <1>5, <4>1
    <3> QED
      BY <1>1, <3>3, <3>4 DEF Bounded, settings
  <2>2. h'.size > 0 => resize_threshold' = Threshold(h'.size, max_load_factor')
    BY <1>1 DEF Loading, settings
  <2> QED
    BY <2>1, <2>2 DEF Loading
<1> QED
  BY <1>1, <1>4, <1>5

\* A resize that keeps the size is followed by an entry only in a table that
\* cannot grow.
LEMMA LoadingResizeKeeps ==
    ASSUME Core, Core', Loading, ResizeKeeps
    PROVE  Loading'
<1>1. /\ h' = h /\ tmp' = tmp /\ UNCHANGED settings /\ failed' = failed /\ pc = "resize"
      /\ TableSize(capacity) <= h.size
      /\ pc' = IF call = "insert" THEN "add" ELSE "idle"
  BY DEF ResizeKeeps, Resized, Return
<1>2. Growing' => Growing
  BY <1>1 DEF Growing, settings
<1>3. Growing' => call # "insert"
  <2> SUFFICES ASSUME Growing', call = "insert" PROVE FALSE
    OBVIOUS
  <2>1. capacity = 2 * h.size /\ h.size > 0 /\ capacity \in Int
    BY <1>1 DEF Core, Stages, Pending, Shape
  <2>2. h.size \in Nat /\ h.size < MaxSize /\ MaxSize \in Nat
    BY <1>1, CoreNumbers, HashTblAssumption DEF Growing
  <2>3. PICK n : n = TableSize(capacity) /\ n \in Nat /\ (n >= capacity \/ n = MaxSize)
    BY <2>1, TableSizes
  <2> QED
    BY <1>1, <2>1, <2>2, <2>3
<1>4. Growing' => Count' = Count
  BY <1>1, <1>3 DEF Count, Adding
<1>5. Growing' => Count' \in Nat /\ Count' <= Count
  BY <1>4, CoreNumbers
<1> QED
  BY <1>1, <1>2, <1>5, LoadingKept

\* The other steps link no entry that was not announced.
LEMMA LoadingNext == Core /\ Core' /\ Loading /\ [Next]_vars => Loading'
<1> SUFFICES ASSUME Core, Core', Loading, [Next]_vars PROVE Loading'
  OBVIOUS
<1>n. Length(h) \in Nat /\ Length(tmp) \in Nat /\ Adding \in Nat /\ Count = Length(h) + Length(tmp) + Adding
  BY CoreNumbers DEF Count
<1>m. /\ Length(h') \in Nat /\ Length(tmp') \in Nat /\ Adding' \in Nat /\ Count' \in Nat
      /\ Count' = Length(h') + Length(tmp') + Adding'
      /\ Adding' = IF pc' = "add" THEN 1 ELSE 0
  BY CountNext
<1>0. ASSUME h' = h, tmp' = tmp, pc' = pc, UNCHANGED settings, failed' = failed PROVE Loading'
  <2>1. Growing' => Growing
    BY <1>0 DEF Growing, settings
  <2>2. Count' = Count
    BY <1>0 DEF Count, Adding
  <2>3. Growing' => Count' \in Nat /\ Count' <= Count
    BY <1>m, <2>2
  <2> QED
    BY <1>0, <2>1, <2>3, LoadingKept
<1>f. ASSUME h' = h, UNCHANGED settings, failed' = TRUE PROVE Loading'
  BY <1>f DEF Loading, Growing, settings
<1>1. CASE UNCHANGED vars
  BY <1>0, <1>1 DEF vars, settings
<1>2. CASE \E c \in Capacities, load \in Loads, auto \in BOOLEAN : hashtbl_create(c, load, auto)
  BY <1>2, LoadingCreate
<1>3. CASE \E c \in Capacities : hashtbl_resize(c)
  <2>1. h' = h /\ tmp' = tmp /\ pc = "idle" /\ pc' = "resize" /\ UNCHANGED settings /\ failed' = failed
    BY <1>3 DEF hashtbl_resize
  <2>2. Growing' => Growing
    BY <2>1 DEF Growing, settings
  <2>3. Count' = Count
    BY <2>1 DEF Count, Adding
  <2>4. Growing' => Count' \in Nat /\ Count' <= Count
    BY <1>m, <2>3
  <2> QED
    BY <2>1, <2>2, <2>4, LoadingKept
<1>4. CASE ResizeKeeps
  BY <1>4, LoadingResizeKeeps
<1>5. CASE ResizeFails
  BY <1>f, <1>5 DEF ResizeFails
<1>6. CASE ResizeStarts
  <2>1. /\ h' = h /\ pc = "resize" /\ pc' = "move" /\ UNCHANGED settings /\ failed' = failed
        /\ tmp' = NewTable(TableSize(capacity))
    BY <1>6 DEF ResizeStarts
  <2>2. TableSize(capacity) \in Powers \cup {0}
    BY TableSizes DEF Core, Shape
  <2>3. Length(tmp') = 0 /\ Length(tmp) = 0
    BY <2>1, <2>2, NewTableEmpty, TmpEmpty DEF IsEmpty
  <2>4. Growing' => Growing
    BY <2>1 DEF Growing, settings
  <2>5. Count' = Count
    BY <2>1, <2>3 DEF Count, Adding
  <2>6. Growing' => Count' \in Nat /\ Count' <= Count
    BY <1>m, <2>5
  <2> QED
    BY <2>1, <2>4, <2>6, LoadingKept
<1>7. CASE MoveEntry
  <2>1. h'.size = h.size /\ Length(h') + Length(tmp') = Length(h) + Length(tmp)
    BY <1>7, MoveStep
  <2>2. pc = "move" /\ pc' = "move" /\ UNCHANGED settings /\ failed' = failed
    BY <1>7 DEF MoveEntry
  <2>3. Growing' => Growing
    BY <2>1, <2>2 DEF Growing, settings
  <2>4. Count' = Count
    BY <1>m, <1>n, <2>1, <2>2 DEF Adding
  <2>5. Growing' => Count' \in Nat /\ Count' <= Count
    BY <1>m, <2>4
  <2> QED
    BY <2>1, <2>2, <2>3, <2>5, LoadingKept
<1>8. CASE MoveEnds
  BY <1>8, LoadingMoveEnds
<1>9. ASSUME NEW k \in Keys, NEW v \in Vals, InsertReplaces(k, v) PROVE Loading'
  <2>1. PICK x, y : Revalues(h, h', x, y)
    BY <1>9, ReplaceStep
  <2>2. pc = "idle" /\ pc' = pc /\ tmp' = tmp /\ UNCHANGED settings /\ failed' = failed
    BY <1>9 DEF InsertReplaces, Offered
  <2>3. h'.size = h.size /\ Length(h') = Length(h)
    BY <2>1 DEF Revalues
  <2>4. Growing' => Growing
    BY <2>2, <2>3 DEF Growing, settings
  <2>5. Count' = Count
    BY <2>2, <2>3 DEF Count, Adding
  <2>6. Growing' => Count' \in Nat /\ Count' <= Count
    BY <1>m, <2>5
  <2> QED
    BY <2>2, <2>3, <2>4, <2>6, LoadingKept
<1>10. ASSUME NEW k \in Keys, NEW v \in Vals, InsertNew(k, v) PROVE Loading'
  BY <1>10, LoadingInsertNew
<1>11. CASE InsertAdds
  <2>1. PICK e : Adds(h, h', e)
    BY <1>11, AddStep
  <2>2. pc = "add" /\ pc' = "idle" /\ tmp' = tmp /\ UNCHANGED settings /\ failed' = failed
    BY <1>11 DEF InsertAdds, Return
  <2>3. h'.size = h.size /\ Length(h') = Length(h) + 1
    BY <2>1 DEF Adds
  <2>4. Growing' => Growing
    BY <2>2, <2>3 DEF Growing, settings
  <2>5. Count' = Count
    BY <1>m, <1>n, <2>2, <2>3 DEF Adding
  <2>6. Growing' => Count' \in Nat /\ Count' <= Count
    BY <1>m, <2>5
  <2> QED
    BY <2>2, <2>3, <2>4, <2>6, LoadingKept
<1>12. CASE InsertFails
  BY <1>f, <1>12 DEF InsertFails
<1>13. ASSUME NEW n \in Names, hashtbl_remove(n) PROVE Loading'
  <2>1. PICK e : Drops(h, h', e)
    BY <1>13, RemoveStep
  <2>2. pc = "idle" /\ pc' = pc /\ tmp' = tmp /\ UNCHANGED settings /\ failed' = failed
    BY <1>13 DEF hashtbl_remove
  <2>3. h'.size = h.size /\ Length(h') = Length(h) - 1
    BY <2>1 DEF Drops
  <2>4. Growing' => Growing
    BY <2>2, <2>3 DEF Growing, settings
  <2>5. Count' <= Count
    BY <1>m, <1>n, <2>2, <2>3 DEF Adding
  <2> QED
    BY <1>m, <2>2, <2>3, <2>4, <2>5, LoadingKept
<1>14. CASE hashtbl_clear \/ hashtbl_delete
  <2>1. /\ pc = "idle" /\ pc' \in {"idle", "none"} /\ Cleared /\ tmp' = tmp
        /\ UNCHANGED settings /\ failed' = failed
    BY <1>14 DEF hashtbl_clear, hashtbl_delete
  <2>2. IsEmpty(h', h.size)
    BY <2>1, ClearStep
  <2>3. h'.size = h.size /\ Length(h') = 0
    BY <2>2 DEF IsEmpty
  <2>4. Growing' => Growing
    BY <2>1, <2>3 DEF Growing, settings
  <2>5. Count' <= Count
    BY <1>m, <1>n, <2>1, <2>3 DEF Adding
  <2> QED
    BY <1>m, <2>1, <2>3, <2>4, <2>5, LoadingKept
<1>15. CASE hashtbl_iter_init \/ hashtbl_iter_next
  BY <1>0, <1>15 DEF hashtbl_iter_init, hashtbl_iter_next
<1>16. CASE \E o \in Keys \cup Vals : Reuse(o)
  BY <1>0, <1>16 DEF Reuse
<1>17. CASE \E n \in Names : RemoveMisses(n)
  BY <1>0, <1>17 DEF RemoveMisses
<1> QED
  BY <1>1, <1>2, <1>3, <1>4, <1>5, <1>6, <1>7, <1>8, <1>9, <1>10, <1>11, <1>12, <1>13, <1>14,
     <1>15, <1>16, <1>17 DEF Next

\* In the initial state there is no table.
LEMMA LoadingInit == Init => Loading
<1> SUFFICES ASSUME Init PROVE Loading
  OBVIOUS
<1>1. h.size = 0
  BY NewTableEmpty DEF Init, IsEmpty
<1>2. ~Growing
  BY DEF Init, Growing
<1> QED
  BY <1>1, <1>2 DEF Loading

-----------------------------------------------------------------------------
(* The order in which hashtbl_apply() and the iterator meet the names.     *)

\* Induction over the natural numbers, the property given as a set.
LEMMA NatSet ==
    ASSUME NEW P, 0 \in P, \A n \in Nat : n \in P => n + 1 \in P
    PROVE  \A n \in Nat : n \in P
<1> DEFINE Bad == Nat \ P
<1> SUFFICES ASSUME Bad # {} PROVE FALSE
  OBVIOUS
<1>1. PICK n \in Bad : \A m \in Bad : n <= m
  BY LeastNumber
<1>2. n # 0 /\ n - 1 \in Nat /\ n - 1 \notin Bad
  BY <1>1
<1> QED
  BY <1>1, <1>2

\* B[i] is the concatenation of the first i sequences of R.
Sections(R, B) ==
    /\ B \in [0 .. Len(R) -> Seq(Names)]
    /\ B[0] = <<>>
    /\ \A i \in 1 .. Len(R) : B[i] = B[i - 1] \o R[i]

Before(R) == CHOOSE B : Sections(R, B)

\* There are such concatenations.
LEMMA SectionsOf ==
    ASSUME NEW R, R \in Seq(Seq(Names))
    PROVE  Sections(R, Before(R))
<1> DEFINE Fun == [0 .. Len(R) -> Seq(Names)]
           UpTo(n) == \E B \in Fun : B[0] = <<>> /\ \A i \in 1 .. Len(R) : i <= n => B[i] = B[i - 1] \o R[i]
           P == {n \in Nat : UpTo(n)}
<1>0. Len(R) \in Nat /\ \A i \in 1 .. Len(R) : R[i] \in Seq(Names)
  OBVIOUS
<1>1. UpTo(0)
  <2> DEFINE B == [i \in 0 .. Len(R) |-> <<>>]
  <2>1. B \in Fun /\ B[0] = <<>>
    BY <1>0
  <2>2. \A i \in 1 .. Len(R) : i <= 0 => B[i] = B[i - 1] \o R[i]
    BY <1>0
  <2> HIDE DEF B
  <2> QED
    BY <2>1, <2>2
<1>2. ASSUME NEW n \in Nat, UpTo(n) PROVE UpTo(n + 1)
  <2>1. PICK B \in Fun : B[0] = <<>> /\ \A i \in 1 .. Len(R) : i <= n => B[i] = B[i - 1] \o R[i]
    BY <1>2
  <2> DEFINE C == [i \in 0 .. Len(R) |-> IF i = n + 1 THEN B[n] \o R[n + 1] ELSE B[i]]
  <2>2. C \in Fun
    <3>1. ASSUME NEW i \in 0 .. Len(R), i = n + 1 PROVE B[n] \o R[n + 1] \in Seq(Names)
      <4>1. n \in 0 .. Len(R) /\ n + 1 \in 1 .. Len(R)
        BY <1>0, <3>1
      <4>2. B[n] \in Seq(Names) /\ R[n + 1] \in Seq(Names)
        BY <1>0, <4>1
      <4> QED
        BY <4>2, ConcatProperties
    <3> QED
      BY <3>1
  <2>3. C[0] = <<>>
    BY <1>0, <2>1
  <2>4. ASSUME NEW i \in 1 .. Len(R), i <= n + 1 PROVE C[i] = C[i - 1] \o R[i]
    <3>1. i \in 0 .. Len(R) /\ i - 1 \in 0 .. Len(R) /\ i - 1 # n + 1
      BY <1>0, <2>4
    <3>2. CASE i = n + 1
      <4>1. C[i] = B[n] \o R[n + 1] /\ C[i - 1] = B[n] /\ i - 1 = n
        BY <3>1, <3>2
      <4> QED
        BY <3>2, <4>1
    <3>3. CASE i # n + 1
      <4>1. i <= n /\ C[i] = B[i] /\ C[i - 1] = B[i - 1]
        BY <2>4, <3>1, <3>3
      <4> QED
        BY <2>1, <4>1
    <3> QED
      BY <3>2, <3>3
  <2> HIDE DEF C
  <2> QED
    BY <2>2, <2>3, <2>4
<1> HIDE DEF UpTo
<1>3. UpTo(Len(R))
  <2>1. 0 \in P /\ \A n \in Nat : n \in P => n + 1 \in P
    BY <1>1, <1>2
  <2> HIDE DEF P
  <2>2. Len(R) \in P
    BY <1>0, <2>1, NatSet
  <2> QED
    BY <2>2 DEF P
<1>4. \E B : Sections(R, B)
  <2>1. PICK B \in Fun : B[0] = <<>> /\ \A i \in 1 .. Len(R) : i <= Len(R) => B[i] = B[i - 1] \o R[i]
    BY <1>3 DEF UpTo
  <2>2. ASSUME NEW i \in 1 .. Len(R) PROVE B[i] = B[i - 1] \o R[i]
    <3>1. i <= Len(R)
      BY <1>0
    <3> QED
      BY <2>1, <3>1
  <2>3. Sections(R, B)
    BY <2>1, <2>2 DEF Sections
  <2> QED
    BY <2>3
<1> QED
  BY <1>4, Zenon DEF Before

\* The last of them is what FlattenSeq() returns.
LEMMA FlattenIs ==
    ASSUME NEW R, R \in Seq(Seq(Names)), Len(R) # 0
    PROVE  FlattenSeq(R) = Before(R)[Len(R)]
<1> DEFINE Eq(f) == f = [i \in 1 .. Len(R) |-> IF i = 1 THEN R[i] ELSE f[i - 1] \o R[i]]
<1>0. Len(R) \in Nat /\ \A i \in 1 .. Len(R) : R[i] \in Seq(Names)
  OBVIOUS
<1>1. PICK B : B = Before(R)
  OBVIOUS
<1>2. Sections(R, B)
  BY <1>1, SectionsOf
<1>3. FlattenSeq(R) = (CHOOSE f : Eq(f))[Len(R)]
  BY Zenon DEF FlattenSeq
<1>4. B[0] = <<>> /\ \A i \in 1 .. Len(R) : B[i] = B[i - 1] \o R[i]
  BY <1>2 DEF Sections
<1>5. \A i \in 1 .. Len(R) : B[i] = IF i = 1 THEN R[i] ELSE B[i - 1] \o R[i]
  <2> TAKE i \in 1 .. Len(R)
  <2>1. CASE i = 1
    <3>1. B[i] = B[0] \o R[i] /\ R[i] \in Seq(Names)
      <4>1. i - 1 = 0
        BY <2>1
      <4>2. B[i] = B[i - 1] \o R[i]
        BY <1>4
      <4> QED
        BY <1>0, <4>1, <4>2
    <3>2. <<>> \o R[i] = R[i]
      BY <3>1, ConcatEmptySeq
    <3> QED
      BY <1>4, <2>1, <3>1, <3>2
  <2>2. CASE i # 1
    BY <1>4, <2>2
  <2> QED
    BY <2>1, <2>2
<1>6. Eq([i \in 1 .. Len(R) |-> B[i]])
  <2> DEFINE g == [i \in 1 .. Len(R) |-> B[i]]
  <2>1. \A i \in 1 .. Len(R) : i # 1 => i - 1 \in 1 .. Len(R)
    BY <1>0
  <2>2. \A i \in 1 .. Len(R) : g[i] = IF i = 1 THEN R[i] ELSE g[i - 1] \o R[i]
    BY <1>5, <2>1
  <2>3. g = [i \in 1 .. Len(R) |-> g[i]]
    OBVIOUS
  <2> HIDE DEF g
  <2>4. Eq(g)
    BY <2>2, <2>3
  <2> QED
    BY <2>4 DEF g
<1>7. PICK f : f = (CHOOSE x : Eq(x)) /\ Eq(f)
  BY <1>6, Zenon
<1>8. \A i \in 1 .. Len(R) : f[i] = IF i = 1 THEN R[i] ELSE f[i - 1] \o R[i]
  BY <1>7
<1> DEFINE P == {n \in Nat : n \in 1 .. Len(R) => f[n] = B[n]}
<1>9. 0 \in P
  OBVIOUS
<1>10. ASSUME NEW n \in Nat, n \in P PROVE n + 1 \in P
  <2>1. ASSUME n + 1 \in 1 .. Len(R) PROVE f[n + 1] = B[n + 1]
    <3>1. CASE n = 0
      BY <1>5, <1>8, <2>1, <3>1
    <3>2. CASE n # 0
      <4>1. n \in 1 .. Len(R) /\ (n + 1) - 1 = n /\ n + 1 # 1
        BY <1>0, <2>1, <3>2
      <4>2. f[n] = B[n]
        BY <1>10, <4>1
      <4>3. f[n + 1] = f[n] \o R[n + 1] /\ B[n + 1] = B[n] \o R[n + 1]
        BY <1>5, <1>8, <2>1, <4>1
      <4> QED
        BY <4>2, <4>3
    <3> QED
      BY <3>1, <3>2
  <2> QED
    BY <2>1
<1>11. Len(R) \in P
  <2> HIDE DEF P
  <2> QED
    BY <1>0, <1>9, <1>10, NatSet
<1>12. f[Len(R)] = B[Len(R)]
  BY <1>0, <1>11
<1> QED
  BY <1>1, <1>3, <1>7, <1>12

\* The successor of an index below the last.
LEMMA UpOne ==
    ASSUME NEW m \in Nat, NEW n \in 0 .. m, n < m
    PROVE  n + 1 \in 1 .. m /\ n + 1 \in 0 .. m /\ (n + 1) - 1 = n
OBVIOUS

\* Concatenation of sequences of names.
LEMMA NamesConcat ==
    /\ \A a, b \in Seq(Names) : a \o b \in Seq(Names)
    /\ \A a, b, c \in Seq(Names) : (a \o b) \o c = a \o (b \o c)
BY ConcatProperties, ConcatAssociative

\* B[j] is B[i] and more, or the same if only empty sequences lie between.
Grown(R, B, i, j) ==
    /\ \E u \in Seq(Names) : B[j] = B[i] \o u
    /\ (\A k \in i + 1 .. j : R[k] = <<>>) => B[j] = B[i]

\* A later concatenation extends an earlier one.
LEMMA SectionsGrow ==
    ASSUME NEW R, R \in Seq(Seq(Names)), NEW B, Sections(R, B),
           NEW i, i \in 0 .. Len(R), NEW j, j \in i .. Len(R)
    PROVE  Grown(R, B, i, j)
<1>0. Len(R) \in Nat /\ \A k \in 1 .. Len(R) : R[k] \in Seq(Names)
  OBVIOUS
<1>1. B \in [0 .. Len(R) -> Seq(Names)] /\ \A k \in 1 .. Len(R) : B[k] = B[k - 1] \o R[k]
  BY DEF Sections
<1> DEFINE Good(n) == /\ \E u \in Seq(Names) : B[n] = B[i] \o u
                      /\ (\A k \in i + 1 .. n : R[k] = <<>>) => B[n] = B[i]
           P == {n \in Nat : n \in i .. Len(R) => Good(n)}
<1>2. B[i] \in Seq(Names) /\ i \in Nat /\ j \in Nat
  <2>1. B[i] \in Seq(Names)
    BY <1>1
  <2>2. i \in Nat /\ j \in Nat
    OBVIOUS
  <2> QED
    BY <2>1, <2>2
<1>3. Good(i)
  <2>1. B[i] = B[i] \o <<>> /\ <<>> \in Seq(Names)
    BY <1>2, ConcatEmptySeq
  <2> QED
    BY <2>1
<1>4. ASSUME NEW n \in Nat, n \in i .. Len(R), n + 1 \in i .. Len(R), Good(n) PROVE Good(n + 1)
  <2>1. n + 1 \in 1 .. Len(R) /\ (n + 1) - 1 = n
    BY <1>0, <1>2, <1>4
  <2>2. B[n + 1] = B[n] \o R[n + 1] /\ R[n + 1] \in Seq(Names) /\ B[n] \in Seq(Names)
    <3>1. B[n + 1] = B[(n + 1) - 1] \o R[n + 1]
      BY <1>1, <2>1
    <3>2. n \in 0 .. Len(R)
      BY <1>0, <2>1
    <3> QED
      BY <1>0, <1>1, <2>1, <3>1, <3>2
  <2>3. PICK u \in Seq(Names) : B[n] = B[i] \o u
    BY <1>4
  <2>4. B[n + 1] = B[i] \o (u \o R[n + 1])
    <3>1. (B[i] \o u) \o R[n + 1] = B[i] \o (u \o R[n + 1])
      <4>1. PICK a, c : a = B[i] /\ c = R[n + 1]
        OBVIOUS
      <4>2. a \in Seq(Names) /\ c \in Seq(Names)
        BY <1>2, <2>2, <4>1
      <4>3. (a \o u) \o c = a \o (u \o c)
        BY <4>2, ConcatAssociative
      <4> QED
        BY <4>1, <4>3
    <3> QED
      BY <2>2, <2>3, <3>1
  <2>5. u \o R[n + 1] \in Seq(Names)
    BY <2>2, ConcatProperties
  <2>6. ASSUME \A k \in i + 1 .. n + 1 : R[k] = <<>> PROVE B[n + 1] = B[i]
    <3>1. n + 1 \in i + 1 .. n + 1 /\ \A k \in i + 1 .. n : k \in i + 1 .. n + 1
      BY <1>2, <1>4
    <3>2. R[n + 1] = <<>> /\ B[n] = B[i]
      BY <1>4, <2>6, <3>1
    <3>3. B[n] \o <<>> = B[n]
      BY <2>2, ConcatEmptySeq
    <3> QED
      BY <2>2, <3>2, <3>3
  <2> QED
    BY <2>4, <2>5, <2>6
<1> HIDE DEF Good
<1>5. 0 \in P
  <2>1. 0 \in i .. Len(R) => 0 = i
    BY <1>2
  <2> QED
    BY <1>3, <2>1
<1>6. ASSUME NEW n \in Nat, n \in P PROVE n + 1 \in P
  <2>1. ASSUME n + 1 \in i .. Len(R) PROVE Good(n + 1)
    <3>1. CASE n + 1 = i
      BY <1>3, <3>1
    <3>2. CASE n + 1 # i
      <4>1. n \in i .. Len(R)
        BY <1>0, <1>2, <2>1, <3>2
      <4> QED
        BY <1>4, <1>6, <2>1, <4>1
    <3> QED
      BY <3>1, <3>2
  <2> QED
    BY <2>1
<1>7. j \in P
  <2> HIDE DEF P
  <2> QED
    BY <1>2, <1>5, <1>6, NatSet
<1> QED
  BY <1>2, <1>7 DEF Good, Grown

\* A concatenation has its first part as a prefix.
LEMMA ConcatPrefix ==
    ASSUME NEW s, s \in Seq(Names), NEW u, u \in Seq(Names), NEW t, t = s \o u
    PROVE  IsPrefix(s, t) /\ t \in Seq(Names)
<1>1. /\ s \o u \in Seq(Names) /\ Len(s \o u) = Len(s) + Len(u)
      /\ \A i \in 1 .. Len(s) + Len(u) : (s \o u)[i] = IF i <= Len(s) THEN s[i] ELSE u[i - Len(s)]
  BY ConcatProperties
<1>2. Len(s) \in Nat /\ Len(u) \in Nat
  OBVIOUS
<1>3. \A i \in 1 .. Len(s) : t[i] = s[i]
  BY <1>1, <1>2
<1>4. Len(s) <= Len(t)
  BY <1>1, <1>2
<1>5. SubSeq(s, 1, Len(s)) = SubSeq(t, 1, Len(s))
  BY <1>2, <1>3, <1>4
<1> QED
  BY <1>1, <1>4, <1>5 DEF IsPrefix

\* The names of the entries, chain by chain.
Rows(t) == [i \in 1 .. t.size |-> [p \in DOMAIN t.table[i - 1] |-> Name[t.table[i - 1][p].key]]]

\* R holds the names of t.
IsRows(t, R) ==
    /\ R \in Seq(Seq(Names)) /\ Len(R) = t.size /\ t.size \in Nat
    /\ \A i \in 0 .. t.size - 1 :
          /\ R[i + 1] \in Seq(Names) /\ Len(R[i + 1]) = Len(t.table[i])
          /\ t.table[i] = <<>> <=> R[i + 1] = <<>>
          /\ \A p \in 1 .. Len(t.table[i]) : R[i + 1][p] = Name[t.table[i][p].key]

\* Rows() of a sound table.
LEMMA RowsOf ==
    ASSUME NEW t, Sound(t), NEW R, R = Rows(t)
    PROVE  IsRows(t, R)
<1>1. t.size \in Nat /\ t.table \in [0 .. t.size - 1 -> Seq(Entry)]
  BY SoundLength
<1>2. ASSUME NEW i \in 0 .. t.size - 1
      PROVE  /\ R[i + 1] = [p \in 1 .. Len(t.table[i]) |-> Name[t.table[i][p].key]]
             /\ t.table[i] \in Seq(Entry)
  <2>1. i + 1 \in 1 .. t.size /\ (i + 1) - 1 = i
    BY <1>1
  <2>2. R[i + 1] = [p \in DOMAIN t.table[i] |-> Name[t.table[i][p].key]]
    BY <2>1 DEF Rows
  <2>3. t.table[i] \in Seq(Entry) /\ DOMAIN t.table[i] = 1 .. Len(t.table[i])
    BY <1>1
  <2> QED
    BY <2>2, <2>3
<1>3. ASSUME NEW i \in 0 .. t.size - 1
      PROVE  /\ R[i + 1] \in Seq(Names) /\ Len(R[i + 1]) = Len(t.table[i])
             /\ t.table[i] = <<>> <=> R[i + 1] = <<>>
             /\ \A p \in 1 .. Len(t.table[i]) : R[i + 1][p] = Name[t.table[i][p].key]
  <2>1. PICK o : o = t.table[i] /\ o \in Seq(Entry) /\ Len(o) \in Nat
    <3>1. t.table[i] \in Seq(Entry)
      BY <1>2
    <3>2. Len(t.table[i]) \in Nat
      BY <3>1
    <3> QED
      BY <3>1, <3>2
  <2>2. R[i + 1] = [p \in 1 .. Len(o) |-> Name[o[p].key]]
    BY <1>2, <2>1
  <2>3. \A p \in 1 .. Len(o) : Name[o[p].key] \in Names
    BY <2>1, EntryObjects
  <2>4. R[i + 1] \in Seq(Names) /\ Len(R[i + 1]) = Len(o)
    BY <2>1, <2>2, <2>3
  <2>5. o = <<>> <=> R[i + 1] = <<>>
    BY <2>1, <2>4, EmptySeq
  <2> QED
    BY <2>1, <2>2, <2>4, <2>5
<1>4. R \in Seq(Seq(Names)) /\ Len(R) = t.size
  <2>1. \A j \in 1 .. t.size : R[j] \in Seq(Names)
    <3> TAKE j \in 1 .. t.size
    <3>1. j - 1 \in 0 .. t.size - 1 /\ (j - 1) + 1 = j
      BY <1>1
    <3> QED
      BY <1>3, <3>1
  <2>2. R = [j \in 1 .. t.size |-> R[j]]
    BY DEF Rows
  <2>3. R \in [1 .. t.size -> Seq(Names)]
    BY <2>1, <2>2
  <2>4. R \in Seq(Seq(Names))
    BY <1>1, <2>3
  <2>5. Len(R) = t.size
    BY <1>1, <2>3
  <2> QED
    BY <2>4, <2>5
<1> QED
  BY <1>1, <1>3, <1>4 DEF IsRows

\* hashtbl_apply() meets the rows one after the other.
LEMMA ApplyIs ==
    ASSUME NEW t, Sound(t), t.size > 0, NEW R, R = Rows(t)
    PROVE  hashtbl_apply(t) = Before(R)[t.size]
<1>1. R \in Seq(Seq(Names)) /\ Len(R) = t.size /\ t.size \in Nat
  BY RowsOf DEF IsRows
<1>2. FlattenSeq(R) = Before(R)[Len(R)]
  BY <1>1, FlattenIs
<1> QED
  BY <1>1, <1>2 DEF hashtbl_apply, Rows

-----------------------------------------------------------------------------
(* The iterator.                                                           *)

IterType == [pos : Int, at : Nat, seen : Seq(Names), done : BOOLEAN]

\* Where an iterator stands in the rows, and what it has met on its way.
Place(it, R) ==
    /\ it.pos \in 0 .. Len(R)
    /\ it.at > 0 =>
          /\ it.pos < Len(R) /\ it.at <= Len(R[it.pos + 1]) /\ ~it.done
          /\ it.seen = Before(R)[it.pos] \o SubSeq(R[it.pos + 1], 1, it.at)
    /\ it.at = 0 => it.seen = Before(R)[it.pos]
    /\ it.done => it.at = 0 /\ \A k \in it.pos + 1 .. Len(R) : R[k] = <<>>

\* The first entry of the next chain.
From(it) == IF it.at > 0 THEN it.pos + 1 ELSE it.pos

\* Down the chain.
LEMMA PlaceDown ==
    ASSUME NEW R, R \in Seq(Seq(Names)), NEW it, it \in IterType, Place(it, R),
           it.at > 0, it.at < Len(R[it.pos + 1]),
           NEW jt, jt = [pos |-> it.pos, at |-> it.at + 1, done |-> it.done,
                         seen |-> Append(it.seen, R[it.pos + 1][it.at + 1])]
    PROVE  Place(jt, R) /\ jt \in IterType
<1>1. PICK c, b, a : c = R[it.pos + 1] /\ b = Before(R)[it.pos] /\ a = it.at
  OBVIOUS
<1>2. /\ it.pos \in 0 .. Len(R) /\ it.pos < Len(R) /\ ~it.done /\ a \in Nat /\ a > 0 /\ a < Len(c)
      /\ it.seen = b \o SubSeq(c, 1, a) /\ it.seen \in Seq(Names) /\ it.done \in BOOLEAN
  BY <1>1 DEF Place, IterType
<1>3. Sections(R, Before(R))
  BY SectionsOf
<1>4. c \in Seq(Names) /\ b \in Seq(Names)
  <2>1. PICK j : j = it.pos + 1 /\ j \in 1 .. Len(R)
    BY <1>2
  <2>0. \A q \in 1 .. Len(R) : R[q] \in Seq(Names)
    OBVIOUS
  <2>2. c \in Seq(Names)
    BY <1>1, <2>0, <2>1
  <2>3. b \in Seq(Names)
    BY <1>1, <1>2, <1>3 DEF Sections
  <2> QED
    BY <2>2, <2>3
<1>5. a + 1 \in 1 .. Len(c) /\ Len(c) \in Nat
  BY <1>2, <1>4
<1>6. c[a + 1] \in Names
  BY <1>4, <1>5
<1>7. SubSeq(c, 1, a + 1) = SubSeq(c, 1, a) \o <<c[a + 1]>>
  <2>1. PICK n : n = a + 1 /\ n \in 1 .. Len(c) /\ n - 1 = a /\ 1 \in 1 .. Len(c)
    <3>1. (a + 1) - 1 = a /\ 1 \in 1 .. Len(c)
      BY <1>2, <1>5
    <3> QED
      BY <1>5, <3>1
  <2>2. SubSeq(c, 1, n) = SubSeq(c, 1, n - 1) \o <<c[n]>>
    BY <1>4, <2>1, SubSeqRecursiveSecond
  <2> QED
    BY <2>1, <2>2
<1>8. PICK s : s = SubSeq(c, 1, a) /\ s \in Seq(Names)
  <2>1. \A i \in 1 .. a : c[i] \in Names
    BY <1>2, <1>4
  <2>2. SubSeq(c, 1, a) \in Seq(Names)
    BY <1>2, <2>1, SubSeqProperties
  <2> QED
    BY <2>2
<1>9. Append(it.seen, c[a + 1]) = b \o SubSeq(c, 1, a + 1)
  <2>1. PICK x, e : x = c[a + 1] /\ e = <<x>>
    OBVIOUS
  <2>4. x \in Names /\ e \in Seq(Names)
    BY <1>6, <2>1
  <2>2. Append(it.seen, x) = it.seen \o e
    BY <1>2, <2>1, <2>4, AppendIsConcat
  <2>3. (b \o s) \o e = b \o (s \o e)
    BY <1>4, <1>8, <2>4, NamesConcat
  <2> QED
    BY <1>2, <1>7, <1>8, <2>1, <2>2, <2>3
<1>10. /\ jt.pos = it.pos /\ jt.at = a + 1 /\ jt.seen = Append(it.seen, c[a + 1]) /\ jt.done = it.done
       /\ jt \in IterType
  <2>1. Append(it.seen, c[a + 1]) \in Seq(Names)
    BY <1>2, <1>6, AppendProperties
  <2>2. /\ jt.pos = it.pos /\ jt.at = a + 1 /\ jt.seen = Append(it.seen, c[a + 1]) /\ jt.done = it.done
    BY <1>1
  <2>3. it.pos \in Int /\ a + 1 \in Nat /\ it.done \in BOOLEAN
    <3>1. it.pos \in Int
      BY DEF IterType
    <3>2. a + 1 \in Nat
      BY <1>2
    <3> QED
      BY <1>2, <3>1, <3>2
  <2> QED
    BY <1>1, <2>1, <2>2, <2>3 DEF IterType
<1>11. jt.at > 0 /\ jt.at <= Len(c) /\ jt.at # 0
  <2>1. a + 1 > 0 /\ a + 1 <= Len(c) /\ a + 1 # 0
    BY <1>5
  <2> QED
    BY <1>10, <2>1
<1> QED
  BY <1>1, <1>2, <1>9, <1>10, <1>11 DEF Place

\* Once a chain is through, everything before the next has been met.
LEMMA PlaceFrom ==
    ASSUME NEW R, R \in Seq(Seq(Names)), NEW it, it \in IterType, Place(it, R),
           ~(it.at > 0 /\ it.at < Len(R[it.pos + 1])),
           NEW from, from = From(it)
    PROVE  /\ from \in 0 .. Len(R) /\ it.seen = Before(R)[from]
           /\ it.done => \A k \in from + 1 .. Len(R) : R[k] = <<>>
<1>1. Len(R) \in Nat /\ it.pos \in 0 .. Len(R) /\ it.at \in Nat
  BY DEF Place, IterType
<1>2. CASE it.at = 0
  BY <1>1, <1>2 DEF Place, From
<1>3. CASE it.at > 0
  <2>1. PICK c, b, a : c = R[it.pos + 1] /\ b = Before(R)[it.pos] /\ a = it.at
    OBVIOUS
  <2>2. it.pos < Len(R) /\ a <= Len(c) /\ ~it.done /\ it.seen = b \o SubSeq(c, 1, a)
    BY <1>3, <2>1 DEF Place
  <2>8. from = it.pos + 1
    BY <1>3 DEF From
  <2>3. from \in 1 .. Len(R) /\ from - 1 = it.pos /\ from \in 0 .. Len(R)
    <3>1. PICK m, n : m = Len(R) /\ n = it.pos /\ m \in Nat /\ n \in 0 .. m /\ n < m
      BY <1>1, <2>2
    <3>2. n + 1 \in 1 .. m /\ n + 1 \in 0 .. m /\ (n + 1) - 1 = n
      BY <3>1, UpOne
    <3> QED
      BY <2>8, <3>1, <3>2
  <2>4. c \in Seq(Names) /\ Len(c) \in Nat
    BY <2>1, <2>3
  <2>5. a = Len(c)
    BY <1>1, <1>3, <2>1, <2>2, <2>4
  <2>6. SubSeq(c, 1, a) = c
    BY <2>4, <2>5, SubSeqFull
  <2>7. Before(R)[from] = b \o c
    <3>1. Sections(R, Before(R))
      BY SectionsOf
    <3>2. Before(R)[from] = Before(R)[from - 1] \o R[from]
      BY <2>3, <3>1 DEF Sections
    <3> QED
      BY <2>1, <2>3, <2>8, <3>2
  <2>9. from \in 0 .. Len(R) /\ it.seen = Before(R)[from]
    BY <2>2, <2>3, <2>6, <2>7
  <2> QED
    BY <2>2, <2>9
<1> QED
  BY <1>1, <1>2, <1>3

\* On to the next chain that is not empty.
LEMMA PlaceOver ==
    ASSUME NEW R, R \in Seq(Seq(Names)), NEW it, it \in IterType, Place(it, R),
           ~(it.at > 0 /\ it.at < Len(R[it.pos + 1])),
           NEW j, j \in From(it) .. Len(R) - 1, R[j + 1] # <<>>,
           \A k \in From(it) + 1 .. j : R[k] = <<>>,
           NEW jt, jt = [pos |-> j, at |-> 1, done |-> it.done,
                         seen |-> Append(it.seen, R[j + 1][1])]
    PROVE  Place(jt, R) /\ jt \in IterType
<1>1. PICK from : from = From(it)
  OBVIOUS
<1>2. /\ from \in 0 .. Len(R) /\ it.seen = Before(R)[from]
      /\ it.done => \A k \in from + 1 .. Len(R) : R[k] = <<>>
  BY <1>1, PlaceFrom
<1>3. Len(R) \in Nat /\ j \in from .. Len(R) /\ j < Len(R) /\ j + 1 \in from + 1 .. Len(R)
      /\ j + 1 \in 1 .. Len(R) /\ j \in 0 .. Len(R)
  <2>1. Len(R) \in Nat
    OBVIOUS
  <2> QED
    BY <1>1, <1>2, <2>1
<1>4. ~it.done
  BY <1>2, <1>3
<1>5. Sections(R, Before(R))
  BY SectionsOf
<1>6. Before(R)[j] = Before(R)[from]
  <2>1. Grown(R, Before(R), from, j)
    BY <1>2, <1>3, <1>5, SectionsGrow
  <2> QED
    BY <1>1, <2>1 DEF Grown
<1>7. PICK c, b : c = R[j + 1] /\ b = Before(R)[j]
  OBVIOUS
<1>8. c \in Seq(Names) /\ b \in Seq(Names) /\ c # <<>>
  <2>1. R[j + 1] \in Seq(Names)
    BY <1>3
  <2>2. Before(R)[j] \in Seq(Names)
    BY <1>3, <1>5 DEF Sections
  <2> QED
    BY <1>7, <2>1, <2>2
<1>9. Len(c) \in Nat /\ Len(c) >= 1 /\ c[1] \in Names
  <2>1. Len(c) \in Nat \ {0}
    BY <1>8, EmptySeq
  <2> QED
    BY <1>8, <2>1
<1>10. SubSeq(c, 1, 1) = <<c[1]>>
  <2>1. \A i \in 1 .. 1 : c[i] \in Names
    BY <1>9
  <2>2. PICK m : m = 1
    OBVIOUS
  <2>3. /\ SubSeq(c, m, m) \in Seq(Names) /\ Len(SubSeq(c, m, m)) = 1
        /\ SubSeq(c, m, m)[1] = c[1]
    BY <2>1, <2>2, SubSeqProperties
  <2>4. <<c[1]>> \in Seq(Names) /\ Len(<<c[1]>>) = 1 /\ <<c[1]>>[1] = c[1]
    BY <1>9
  <2>5. PICK x, y : x = SubSeq(c, m, m) /\ y = <<c[1]>>
    OBVIOUS
  <2>6. x \in Seq(Names) /\ y \in Seq(Names) /\ Len(x) = Len(y) /\ \A i \in 1 .. Len(x) : x[i] = y[i]
    BY <2>3, <2>4, <2>5
  <2>7. x = y
    BY <2>6, SeqEqual
  <2> QED
    BY <2>2, <2>5, <2>7
<1>11. Append(b, c[1]) = b \o SubSeq(c, 1, 1) /\ Append(b, c[1]) \in Seq(Names)
  BY <1>8, <1>9, <1>10, AppendIsConcat, AppendProperties
<1>12. it.seen = b /\ jt.pos = j /\ jt.at = 1 /\ jt.seen = Append(b, c[1]) /\ jt.done = it.done /\ jt \in IterType
  <2>1. it.seen = b /\ jt.pos = j /\ jt.at = 1 /\ jt.seen = Append(b, c[1]) /\ jt.done = it.done
    BY <1>2, <1>6, <1>7
  <2>2. j \in Int /\ 1 \in Nat /\ it.done \in BOOLEAN
    BY <1>3 DEF IterType
  <2> QED
    BY <1>7, <1>11, <2>1, <2>2 DEF IterType
<1>13. jt.at > 0 /\ jt.at # 0 /\ jt.at <= Len(c)
  BY <1>9, <1>12
<1> QED
  BY <1>3, <1>4, <1>7, <1>11, <1>12, <1>13 DEF Place

\* The end of the table.
LEMMA PlaceEnd ==
    ASSUME NEW R, R \in Seq(Seq(Names)), NEW it, it \in IterType, Place(it, R),
           ~(it.at > 0 /\ it.at < Len(R[it.pos + 1])),
           \A k \in From(it) + 1 .. Len(R) : R[k] = <<>>,
           NEW j, j \in From(it) .. Len(R),
           NEW jt, jt = [pos |-> j, at |-> 0, done |-> TRUE, seen |-> it.seen]
    PROVE  Place(jt, R) /\ jt \in IterType
<1>1. PICK from : from = From(it)
  OBVIOUS
<1>2. from \in 0 .. Len(R) /\ it.seen = Before(R)[from]
  BY <1>1, PlaceFrom
<1>3. Len(R) \in Nat /\ j \in from .. Len(R) /\ j \in 0 .. Len(R)
  <2>1. Len(R) \in Nat
    OBVIOUS
  <2> QED
    BY <1>1, <1>2, <2>1
<1>4. Before(R)[j] = Before(R)[from]
  <2>1. Sections(R, Before(R))
    BY SectionsOf
  <2>2. \A k \in from + 1 .. j : R[k] = <<>>
    BY <1>1, <1>2, <1>3
  <2>3. Grown(R, Before(R), from, j)
    BY <1>2, <1>3, <2>1, SectionsGrow
  <2> QED
    BY <2>2, <2>3 DEF Grown
<1>5. \A k \in j + 1 .. Len(R) : R[k] = <<>>
  BY <1>1, <1>2, <1>3
<1>6. jt.pos = j /\ jt.at = 0 /\ jt.seen = it.seen /\ jt.done = TRUE /\ jt \in IterType
  <2>1. it.seen \in Seq(Names) /\ j \in Int /\ 0 \in Nat
    BY <1>3 DEF IterType
  <2> QED
    BY <2>1 DEF IterType
<1> QED
  BY <1>2, <1>3, <1>4, <1>5, <1>6 DEF Place

\* What has been met is a prefix of what hashtbl_apply() meets, and all of it
\* at the end.
LEMMA PlaceMeets ==
    ASSUME NEW R, R \in Seq(Seq(Names)), NEW it, it \in IterType, Place(it, R),
           NEW all, all = Before(R)[Len(R)]
    PROVE  IsPrefix(it.seen, all) /\ (it.done => it.seen = all)
<1>0. Sections(R, Before(R)) /\ Len(R) \in Nat
  BY SectionsOf
<1>1. it.pos \in 0 .. Len(R) /\ it.at \in Nat /\ Len(R) \in 0 .. Len(R)
  BY <1>0 DEF Place, IterType
<1>2. CASE it.at = 0
  <2>1. PICK b, j : b = Before(R)[it.pos] /\ j = Len(R) /\ j \in it.pos .. Len(R)
    BY <1>0, <1>1
  <2>2. it.seen = b /\ b \in Seq(Names)
    BY <1>0, <1>1, <1>2, <2>1 DEF Place, Sections
  <2>3. /\ \E u \in Seq(Names) : Before(R)[j] = Before(R)[it.pos] \o u
        /\ (\A k \in it.pos + 1 .. j : R[k] = <<>>) => Before(R)[j] = Before(R)[it.pos]
    <3>1. Grown(R, Before(R), it.pos, j)
      BY <1>0, <1>1, <2>1, SectionsGrow
    <3> QED
      BY <3>1 DEF Grown
  <2>4. PICK u \in Seq(Names) : all = b \o u
    BY <2>1, <2>3
  <2>5. IsPrefix(it.seen, all)
    BY <2>2, <2>4, ConcatPrefix
  <2>6. it.done => it.seen = all
    BY <2>1, <2>2, <2>3 DEF Place
  <2> QED
    BY <2>5, <2>6
<1>3. CASE it.at > 0
  <2>1. PICK c, b, a : c = R[it.pos + 1] /\ b = Before(R)[it.pos] /\ a = it.at
    OBVIOUS
  <2>2. it.pos < Len(R) /\ a <= Len(c) /\ ~it.done /\ it.seen = b \o SubSeq(c, 1, a)
    BY <1>3, <2>1 DEF Place
  <2>3. PICK i : i = it.pos + 1 /\ i \in 1 .. Len(R) /\ i - 1 = it.pos /\ i \in 0 .. Len(R)
    <3>1. PICK n : n = it.pos /\ n \in 0 .. Len(R) /\ n < Len(R)
      BY <1>1, <2>2
    <3>2. n + 1 \in 1 .. Len(R) /\ (n + 1) - 1 = n /\ n + 1 \in 0 .. Len(R)
      BY <1>0, <3>1, UpOne
    <3> QED
      BY <3>1, <3>2
  <2>4. c \in Seq(Names) /\ Len(c) \in Nat /\ b \in Seq(Names) /\ a \in 1 .. Len(c)
    <3>1. c \in Seq(Names) /\ Len(c) \in Nat
      BY <2>1, <2>3
    <3>2. b \in Seq(Names)
      BY <1>0, <1>1, <2>1 DEF Sections
    <3>3. a \in 1 .. Len(c)
      BY <1>1, <1>3, <2>1, <2>2, <3>1
    <3> QED
      BY <3>1, <3>2, <3>3
  <2>5. Before(R)[i] = b \o c
    <3>1. Before(R)[i] = Before(R)[i - 1] \o R[i]
      BY <1>0, <2>3 DEF Sections
    <3> QED
      BY <2>1, <2>3, <3>1
  <2>6. PICK s, r : s = SubSeq(c, 1, a) /\ r = SubSeq(c, a + 1, Len(c))
    OBVIOUS
  <2>7. s \o r = c /\ s \in Seq(Names) /\ r \in Seq(Names)
    <3>1. s \in Seq(Names)
      <4>1. \A k \in 1 .. a : c[k] \in Names
        BY <2>4
      <4> QED
        BY <2>4, <2>6, <4>1, SubSeqProperties
    <3>2. r \in Seq(Names)
      <4>1. \A k \in a + 1 .. Len(c) : c[k] \in Names
        BY <2>4
      <4> QED
        BY <2>4, <2>6, <4>1, SubSeqProperties
    <3>3. SubSeq(c, 1, a) \o SubSeq(c, a + 1, Len(c)) = SubSeq(c, 1, Len(c))
      <4>1. PICK m, n : m = 1 /\ m \in 1 .. Len(c) + 1 /\ a \in m - 1 .. Len(c) /\ n = Len(c) /\ n \in a .. Len(c)
        <5>1. 1 \in 1 .. Len(c) + 1 /\ a \in 1 - 1 .. Len(c) /\ Len(c) \in a .. Len(c)
          BY <2>4
        <5> QED
          BY <5>1
      <4>2. SubSeq(c, m, a) \o SubSeq(c, a + 1, n) = SubSeq(c, m, n)
        BY <2>4, <4>1, ConcatAdjacentSubSeq
      <4> QED
        BY <4>1, <4>2
    <3>4. SubSeq(c, 1, Len(c)) = c
      BY <2>4, SubSeqFull
    <3> QED
      BY <2>6, <3>1, <3>2, <3>3, <3>4
  <2>8. PICK j : j = Len(R) /\ j \in i .. Len(R)
    <3>1. Len(R) \in i .. Len(R)
      BY <1>0, <2>3
    <3> QED
      BY <3>1
  <2>9. PICK u \in Seq(Names) : Before(R)[j] = Before(R)[i] \o u
    <3>1. Grown(R, Before(R), i, j)
      BY <1>0, <2>3, <2>8, SectionsGrow
    <3> QED
      BY <3>1 DEF Grown
  <2>10. all = (b \o s) \o (r \o u)
    <3>1. all = (b \o (s \o r)) \o u
      BY <2>5, <2>7, <2>8, <2>9
    <3>2. b \o (s \o r) = (b \o s) \o r
      <4>1. b \in Seq(Names) /\ s \in Seq(Names) /\ r \in Seq(Names)
        BY <2>4, <2>7
      <4> QED
        BY <4>1, NamesConcat
    <3>3. PICK d : d = b \o s /\ d \in Seq(Names)
      <4>1. b \o s \in Seq(Names)
        BY <2>4, <2>7, ConcatProperties
      <4> QED
        BY <4>1
    <3>4. (d \o r) \o u = d \o (r \o u)
      BY <2>7, <3>3, NamesConcat
    <3> QED
      BY <3>1, <3>2, <3>3, <3>4
  <2>11. it.seen \in Seq(Names) /\ it.seen = b \o s /\ r \o u \in Seq(Names)
    <3>1. b \o s \in Seq(Names) /\ r \o u \in Seq(Names)
      BY <2>4, <2>7, ConcatProperties
    <3> QED
      BY <2>2, <2>6, <3>1
  <2>12. IsPrefix(it.seen, all)
    <3>1. PICK x, y : x = it.seen /\ y = r \o u /\ all = x \o y
      BY <2>10, <2>11
    <3> QED
      BY <2>11, <3>1, ConcatPrefix
  <2> QED
    BY <2>2, <2>12
<1> QED
  BY <1>1, <1>2, <1>3

\* The iterator's place is right whenever there is one.
Walk ==
    /\ iter \in IterType
    /\ iter.pos >= 0 => pc \in {"idle", "resize", "add"} /\ call # "create" /\ Place(iter, Rows(h))

\* An iterator that is at the start.
LEMMA PlaceStart ==
    ASSUME NEW R, R \in Seq(Seq(Names)), NEW jt, jt = [NoIter EXCEPT !.pos = 0]
    PROVE  jt \in IterType /\ Place(jt, R)
<1>1. jt.pos = 0 /\ jt.at = 0 /\ jt.seen = <<>> /\ jt.done = FALSE
  BY DEF NoIter
<1>2. jt \in IterType
  <2>1. jt = [pos |-> 0, at |-> 0, seen |-> <<>>, done |-> FALSE]
    BY DEF NoIter
  <2>2. \A s \in Seq(Names), f \in BOOLEAN : [pos |-> 0, at |-> 0, seen |-> s, done |-> f] \in IterType
    BY DEF IterType
  <2>3. <<>> \in Seq(Names)
    OBVIOUS
  <2> QED
    BY <2>1, <2>2, <2>3
<1>3. Before(R)[0] = <<>> /\ 0 \in 0 .. Len(R)
  <2>1. Sections(R, Before(R)) /\ Len(R) \in Nat
    BY SectionsOf
  <2> QED
    BY <2>1 DEF Sections
<1> QED
  BY <1>1, <1>2, <1>3 DEF Place

\* No iterator.
LEMMA NoPlace == NoIter \in IterType /\ NoIter.pos < 0
<1>1. <<>> \in Seq(Names) /\ -1 \in Int /\ 0 \in Nat /\ FALSE \in BOOLEAN
  OBVIOUS
<1>2. NoIter \in IterType
  BY <1>1 DEF NoIter, IterType
<1>3. NoIter.pos < 0
  BY DEF NoIter
<1> QED
  BY <1>2, <1>3

\* A stored value leaves the names as they are.
LEMMA RowsRevalued ==
    ASSUME NEW t, NEW u, NEW x, NEW y, Sound(t), Revalues(t, u, x, y)
    PROVE  Rows(u) = Rows(t)
<1>1. /\ Sound(u) /\ u.size = t.size
      /\ \A j \in 0 .. t.size - 1 :
            /\ Len(u.table[j]) = Len(t.table[j])
            /\ \A q \in 1 .. Len(t.table[j]) : u.table[j][q].key = t.table[j][q].key
  BY DEF Revalues
<1>2. /\ t.size \in Nat /\ t.table \in [0 .. t.size - 1 -> Seq(Entry)]
      /\ u.table \in [0 .. t.size - 1 -> Seq(Entry)]
  BY <1>1, SoundLength
<1>3. ASSUME NEW i \in 1 .. t.size
      PROVE  [p \in DOMAIN u.table[i - 1] |-> Name[u.table[i - 1][p].key]] =
             [p \in DOMAIN t.table[i - 1] |-> Name[t.table[i - 1][p].key]]
  <2>1. PICK j : j = i - 1 /\ j \in 0 .. t.size - 1
    <3>1. i - 1 \in 0 .. t.size - 1
      BY <1>2
    <3> QED
      BY <3>1
  <2>2. DOMAIN u.table[j] = 1 .. Len(u.table[j]) /\ DOMAIN t.table[j] = 1 .. Len(t.table[j])
    BY <1>2, <2>1
  <2>3. DOMAIN u.table[j] = DOMAIN t.table[j]
    BY <1>1, <2>1, <2>2
  <2>4. \A p \in DOMAIN t.table[j] : u.table[j][p].key = t.table[j][p].key
    BY <1>1, <2>1, <2>2
  <2> QED
    BY <2>1, <2>3, <2>4
<1> QED
  BY <1>1, <1>3 DEF Rows

\* hashtbl_iter_next() goes on to the next entry.
LEMMA WalkNext ==
    ASSUME Core, Walk, hashtbl_iter_next
    PROVE  iter' \in IterType /\ Place(iter', Rows(h))
<1>1. PICK R, it : R = Rows(h) /\ it = iter
  OBVIOUS
<1>2. pc = "idle" /\ it.pos >= 0 /\ it \in IterType /\ Place(it, R) /\ Sound(h)
  BY <1>1 DEF hashtbl_iter_next, Walk, Core, Whole
<1>3. IsRows(h, R)
  BY <1>1, <1>2, RowsOf
<1>4. /\ R \in Seq(Seq(Names)) /\ Len(R) = h.size /\ h.size \in Nat
      /\ \A i \in 0 .. h.size - 1 :
            /\ Len(R[i + 1]) = Len(h.table[i])
            /\ h.table[i] = <<>> <=> R[i + 1] = <<>>
            /\ \A p \in 1 .. Len(h.table[i]) : R[i + 1][p] = Name[h.table[i][p].key]
  BY <1>3 DEF IsRows
<1>5. PICK from, chains : from = From(it) /\ chains = {i \in from .. h.size - 1 : h.table[i] # <<>>}
  OBVIOUS
<1>6. it = [pos |-> it.pos, at |-> it.at, seen |-> it.seen, done |-> it.done]
      /\ it.pos \in Int /\ it.at \in Nat
  BY <1>2 DEF IterType
<1>7. it.pos \in 0 .. h.size /\ (it.at > 0 => it.pos \in 0 .. h.size - 1)
  <2>1. it.pos \in 0 .. h.size /\ (it.at > 0 => it.pos < h.size)
    BY <1>2, <1>4 DEF Place
  <2> QED
    BY <1>4, <2>1
<1>8. it.at > 0 => Len(R[it.pos + 1]) = Len(h.table[it.pos])
  BY <1>4, <1>7
<1>9. CASE it.at > 0 /\ it.at < Len(h.table[it.pos])
  <2>1. iter' = [it EXCEPT !.pos = it.pos, !.at = it.at + 1,
                    !.seen = Append(@, Name[h.table[it.pos][it.at + 1].key])]
    BY <1>1, <1>9 DEF hashtbl_iter_next
  <2>2. Name[h.table[it.pos][it.at + 1].key] = R[it.pos + 1][it.at + 1]
    <3>1. PICK i, p : i = it.pos /\ p = it.at + 1
      OBVIOUS
    <3>2. i \in 0 .. h.size - 1 /\ p \in 1 .. Len(h.table[i])
      <4>1. Len(h.table[i]) \in Nat /\ i \in 0 .. h.size - 1
        <5>1. i \in 0 .. h.size - 1
          BY <1>7, <1>9, <3>1
        <5>2. h.table[i] \in Seq(Entry)
          BY <1>2, <5>1, SoundLength
        <5> QED
          BY <5>1, <5>2
      <4> QED
        BY <1>6, <1>9, <3>1, <4>1
    <3> QED
      BY <1>4, <3>1, <3>2
  <2>3. iter' = [pos |-> it.pos, at |-> it.at + 1, done |-> it.done,
                 seen |-> Append(it.seen, R[it.pos + 1][it.at + 1])]
    BY <1>6, <2>1, <2>2
  <2>4. it.at < Len(R[it.pos + 1])
    BY <1>8, <1>9
  <2>5. PICK jt : jt = iter'
    OBVIOUS
  <2>6. Place(jt, R) /\ jt \in IterType
    BY <1>2, <1>4, <1>9, <2>3, <2>4, <2>5, PlaceDown
  <2> QED
    BY <1>1, <2>5, <2>6
<1>10. ASSUME ~(it.at > 0 /\ it.at < Len(h.table[it.pos]))
       PROVE  /\ ~(it.at > 0 /\ it.at < Len(R[it.pos + 1])) /\ from \in 0 .. h.size
              /\ chains \subseteq Nat
              /\ \A k \in from + 1 .. h.size : k - 1 \in from .. h.size - 1 /\ k - 1 \in 0 .. h.size - 1 /\ (k - 1) + 1 = k
  <2>1. ~(it.at > 0 /\ it.at < Len(R[it.pos + 1]))
    BY <1>8, <1>10
  <2>2. from \in 0 .. Len(R)
    BY <1>2, <1>4, <1>5, <2>1, PlaceFrom
  <2>3. from \in 0 .. h.size
    BY <1>4, <2>2
  <2>4. chains \subseteq Nat
    BY <1>4, <1>5, <2>3
  <2>5. \A k \in from + 1 .. h.size : k - 1 \in from .. h.size - 1 /\ k - 1 \in 0 .. h.size - 1 /\ (k - 1) + 1 = k
    BY <1>4, <2>3
  <2> QED
    BY <2>1, <2>3, <2>4, <2>5
<1>11. CASE ~(it.at > 0 /\ it.at < Len(h.table[it.pos])) /\ chains # {}
  <2>1. PICK j : j = Min(chains) /\ j \in chains /\ \A m \in chains : j <= m
    BY <1>10, <1>11, MinNat
  <2>2. iter' = [it EXCEPT !.pos = j, !.at = 1, !.seen = Append(@, Name[h.table[j][1].key])]
    BY <1>1, <1>5, <1>11, <2>1 DEF hashtbl_iter_next, From
  <2>3. j \in from .. h.size - 1 /\ j \in 0 .. h.size - 1 /\ h.table[j] # <<>>
    <3>1. j \in from .. h.size - 1 /\ h.table[j] # <<>>
      BY <1>5, <2>1
    <3>2. from \in 0 .. h.size
      BY <1>10, <1>11
    <3> QED
      BY <1>4, <3>1, <3>2
  <2>4. R[j + 1] # <<>> /\ Name[h.table[j][1].key] = R[j + 1][1]
    <3>1. h.table[j] \in Seq(Entry)
      BY <1>2, <2>3, SoundLength
    <3>2. Len(h.table[j]) \in Nat \ {0}
      BY <2>3, <3>1, EmptySeq
    <3>3. 1 \in 1 .. Len(h.table[j])
      BY <3>2
    <3> QED
      BY <1>4, <2>3, <3>3
  <2>5. ASSUME NEW k \in from + 1 .. j PROVE R[k] = <<>>
    <3>1. from \in 0 .. h.size /\ j \in 0 .. h.size - 1
      BY <1>10, <1>11, <2>3
    <3>2. k \in from + 1 .. h.size /\ k - 1 < j
      BY <1>4, <3>1
    <3>3. k - 1 \in from .. h.size - 1 /\ k - 1 \in 0 .. h.size - 1 /\ (k - 1) + 1 = k
      BY <1>10, <1>11, <3>2
    <3>4. k - 1 \notin chains
      BY <2>1, <3>1, <3>2, <3>3
    <3>5. h.table[k - 1] = <<>>
      BY <1>5, <3>3, <3>4
    <3> QED
      BY <1>4, <3>3, <3>5
  <2>6. iter' = [pos |-> j, at |-> 1, done |-> it.done, seen |-> Append(it.seen, R[j + 1][1])]
    BY <1>6, <2>2, <2>4
  <2>7. PICK jt : jt = iter'
    OBVIOUS
  <2>8. ~(it.at > 0 /\ it.at < Len(R[it.pos + 1])) /\ j \in From(it) .. Len(R) - 1
        /\ \A k \in From(it) + 1 .. j : R[k] = <<>>
    BY <1>4, <1>5, <1>10, <1>11, <2>3, <2>5
  <2>9. Place(jt, R) /\ jt \in IterType
    BY <1>2, <1>4, <2>4, <2>6, <2>7, <2>8, PlaceOver
  <2> QED
    BY <1>1, <2>7, <2>9
<1>12. CASE ~(it.at > 0 /\ it.at < Len(h.table[it.pos])) /\ chains = {}
  <2>1. PICK j : j = Max({from, h.size - 1})
    OBVIOUS
  <2>2. iter' = [it EXCEPT !.pos = j, !.at = 0, !.done = TRUE]
    BY <1>1, <1>5, <1>12, <2>1 DEF hashtbl_iter_next, From
  <2>3. from \in 0 .. h.size /\ h.size > 0
    BY <1>2, <1>10, <1>12 DEF Core, Stages
  <2>4. j = from \/ j = h.size - 1
    <3>1. \E x \in {from, h.size - 1} : \A y \in {from, h.size - 1} : x >= y
      <4>1. from >= h.size - 1 \/ h.size - 1 >= from
        BY <1>4, <2>3
      <4>2. from >= from /\ h.size - 1 >= h.size - 1
        BY <1>4, <2>3
      <4> QED
        BY <4>1, <4>2
    <3>2. j \in {from, h.size - 1} /\ \A y \in {from, h.size - 1} : j >= y
      BY <2>1, <3>1 DEF Max
    <3> QED
      BY <3>2
  <2>5. j >= from
    <3>1. \E x \in {from, h.size - 1} : \A y \in {from, h.size - 1} : x >= y
      <4>1. from >= h.size - 1 \/ h.size - 1 >= from
        BY <1>4, <2>3
      <4>2. from >= from /\ h.size - 1 >= h.size - 1
        BY <1>4, <2>3
      <4> QED
        BY <4>1, <4>2
    <3> QED
      BY <2>1, <3>1 DEF Max
  <2>6. j \in from .. h.size
    BY <1>4, <2>3, <2>4, <2>5
  <2>7. ASSUME NEW k \in from + 1 .. h.size PROVE R[k] = <<>>
    <3>1. k - 1 \in from .. h.size - 1 /\ k - 1 \in 0 .. h.size - 1 /\ (k - 1) + 1 = k
      BY <1>10, <1>12
    <3>2. h.table[k - 1] = <<>>
      BY <1>5, <1>12, <3>1
    <3> QED
      BY <1>4, <3>1, <3>2
  <2>8. iter' = [pos |-> j, at |-> 0, done |-> TRUE, seen |-> it.seen]
    BY <1>6, <2>2
  <2>9. PICK jt : jt = iter'
    OBVIOUS
  <2>10. ~(it.at > 0 /\ it.at < Len(R[it.pos + 1])) /\ j \in From(it) .. Len(R)
         /\ \A k \in From(it) + 1 .. Len(R) : R[k] = <<>>
    BY <1>4, <1>5, <1>10, <1>12, <2>6, <2>7
  <2>11. Place(jt, R) /\ jt \in IterType
    BY <1>2, <1>4, <2>8, <2>9, <2>10, PlaceEnd
  <2> QED
    BY <1>1, <2>9, <2>11
<1> QED
  BY <1>9, <1>11, <1>12

\* There is no iterator at first.
LEMMA WalkInit == Init => Walk
<1> SUFFICES ASSUME Init PROVE Walk
  OBVIOUS
<1>1. iter \in IterType /\ iter.pos < 0
  BY NoPlace DEF Init
<1>2. iter.pos \in Int
  BY <1>1 DEF IterType
<1> QED
  BY <1>1, <1>2 DEF Walk

\* An iterator is used as long as the chains stay as they are.
LEMMA WalkStep == Core /\ Walk /\ [Next]_vars => Walk'
<1> SUFFICES ASSUME Core, Walk, [Next]_vars PROVE Walk'
  OBVIOUS
<1>1. iter \in IterType /\ iter.pos \in Int
  BY DEF Walk, IterType
<1>2. ASSUME iter' = NoIter PROVE Walk'
  <2>1. iter' \in IterType /\ iter'.pos < 0 /\ iter'.pos \in Int
    BY <1>2, NoPlace DEF IterType
  <2> QED
    BY <2>1 DEF Walk
<1>3. ASSUME iter' = iter, ~(iter.pos >= 0) PROVE Walk'
  BY <1>1, <1>3 DEF Walk
<1>4. ASSUME iter' = iter, Rows(h)' = Rows(h), pc' \in {"idle", "resize", "add"}, call' # "create"
      PROVE  Walk'
  BY <1>4 DEF Walk
<1>5. ASSUME h' = h, iter' = iter, iter.pos >= 0 => pc' \in {"idle", "resize", "add"} /\ call' # "create"
      PROVE  Walk'
  BY <1>1, <1>3, <1>4, <1>5
<1>6. CASE UNCHANGED vars
  BY <1>6 DEF vars, Walk
<1>7. CASE \E c \in Capacities, load \in Loads, auto \in BOOLEAN : hashtbl_create(c, load, auto)
  <2>1. pc = "none" /\ iter' = iter
    BY <1>7 DEF hashtbl_create
  <2> QED
    BY <1>3, <2>1 DEF Walk
<1>8. CASE \E c \in Capacities : hashtbl_resize(c)
  BY <1>5, <1>8 DEF hashtbl_resize
<1>9. CASE ResizeKeeps
  BY <1>5, <1>9 DEF ResizeKeeps, Resized, Return, Walk
<1>10. CASE ResizeFails
  BY <1>5, <1>10 DEF ResizeFails, Resized, Return, Walk
<1>11. CASE ResizeStarts
  BY <1>2, <1>11 DEF ResizeStarts
<1>12. CASE MoveEntry \/ MoveEnds
  <2>1. pc = "move" /\ iter' = iter
    BY <1>12 DEF MoveEntry, MoveEnds
  <2> QED
    BY <1>3, <2>1 DEF Walk
<1>13. ASSUME NEW k \in Keys, NEW v \in Vals, InsertReplaces(k, v) PROVE Walk'
  <2>1. PICK x, y : Revalues(h, h', x, y)
    BY <1>13, ReplaceStep
  <2>2. Rows(h') = Rows(h)
    BY <2>1, RowsRevalued DEF Core, Whole
  <2>3. pc = "idle" /\ pc' = pc /\ call' = call /\ iter' = iter
    BY <1>13 DEF InsertReplaces, Offered
  <2> QED
    BY <1>3, <1>4, <2>2, <2>3 DEF Walk
<1>14. ASSUME NEW k \in Keys, NEW v \in Vals, InsertNew(k, v) PROVE Walk'
  BY <1>5, <1>14 DEF InsertNew
<1>15. CASE InsertAdds
  BY <1>2, <1>15 DEF InsertAdds
<1>16. CASE InsertFails
  BY <1>5, <1>16 DEF InsertFails, Return
<1>17. CASE \E n \in Names : hashtbl_remove(n)
  BY <1>2, <1>17 DEF hashtbl_remove
<1>18. CASE hashtbl_clear \/ hashtbl_delete
  BY <1>2, <1>18 DEF hashtbl_clear, hashtbl_delete, Cleared
<1>19. CASE hashtbl_iter_init
  <2>1. h' = h /\ pc = "idle" /\ pc' = pc /\ call' = call /\ iter' = [NoIter EXCEPT !.pos = 0]
    BY <1>19 DEF hashtbl_iter_init
  <2>2. Rows(h) \in Seq(Seq(Names))
    BY RowsOf DEF Core, Whole, IsRows
  <2>3. PICK jt : jt = iter'
    OBVIOUS
  <2>4. jt \in IterType /\ Place(jt, Rows(h))
    BY <2>1, <2>2, <2>3, PlaceStart
  <2>5. call # "create"
    BY <2>1 DEF Core, Stages
  <2> QED
    BY <2>1, <2>3, <2>4, <2>5 DEF Walk
<1>20. CASE hashtbl_iter_next
  <2>1. iter' \in IterType /\ Place(iter', Rows(h))
    BY <1>20, WalkNext
  <2>2. h' = h /\ pc = "idle" /\ pc' = pc /\ call' = call
    BY <1>20 DEF hashtbl_iter_next
  <2>3. call # "create"
    BY <2>2 DEF Core, Stages
  <2> QED
    BY <2>1, <2>2, <2>3 DEF Walk
<1>21. CASE \E o \in Keys \cup Vals : Reuse(o)
  BY <1>5, <1>21 DEF Reuse, Walk
<1>22. CASE \E n \in Names : RemoveMisses(n)
  BY <1>5, <1>22 DEF RemoveMisses, Walk
<1> QED
  BY <1>6, <1>7, <1>8, <1>9, <1>10, <1>11, <1>12, <1>13, <1>14, <1>15, <1>16, <1>17, <1>18,
     <1>19, <1>20, <1>21, <1>22 DEF Next

-----------------------------------------------------------------------------
(* The properties of the runs.                                             *)

Reported == ret \in Reports

\* A call reports one of its outcomes.
LEMMA ReportedNext == Core /\ Core' /\ Reported /\ [Next]_vars => Reported'
<1> SUFFICES ASSUME Core, Core', Reported, [Next]_vars PROVE Reported'
  OBVIOUS
<1>1. HeldChange
  BY HeldSteps
<1>2. CASE ret' \in {ret, <<>>}
  BY <1>2 DEF Reported, Reports
<1>3. ASSUME NEW n \in Names, ret' = <<"remove", n>> \/ ret' = <<"absent", n>> PROVE Reported'
  <2>1. <<"remove", n>> \in Reports /\ <<"absent", n>> \in Reports
    BY <1>3 DEF Reports
  <2> QED
    BY <1>3, <2>1 DEF Reported
<1>4. ASSUME NEW n \in Names, NEW v \in Vals, ret' = <<"insert", n, v>> \/ ret' = <<"no memory", n, v>>
      PROVE  Reported'
  <2>1. <<"insert", n, v>> \in Reports /\ <<"no memory", n, v>> \in Reports
    BY <1>4 DEF Reports
  <2> QED
    BY <1>4, <2>1 DEF Reported
<1>5. CASE ret' = <<"clear">>
  BY <1>5 DEF Reported, Reports
<1>6. \A e \in Entry : Name[e.key] \in Names /\ e.val \in Vals
  BY EntryObjects
<1>7. ASSUME NEW e, Stores(Held, Held', e), ret' = <<"insert", Name[e.key], e.val>> PROVE Reported'
  BY <1>4, <1>6, <1>7 DEF Stores
<1> QED
  BY <1>1, <1>2, <1>3, <1>4, <1>5, <1>7 DEF HeldChange

\* All parts of the invariant together.
LEMMA IndAlways == Spec => [](Core /\ Loading /\ Walk /\ Reported)
<1>1. Init => Core /\ Loading /\ Walk /\ Reported
  <2>1. Init => Reported
    BY DEF Init, Reported, Reports
  <2> QED
    BY <2>1, CoreInit, LoadingInit, WalkInit
<1>2. Core /\ Loading /\ Walk /\ Reported /\ [Next]_vars => (Core /\ Loading /\ Walk /\ Reported)'
  BY CoreNext, LoadingNext, WalkStep, ReportedNext
<1> QED
  BY <1>1, <1>2, PTL DEF Spec

\* The iterator meets the entries in the order of hashtbl_apply(), each once,
\* and reports the end only after the last, however the calls that leave the
\* chains alone are mixed with it.
THEOREM HashTblIterIsApply == Spec => []IterIsApply
<1>1. Core /\ Walk => IterIsApply
  <2> SUFFICES ASSUME Core, Walk, pc = "idle", iter.pos >= 0
               PROVE  /\ IsPrefix(iter.seen, hashtbl_apply(h))
                      /\ iter.done => iter.seen = hashtbl_apply(h)
    BY DEF IterIsApply
  <2>1. Sound(h) /\ h.size > 0
    BY DEF Core, Whole, Stages
  <2>2. PICK R, it, all : R = Rows(h) /\ it = iter /\ all = Before(R)[Len(R)]
    OBVIOUS
  <2>3. R \in Seq(Seq(Names)) /\ Len(R) = h.size
    BY <2>1, <2>2, RowsOf DEF IsRows
  <2>4. hashtbl_apply(h) = all
    BY <2>1, <2>2, <2>3, ApplyIs
  <2>5. it \in IterType /\ Place(it, R)
    BY <2>2 DEF Walk
  <2>6. IsPrefix(it.seen, all) /\ (it.done => it.seen = all)
    BY <2>2, <2>3, <2>5, PlaceMeets
  <2> QED
    BY <2>2, <2>4, <2>6
<1> QED
  BY <1>1, IndAlways, PTL

\* Every entry is found where its hash says.
LEMMA SoundFinds ==
    ASSUME NEW t, Sound(t), NEW i \in DOMAIN t.table, NEW p \in DOMAIN t.table[i],
           NEW n, n = Name[t.table[i][p].key]
    PROVE  i = Slot(Hash[n], t.size) /\ Matches(t, n) = {p}
<1>1. PICK o, e : o = t.table[i] /\ e = o[p]
  OBVIOUS
<1>2. i \in 0 .. t.size - 1
  BY SoundLength
<1>3. IsChain(t, i, o)
  BY <1>1, <1>2, ChainOf
<1>4. p \in 1 .. Len(o)
  BY <1>1, <1>3 DEF IsChain
<1>5. e \in Entries(t) /\ e.hash = Hash[n] /\ Slot(e.hash, t.size) = i /\ e \in Entry
  BY <1>1, <1>3, <1>4 DEF IsChain
<1>6. n \in Names
  BY <1>1, <1>5, EntryObjects
<1>7. t.size > 0 /\ i = Slot(Hash[n], t.size)
  BY <1>2, <1>5, SoundLength
<1>8. Matches(t, n) = {q \in 1 .. Len(o) : Name[o[q].key] = n}
  <2>1. DOMAIN o = 1 .. Len(o) /\ \A q \in 1 .. Len(o) : o[q].hash = Hash[Name[o[q].key]]
    BY <1>3 DEF IsChain
  <2>2. Matches(t, n) = {q \in DOMAIN o : o[q].hash = Hash[n] /\ Name[o[q].key] = n}
    BY <1>1, <1>7 DEF Matches, Chain
  <2> QED
    BY <2>1, <2>2
<1>9. NoTwins(o) /\ Name[o[p].key] = n
  BY <1>1, <1>3 DEF IsChain
<1>10. \A q \in 1 .. Len(o) : Name[o[q].key] = n <=> q = p
  BY <1>4, <1>9 DEF NoTwins
<1> QED
  BY <1>4, <1>7, <1>8, <1>10

\* The table is consistent between any two calls: of the right type, every
\* entry found by the search for its name, the count right, and a table that
\* grows by itself not filled beyond its load factor.
THEOREM HashTblConsistent == Spec => []Consistent
<1> SUFFICES ASSUME Core, Loading, Walk, Reported PROVE Consistent
  BY IndAlways, PTL
<1>1. Sound(h) /\ Sound(tmp) /\ owner \in Owners
  BY DEF Core, Whole, Single
<1>2. TypeOK
  <2>1. TableOK(h) /\ TableOK(tmp)
    <3>1. ASSUME NEW t, Sound(t) PROVE TableOK(t)
      <4>1. /\ t.size \in Powers \cup {0} /\ t.nentries \in Nat /\ DOMAIN t.table = 0 .. t.size - 1
            /\ t.table \in [0 .. t.size - 1 -> Seq(Entry)]
        BY <3>1, SoundLength
      <4>2. \A i \in DOMAIN t.table : t.table[i] \in Seq(Entry)
        BY <4>1
      <4> QED
        BY <4>1, <4>2 DEF TableOK
    <3> QED
      BY <1>1, <3>1
  <2>2. iter.pos \in Int /\ iter.at \in Nat /\ iter.seen \in Seq(Names) /\ iter.done \in BOOLEAN
    BY DEF Walk, IterType
  <2>3. Shape /\ ret \in Reports
    BY DEF Core, Reported
  <2> QED
    BY <1>1, <2>1, <2>2, <2>3 DEF TypeOK, Shape, Owners
<1>3. EveryEntryFound
  <2> SUFFICES ASSUME NEW i \in DOMAIN h.table, NEW p \in DOMAIN h.table[i]
               PROVE  /\ i = Slot(Hash[Name[h.table[i][p].key]], h.size)
                      /\ Matches(h, Name[h.table[i][p].key]) = {p}
    BY DEF EveryEntryFound
  <2> QED
    BY <1>1, SoundFinds
<1>4. CountIsRight
  BY <1>1 DEF CountIsRight, Sound
<1>5. LoadBound
  <2> SUFFICES ASSUME auto_resize, ~failed, pc = "idle", h.size < MaxSize, max_load_factor >= 50
               PROVE  100 * h.nentries <= max_load_factor * h.size + 100
    BY DEF LoadBound
  <2>1. 100 * Count <= max_load_factor * h.size + 100
    BY DEF Loading, Growing, Bounded
  <2>2. Count = h.nentries
    BY CoreNumbers DEF Count, Adding
  <2> QED
    BY <2>1, <2>2
<1> QED
  BY <1>2, <1>3, <1>4, <1>5 DEF Consistent

=============================================================================
