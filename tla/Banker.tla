------------------------------- MODULE Banker -------------------------------
(***************************************************************************)
(* The banker's algorithm of src/操作系统算法/银行家算法/banker.c: the     *)
(* menu of main(), init_system(), try_allocate(), is_safe() and            *)
(* return_back().  The user's input is the environment.  The scan of       *)
(* is_safe() takes a step for each process it looks at.                    *)
(***************************************************************************)
EXTENDS Integers, FiniteSets, FiniteSetsExt

CONSTANTS
    Resource,    \* the kinds of resources
    Counts,      \* the numbers of processes the user may enter
    Units,       \* bound: units of a resource in the system, or of a request
    Matrix,      \* whether the user may enter an allocation matrix
    Again        \* whether the user may initialise the system more than once

ASSUME BankerAssumption ==
    /\ IsFiniteSet(Resource)
    /\ Counts # {} /\ IsFiniteSet(Counts) /\ Counts \subseteq Nat \ {0}
    /\ Units \in Nat
    /\ Matrix \in BOOLEAN /\ Again \in BOOLEAN

\* The rows of the arrays that the program can reach.
Row == 0 .. Max(Counts)
Vector == [Resource -> 0 .. Units]
Zero == [r \in Resource |-> 0]

VARIABLES
    progress_num,
    Available, MAX, Need, Allocate,
    Request, id,         \* the request being handled
    Work, Finish, i,     \* the scan of is_safe(), and its loop variable
    flag,                \* the last result of is_safe()
    pc,                  \* where main() is
    caller,              \* which menu entry called is_safe()
    total,               \* history: the resources the user entered
    before               \* history: the allocation state when a request came

system == <<progress_num, MAX, total>>
tables == <<Available, Need, Allocate>>
scan   == <<Work, Finish, i>>
vars   == <<system, tables, Request, id, scan, flag, pc, caller, before>>

Process == 0 .. progress_num - 1

TypeOK ==
    /\ progress_num \in Nat /\ id \in Row
    /\ {Available, Work} \subseteq [Resource -> Int]
    /\ {Need, Allocate} \subseteq [Row -> [Resource -> Int]]
    /\ MAX \in [Row -> Vector]
    /\ {Request, total} \subseteq Vector
    /\ Finish \in [Row -> BOOLEAN]
    /\ i \in 0 .. progress_num
    /\ flag \in BOOLEAN
    /\ pc \in {"menu", "is_safe", "scan", "return_back"}
    /\ caller \in {"request", "check"}
    /\ pc = "menu" => \A r \in Resource : Available[r] >= 0

\* The globals, before the first choice.
Init ==
    /\ progress_num = 0
    /\ Available = Zero /\ Work = Zero /\ Request = Zero /\ total = Zero
    /\ MAX = [p \in Row |-> Zero] /\ Need = MAX /\ Allocate = MAX
    /\ Finish = [p \in Row |-> FALSE]
    /\ id = 0 /\ i = 0
    /\ flag = FALSE
    /\ pc = "menu" /\ caller = "check"
    /\ before = tables

Plus(u, v) == [r \in Resource |-> u[r] + v[r]]
Minus(u, v) == [r \in Resource |-> u[r] - v[r]]
LessEq(u, v) == \A r \in Resource : u[r] <= v[r]

\* What the processes in S have of every resource.
Held(alloc, S) == [r \in Resource |-> MapThenSumSet(LAMBDA p : alloc[p][r], S)]

-----------------------------------------------------------------------------
(* init_system(): n processes, the resources in the system, the maximal    *)
(* claims and, when the user answers 'y', what each process has.  The      *)
(* program takes what it is told; the user is taken to enter allocations   *)
(* within the claims and the system.  Rows from n on keep what they had,   *)
(* except that the answer 'n' clears all allocations.                      *)

Claims(n, all) == {m \in [0 .. n - 1 -> Vector] : \A p \in 0 .. n - 1 : LessEq(m[p], all)}

Grants(n, all, max) ==
    {a \in [0 .. n - 1 -> Vector] :
        /\ \A p \in 0 .. n - 1 : LessEq(a[p], max[p])
        /\ LessEq(Held(a, 0 .. n - 1), all)}

Entered(n, table, new) == [p \in Row |-> IF p < n THEN new[p] ELSE table[p]]

InitSystem(n, all, max, alloc) ==
    /\ progress_num' = n
    /\ total' = all
    /\ MAX' = Entered(n, MAX, max)
    /\ Allocate' = alloc
    /\ Need' = Entered(n, Need, [p \in 0 .. n - 1 |-> Minus(max[p], alloc[p])])
    /\ Available' = Minus(all, Held(alloc, 0 .. n - 1))
    /\ Request' = Zero /\ Work' = Zero
    /\ Finish' = [p \in Row |-> FALSE]
    /\ i' = 0
    /\ UNCHANGED <<id, flag, pc, caller, before>>

InitChoice(n, all, max) ==
    /\ pc = "menu"
    /\ Again \/ progress_num = 0
    /\ \/ InitSystem(n, all, max, [p \in Row |-> Zero])
       \/ /\ Matrix
          /\ \E a \in Grants(n, all, max) :
                InitSystem(n, all, max, Entered(n, Allocate, a))

-----------------------------------------------------------------------------
Fits(p, req) == LessEq(req, Need[p]) /\ LessEq(req, Available)

\* try_allocate(): the tables are changed whether the request fits or not.  The
\* loop that reads id lets progress_num through.
TryAllocate(p, req) ==
    /\ pc = "menu"
    /\ p \in 0 .. progress_num
    /\ id' = p
    /\ Request' = req
    /\ before' = tables
    /\ Available' = Minus(Available, req)
    /\ Allocate' = [Allocate EXCEPT ![p] = Plus(@, req)]
    /\ Need' = [Need EXCEPT ![p] = Minus(@, req)]
    /\ caller' = "request"
    /\ pc' = IF Fits(p, req) THEN "is_safe" ELSE "return_back"
    /\ UNCHANGED <<system, scan, flag>>

\* Menu entry 4.
CheckChoice ==
    /\ pc = "menu"
    /\ caller' = "check"
    /\ pc' = "is_safe"
    /\ UNCHANGED <<system, tables, Request, id, scan, flag, before>>

-----------------------------------------------------------------------------
(* is_safe()                                                               *)

SafeStart ==
    /\ pc = "is_safe"
    /\ Work' = Available
    /\ Finish' = [p \in Row |-> IF p \in Process THEN FALSE ELSE Finish[p]]
    /\ i' = 0
    /\ pc' = "scan"
    /\ UNCHANGED <<system, tables, Request, id, flag, caller, before>>

\* Mutant: the first resource that suffices decides.
CanFinishOne(p) == ~Finish[p] /\ \E r \in Resource : Need[p][r] <= Work[r]

CanFinish(p) == ~Finish[p] /\ LessEq(Need[p], Work)

\* Process i can finish; after the last process the scan starts again.
ScanFinish ==
    /\ pc = "scan" /\ i < progress_num
    /\ CanFinish(i)
    /\ Work' = Plus(Work, Allocate[i])
    /\ Finish' = [Finish EXCEPT ![i] = TRUE]
    /\ i' = IF i = progress_num - 1 THEN 0 ELSE i + 1
    /\ UNCHANGED <<system, tables, Request, id, flag, pc, caller, before>>

\* Mutant: the scan also starts again after a last process that cannot finish.
ScanSkipRestarts ==
    /\ pc = "scan" /\ i < progress_num
    /\ ~CanFinish(i)
    /\ i' = IF i = progress_num - 1 THEN 0 ELSE i + 1
    /\ UNCHANGED <<system, tables, Request, id, Work, Finish, flag, pc, caller, before>>

ScanSkip ==
    /\ pc = "scan" /\ i < progress_num
    /\ ~CanFinish(i)
    /\ i' = i + 1
    /\ UNCHANGED <<system, tables, Request, id, Work, Finish, flag, pc, caller, before>>

\* The scan is over: the result, and what main() does with it.
Verdict ==
    /\ pc = "scan" /\ i >= progress_num
    /\ flag' = (\A p \in Process : Finish[p])
    /\ pc' = IF caller = "request" /\ ~flag' THEN "return_back" ELSE "menu"
    /\ UNCHANGED <<system, tables, Request, id, scan, caller, before>>

\* Mutant: what was taken from the system is not given back.
ReturnLoses ==
    /\ pc = "return_back"
    /\ Finish' = [p \in Row |-> FALSE]
    /\ Allocate' = [Allocate EXCEPT ![id] = Minus(@, Request)]
    /\ Need' = [Need EXCEPT ![id] = Plus(@, Request)]
    /\ pc' = "menu"
    /\ UNCHANGED <<system, Available, Request, id, Work, i, flag, caller, before>>

\* Mutant: the need is not restored.
ReturnKeepsNeed ==
    /\ pc = "return_back"
    /\ Finish' = [p \in Row |-> FALSE]
    /\ Available' = Plus(Available, Request)
    /\ Allocate' = [Allocate EXCEPT ![id] = Minus(@, Request)]
    /\ pc' = "menu"
    /\ UNCHANGED <<system, Need, Request, id, Work, i, flag, caller, before>>

ReturnBack ==
    /\ pc = "return_back"
    /\ Finish' = [p \in Row |-> FALSE]
    /\ Available' = Plus(Available, Request)
    /\ Allocate' = [Allocate EXCEPT ![id] = Minus(@, Request)]
    /\ Need' = [Need EXCEPT ![id] = Plus(@, Request)]
    /\ pc' = "menu"
    /\ UNCHANGED <<system, Request, id, Work, i, flag, caller, before>>

-----------------------------------------------------------------------------
User ==
    \/ \E n \in Counts, all \in Vector : \E max \in Claims(n, all) :
          InitChoice(n, all, max)
    \/ \E p \in Row, req \in Vector : TryAllocate(p, req)
    \/ CheckChoice

Program == SafeStart \/ ScanFinish \/ ScanSkip \/ Verdict \/ ReturnBack

Next == User \/ Program

Spec == Init /\ [][Next]_vars

\* The program runs; the user owes nothing.
FairSpec == Spec /\ WF_vars(Program)

-----------------------------------------------------------------------------
(* Properties.                                                             *)

\* A state is safe when no set of processes can get stuck: in every set one
\* can finish with what is available and what the processes outside have.
Safe ==
    \A S \in SUBSET Process : S # {} =>
        \E p \in S : LessEq(Need[p], Plus(Available, Held(Allocate, Process \ S)))

\* No resource is lost or made: between two requests, granted or refused, what
\* is available and what the processes have is what the user entered.
Conserved ==
    /\ TypeOK
    /\ pc = "menu" => Plus(Available, Held(Allocate, Process)) = total

\* When is_safe() says yes the state is safe: no request is granted that could
\* lead to a deadlock.
SoundVerdict == [][pc = "scan" /\ pc' = "menu" /\ flag' => Safe]_vars

\* A request that is refused, at once or after the scan, leaves no trace.
RefusedIsUndone == [][pc = "return_back" => tables' = before]_vars

\* The scan ends, although it starts again whenever the last process finishes.
ScanEnds == (pc = "scan") ~> (pc = "menu")

=============================================================================
