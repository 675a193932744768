----------------------------- MODULE OrderedMap -----------------------------
(***************************************************************************)
(* What src/c-hacks/include/c-hacks/linked-hashtbl.h promises: a map whose *)
(* entries are in an order, the newest first, or the most recently looked  *)
(* up first when it was created with access_order.                         *)
(***************************************************************************)
EXTENDS SequencesExt

CONSTANTS Names, Vals

VARIABLES
    map,      \* the pairs of name and value in order
    access    \* access_order

Has(n) == \E i \in DOMAIN map : map[i][1] = n

Without(n) == SelectSeq(map, LAMBDA p : p[1] # n)

Init == map = <<>> /\ access \in BOOLEAN

Create == map = <<>> /\ map' = <<>> /\ access' \in BOOLEAN

\* A new pair goes to the front; the map may drop its last pair for it,
\* which is the new one when there is no other.
Put(n, v) ==
    /\ ~Has(n)
    /\ LET longer == <<<<n, v>>>> \o map
       IN  map' \in {longer, Front(longer)}
    /\ UNCHANGED access

\* A new value leaves its pair where it is.
Replace(n, v) ==
    /\ Has(n)
    /\ map' = [i \in DOMAIN map |-> IF map[i][1] = n THEN <<n, v>> ELSE map[i]]
    /\ UNCHANGED access

Touch(n) ==
    /\ access
    /\ Has(n)
    /\ map' = SelectSeq(map, LAMBDA p : p[1] = n) \o Without(n)
    /\ UNCHANGED access

Drop(n) == Has(n) /\ map' = Without(n) /\ UNCHANGED access

Empty == map' = <<>> /\ UNCHANGED access

Next ==
    \/ Create \/ Empty
    \/ \E n \in Names : Touch(n) \/ Drop(n)
    \/ \E n \in Names, v \in Vals : Put(n, v) \/ Replace(n, v)

Spec == Init /\ [][Next]_<<map, access>>
=============================================================================
