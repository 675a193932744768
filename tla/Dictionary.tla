----------------------------- MODULE Dictionary -----------------------------
(***************************************************************************)
(* What the hash table of src/c-hacks/include/c-hacks/hashtbl.h promises:  *)
(* a finite map from key names to values, which changes when a call        *)
(* reports that it did, and as that call asked.                            *)
(***************************************************************************)
EXTENDS Functions

CONSTANTS Names, Vals

VARIABLES
    dict,   \* the map, a function on the names that are present
    ret     \* the operation that was reported last, with its arguments

NoEntry == [n \in {} |-> n]

Init == dict = NoEntry /\ ret = <<>>

Insert(n, v) ==
    /\ ret' = <<"insert", n, v>>
    /\ dict' = [m \in DOMAIN dict \cup {n} |-> IF m = n THEN v ELSE dict[m]]

InsertFails(n, v) ==
    /\ ret' = <<"no memory", n, v>>
    /\ UNCHANGED dict

Remove(n) ==
    /\ ret' = <<"remove", n>>
    /\ n \in DOMAIN dict
    /\ dict' = Restrict(dict, DOMAIN dict \ {n})

RemoveMisses(n) ==
    /\ ret' = <<"absent", n>>
    /\ n \notin DOMAIN dict
    /\ UNCHANGED dict

Clear == ret' = <<"clear">> /\ dict' = NoEntry

\* Calls begin, and others than these end.
Other == ret' = <<>> /\ UNCHANGED dict

Next ==
    \/ \E n \in Names, v \in Vals : Insert(n, v) \/ InsertFails(n, v)
    \/ \E n \in Names : Remove(n) \/ RemoveMisses(n)
    \/ Clear
    \/ Other

Spec == Init /\ [][Next]_<<dict, ret>>
=============================================================================
