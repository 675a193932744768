--------------------------- MODULE LinkedHashTbl ---------------------------
(***************************************************************************)
(* The linked hash table of src/c-hacks/src/linked-hashtbl.c: the chains   *)
(* of a hash table and a list through all of its entries, which gives the  *)
(* order of iteration and the entry to evict.  An entry is named by its    *)
(* key object; key objects that are equal have the same name.              *)
(***************************************************************************)
EXTENDS Integers, SequencesExt

CONSTANTS
    Keys,         \* key objects
    Vals,         \* value objects
    Names,        \* what equals_fn() tells apart
    Name,         \* the name of a key object
    Hash,         \* hash_fn(), a function of the name
    Capacities,   \* what callers pass to l_hashtbl_create() and l_hashtbl_resize()
    Load,         \* max_load_factor in percent
    Limits,       \* the evictors: one evicts when there are more entries than its limit
    MaxPower,     \* LINKED_HASHTBL_MAX_TABLE_SIZE is 2^MaxPower
    None          \* no entry

ASSUME LinkedHashTblAssumption ==
    /\ Keys \cap Vals = {}
    /\ Name \in [Keys -> Names]
    /\ Hash \in [Names -> Nat]
    /\ Capacities \subseteq Int
    /\ Load \in 0 .. 100
    /\ Limits \subseteq Nat
    /\ MaxPower \in Nat
    /\ None \notin Keys

VARIABLES
    live,         \* between l_hashtbl_create() and l_hashtbl_delete()
    h,            \* table, table_size, nentries and all_entries
    val,          \* the value of an entry
    options,      \* auto_resize, access_order and the evictor's limit
    owner,        \* who has to free an object
    iter          \* the caller's iterator

vars == <<live, h, val, options, owner, iter>>

MaxSize == 2 ^ MaxPower
Powers == {2 ^ n : n \in 0 .. MaxPower}

NoTable == [table |-> [i \in {} |-> <<>>], size |-> 0, nentries |-> 0, list |-> <<>>]

\* The iterator holds direction and pos; the entries it has returned and those
\* of its beginning that it still owes its caller are kept beside it.
NoIter == [dir |-> 0, pos |-> None, met |-> {}, owed |-> {}]

Options == [auto : BOOLEAN, access : BOOLEAN, limit : Limits]

TypeOK ==
    /\ live \in BOOLEAN
    /\ h.size \in Powers \cup {0}
    /\ h.nentries \in Nat
    /\ DOMAIN h.table = 0 .. h.size - 1
    /\ \A i \in DOMAIN h.table : h.table[i] \in Seq(Keys)
    /\ h.list \in Seq(Keys)
    /\ val \in [Keys -> Vals \cup {None}]
    /\ options \in Options
    /\ owner \in [Keys \cup Vals -> {"client", "table", "freed"}]
    /\ iter.dir \in {-1, 0, 1} /\ iter.pos \in Keys \cup {None}
    /\ iter.met \subseteq Keys /\ iter.owed \subseteq Keys

Init ==
    /\ live = FALSE
    /\ h = NoTable
    /\ val = [k \in Keys |-> None]
    /\ options \in Options
    /\ owner = [o \in Keys \cup Vals |-> "client"]
    /\ iter = NoIter

-----------------------------------------------------------------------------
(* Chains and list, as functions of a table.                               *)

Slot(k, size) == Hash[Name[k]] % size

Chain(t, n) == t.table[Hash[n] % t.size]

Matches(t, n) == {k \in ToSet(Chain(t, n)) : Name[k] = n}

Present(t, n) == t.size > 0 /\ Matches(t, n) # {}

find_entry(t, n) == SelectSeq(Chain(t, n), LAMBDA k : Name[k] = n)[1]

list_remove(s, k) == SelectSeq(s, LAMBDA e : e # k)

\* The new entry is the first of its chain and of the list.
Linked(t, k) ==
    [t EXCEPT !.table[Slot(k, t.size)] = <<k>> \o @,
              !.list = <<k>> \o @,
              !.nentries = @ + 1]

\* Mutant: the entry stays in the list.
KeptInList(t, k) ==
    [t EXCEPT !.table[Slot(k, t.size)] = list_remove(@, k),
              !.nentries = @ - 1]

remove_key(t, k) ==
    [t EXCEPT !.table[Slot(k, t.size)] = list_remove(@, k),
              !.list = list_remove(@, k),
              !.nentries = @ - 1]

roundup_to_next_power_of_2(x) == Min({n \in Powers : x <= n})

TableSize(c) ==
    IF c < 1 THEN 1
    ELSE IF c >= MaxSize THEN MaxSize
    ELSE roundup_to_next_power_of_2(c)

\* Every entry of the list is put first in its new chain.
Rehashed(t, n) ==
    [t EXCEPT !.size = n,
              !.table = [i \in 0 .. n - 1 |->
                  Reverse(SelectSeq(t.list, LAMBDA k : Slot(k, n) = i))]]

\* The tables l_hashtbl_resize() may leave: the old one when it is large
\* enough or when no memory is left.
Resizes(t, c) ==
    IF TableSize(c) <= t.size THEN {t} ELSE {t, Rehashed(t, TableSize(c))}

\* (int)(capacity * max_load_factor + 0.5), the factor in percent
resize_threshold(size) == (2 * size * Load + 100) \div 200

\* An iterator that points to a freed entry must not be used again; any other
\* one goes on without the entries that were freed.
Surviving(gone) ==
    IF iter.pos \in gone THEN NoIter
    ELSE [iter EXCEPT !.met = @ \ gone, !.owed = @ \ gone]

Freed(objs) == [o \in Keys \cup Vals |-> IF o \in objs THEN "freed" ELSE owner[o]]

-----------------------------------------------------------------------------
(* The operations.                                                         *)

\* When an allocation fails there is no table and nothing has changed.
l_hashtbl_create(c) ==
    /\ ~live
    /\ live' = TRUE
    /\ options' \in Options
    /\ h' = Rehashed(NoTable, TableSize(c))
    /\ UNCHANGED <<val, owner, iter>>

\* The list is not touched, and an iterator goes on.
l_hashtbl_resize(c) ==
    /\ live
    /\ h' \in Resizes(h, c)
    /\ UNCHANGED <<live, val, options, owner, iter>>

\* Mutant: the value that is replaced is not freed.
InsertLeaks(k, v) ==
    /\ live /\ owner[k] = "client" /\ owner[v] = "client"
    /\ Present(h, Name[k])
    /\ owner' = [owner EXCEPT ![v] = "table"]
    /\ val' = [val EXCEPT ![find_entry(h, Name[k])] = v]
    /\ UNCHANGED <<live, h, options, iter>>

\* The caller hands over objects that are its own.
Offered(k, v) == live /\ owner[k] = "client" /\ owner[v] = "client"

\* The key is there: its value is freed and replaced, its place in the list
\* stays, and the caller keeps the new key object.
InsertReplaces(k, v) ==
    /\ Offered(k, v)
    /\ Present(h, Name[k])
    /\ LET e == find_entry(h, Name[k])
       IN  /\ owner' = [Freed({val[e]}) EXCEPT ![v] = "table"]
           /\ val' = [val EXCEPT ![e] = v]
    /\ UNCHANGED <<live, h, options, iter>>

\* Mutant: the newest entry is evicted.
Newest(t) == Head(t.list)

\* all_entries.prev
Eldest(t) == Last(t.list)

\* The entry is linked, the eldest one evicted when the evictor says so, and
\* the table resized when the entries that are left reach the threshold.  A
\* failed resize is benign; without memory for the entry nothing changes.
InsertAdds(k, v) ==
    /\ Offered(k, v)
    /\ ~Present(h, Name[k])
    /\ LET linked == Linked(h, k)
           evicts == linked.nentries > options.limit
           e == Eldest(linked)
           left == IF evicts THEN remove_key(linked, e) ELSE linked
           held == [owner EXCEPT ![k] = "table", ![v] = "table"]
           vals == [val EXCEPT ![k] = v]
       IN  /\ h' \in IF options.auto /\ left.nentries >= resize_threshold(h.size)
                     THEN Resizes(left, 2 * h.size)
                     ELSE {left}
           /\ owner' = IF evicts THEN [held EXCEPT ![e] = "freed", ![vals[e]] = "freed"]
                       ELSE held
           /\ val' = IF evicts THEN [vals EXCEPT ![e] = None] ELSE vals
           /\ iter' = IF evicts THEN Surviving({e}) ELSE iter
    /\ UNCHANGED <<live, options>>

record_access(t, k) ==
    IF options.access THEN [t EXCEPT !.list = <<k>> \o list_remove(@, k)] ELSE t

\* Moved to the head of the list, an entry ahead of a forward iterator is
\* passed over and one behind a backward iterator met again, and at the head
\* the entry the iterator points to misleads it: then the caller has to begin
\* again.
Undisturbed(e) == IF iter.dir = 1 THEN e \in iter.met ELSE e \notin iter.met \cup {iter.pos}

l_hashtbl_lookup(n) ==
    /\ live
    /\ Present(h, n)
    /\ LET e == find_entry(h, n)
       IN  /\ h' = record_access(h, e)
           /\ iter' = IF iter.pos = None \/ ~options.access \/ Undisturbed(e)
                      THEN iter ELSE NoIter
    /\ UNCHANGED <<live, val, options, owner>>

l_hashtbl_remove(n) ==
    /\ live
    /\ Present(h, n)
    /\ LET e == find_entry(h, n)
       IN  /\ h' = remove_key(h, e)
           /\ owner' = Freed({e, val[e]})
           /\ val' = [val EXCEPT ![e] = None]
           /\ iter' = Surviving({e})
    /\ UNCHANGED <<live, options>>

\* The list is walked, every entry freed, and the slots are zeroed.
Cleared ==
    /\ owner' = Freed(ToSet(h.list) \cup {val[k] : k \in ToSet(h.list)})
    /\ val' = [k \in Keys |-> IF k \in ToSet(h.list) THEN None ELSE val[k]]
    /\ iter' = NoIter

l_hashtbl_clear ==
    /\ live
    /\ Cleared
    /\ h' = [table |-> [i \in DOMAIN h.table |-> <<>>], size |-> h.size,
             nentries |-> h.nentries - Len(h.list), list |-> <<>>]
    /\ UNCHANGED <<live, options>>

l_hashtbl_delete ==
    /\ live
    /\ Cleared
    /\ h' = NoTable
    /\ live' = FALSE
    /\ UNCHANGED options

\* The entry after k in the iterator's direction, None at the list's head.
After(k, dir) ==
    LET i == Min({j \in DOMAIN h.list : h.list[j] = k}) + dir
    IN  IF i \in DOMAIN h.list THEN h.list[i] ELSE None

l_hashtbl_iter_init(dir) ==
    /\ live
    /\ iter' = [NoIter EXCEPT !.dir = dir, !.owed = ToSet(h.list),
                    !.pos = IF h.list = <<>> THEN None
                            ELSE IF dir >= 1 THEN Head(h.list) ELSE Last(h.list)]
    /\ UNCHANGED <<live, h, val, options, owner>>

\* Mutant: a backward iterator goes forward.
iter_next_forward ==
    /\ live
    /\ iter.pos # None
    /\ iter' = [iter EXCEPT !.pos = After(@, 1), !.met = @ \cup {iter.pos},
                            !.owed = @ \ {iter.pos}]
    /\ UNCHANGED <<live, h, val, options, owner>>

\* It returns 0, and changes nothing, once pos is the head of the list.
l_hashtbl_iter_next ==
    /\ live
    /\ iter.pos # None
    /\ iter' = [iter EXCEPT !.pos = After(@, iter.dir), !.met = @ \cup {iter.pos},
                            !.owed = @ \ {iter.pos}]
    /\ UNCHANGED <<live, h, val, options, owner>>

\* The allocator hands out again what was freed.
Reuse(o) ==
    /\ owner[o] = "freed"
    /\ owner' = [owner EXCEPT ![o] = "client"]
    /\ UNCHANGED <<live, h, val, options, iter>>

-----------------------------------------------------------------------------

Next ==
    \/ \E c \in Capacities : l_hashtbl_create(c) \/ l_hashtbl_resize(c)
    \/ \E k \in Keys, v \in Vals : InsertReplaces(k, v) \/ InsertAdds(k, v)
    \/ \E n \in Names : l_hashtbl_lookup(n) \/ l_hashtbl_remove(n)
    \/ l_hashtbl_clear \/ l_hashtbl_delete
    \/ \E dir \in {-1, 1} : l_hashtbl_iter_init(dir)
    \/ l_hashtbl_iter_next
    \/ \E o \in Keys \cup Vals : Reuse(o)

Spec == Init /\ [][Next]_vars

-----------------------------------------------------------------------------
(* Properties.                                                             *)

\* The list and the chains hold the same entries, each once, an entry is in
\* the chain of its hash, nentries counts them, and there are never more than
\* the evictor allows: so the eldest entry of the list is one that the removal
\* of its key finds, also directly after a resize.
ListIsTable ==
    /\ TypeOK
    /\ IsInjective(h.list)
    /\ h.nentries = Len(h.list)
    /\ live => h.nentries <= options.limit
    /\ \A i \in DOMAIN h.table :
          /\ IsInjective(h.table[i])
          /\ ToSet(h.table[i]) = {k \in ToSet(h.list) : Slot(k, h.size) = i}

\* Objects handed to the table are freed exactly once: by a replacement, a
\* removal, an eviction inside an insertion or a clear.  The table holds none
\* that was freed or that its caller still owns.
OwnedOnce ==
    LET held == ToSet(h.list)
    IN  /\ {o \in Keys \cup Vals : owner[o] = "table"} = held \cup {val[k] : k \in held}
        /\ \A j, k \in held : val[j] = val[k] => j = k
        /\ \A k \in Keys : val[k] # None <=> k \in held

\* In either direction an iterator meets no entry twice and ends only after
\* every entry of its beginning that is still there, whatever is inserted,
\* replaced, resized, removed or evicted elsewhere on the way, and also when
\* lookups in access order move entries that do not disturb it.
IterMeetsAll ==
    /\ iter.pos # None => iter.pos \in ToSet(h.list) \ iter.met
    /\ iter.pos = None => iter.owed = {}

\* What a lookup finds for every name of the list, in the list's order.
Contents ==
    [i \in DOMAIN h.list |->
        LET n == Name[h.list[i]]
        IN  <<n, IF Present(h, n) THEN val[find_entry(h, n)] ELSE None>>]

Abstract == INSTANCE OrderedMap WITH map <- Contents, access <- options.access

\* The table is a map in insertion or access order: lookups find what was
\* stored last, an insertion evicts the eldest entry and no other, so its own
\* only when the evictor allows none, a replacement keeps the order, and a
\* resize changes nothing.
ImplementsOrderedMap ==
    /\ Abstract!Spec
    /\ [][\A k \in Keys, v \in Vals :
             InsertAdds(k, v) /\ options.limit > 0 => h'.list # <<>> /\ Head(h'.list) = k]_vars
=============================================================================
