------------------------------ MODULE HashTbl ------------------------------
(***************************************************************************)
(* The chained hash table of src/c-hacks/src/hashtbl.c and the memory its  *)
(* caller hands over to it.  A resize moves the entries one by one, so     *)
(* that what is lost or kept on the way is seen; every allocation may      *)
(* fail.  Key objects that are equal have the same name.                   *)
(***************************************************************************)
EXTENDS Integers, SequencesExt

CONSTANTS
    Keys,         \* key objects
    Vals,         \* value objects
    Names,        \* what equals_fn() tells apart
    Name,         \* the name of a key object
    Hash,         \* hash_fn(), a function of the name
    Capacities,   \* what callers pass to hashtbl_create() and hashtbl_resize()
    Loads,        \* what callers pass as max_load_factor, in percent
    MaxSize       \* HASHTBL_MAX_TABLE_SIZE

\* The powers of two, which have no odd divisor but one.
Powers == {n \in 1 .. MaxSize : \A d \in 2 .. n : n % d = 0 => d % 2 = 0}

ASSUME HashTblAssumption ==
    /\ Keys \cap Vals = {}
    /\ Name \in [Keys -> Names]
    /\ Hash \in [Names -> Nat]
    /\ Capacities \subseteq Int
    /\ Loads \subseteq Int
    /\ MaxSize \in Nat /\ MaxSize \in Powers

VARIABLES
    h,                 \* table, table_size and nentries
    tmp,               \* tmp_h of hashtbl_resize()
    max_load_factor,
    resize_threshold,
    auto_resize,
    pc,                \* "none" before hashtbl_create() and after hashtbl_delete()
    call,              \* the call in progress
    capacity,          \* the argument of hashtbl_resize()
    arg,               \* key and value of the insertion in progress
    owner,             \* who has to free an object
    iter,              \* the caller's iterator
    failed,            \* an allocation has failed since hashtbl_create()
    ret                \* what the last call reported of the map

vars == <<h, tmp, max_load_factor, resize_threshold, auto_resize, pc, call,
          capacity, arg, owner, iter, failed, ret>>
settings == <<max_load_factor, resize_threshold, auto_resize>>

Entry == [key : Keys, val : Vals, hash : Nat]

\* A zeroed bucket array.
NewTable(n) == [table |-> [i \in 0 .. n - 1 |-> <<>>], size |-> n, nentries |-> 0]

\* Insertions and removals with their outcome; the other calls report nothing.
Reports ==
    {<<>>, <<"clear">>} \cup {"insert", "no memory"} \X Names \X Vals
    \cup {"remove", "absent"} \X Names

NoIter == [pos |-> -1, at |-> 0, seen |-> <<>>, done |-> FALSE]

TableOK(t) ==
    /\ t.size \in Powers \cup {0}
    /\ t.nentries \in Nat
    /\ DOMAIN t.table = 0 .. t.size - 1
    /\ \A i \in DOMAIN t.table : t.table[i] \in Seq(Entry)

\* The table's size is a power of two, which the mask of tbl_entry_ref()
\* needs to reach every slot, and the count never goes below zero.
TypeOK ==
    /\ TableOK(h)
    /\ TableOK(tmp)
    /\ max_load_factor \in 0 .. 100
    /\ resize_threshold \in Nat
    /\ auto_resize \in BOOLEAN
    /\ pc \in {"none", "idle", "resize", "move", "add"}
    /\ call \in {"none", "create", "resize", "insert"}
    /\ capacity \in Int
    /\ arg \in Keys \X Vals \cup {<<>>}
    /\ owner \in [Keys \cup Vals -> {"client", "table", "freed"}]
    /\ iter.pos \in Int /\ iter.at \in Nat
    /\ iter.seen \in Seq(Names) /\ iter.done \in BOOLEAN
    /\ failed \in BOOLEAN
    /\ ret \in Reports

Init ==
    /\ h = NewTable(0)
    /\ tmp = NewTable(0)
    /\ max_load_factor = 0
    /\ resize_threshold = 0
    /\ auto_resize = FALSE
    /\ pc = "none"
    /\ call = "none"
    /\ capacity = 0
    /\ arg = <<>>
    /\ owner = [o \in Keys \cup Vals |-> "client"]
    /\ iter = NoIter
    /\ failed = FALSE
    /\ ret = <<>>

-----------------------------------------------------------------------------
(* The bucket array.                                                       *)

\* (int)hashval & (table_size - 1), for a size that is a power of two
Slot(hash, size) == hash % size

\* New entries go to the head of their chain.
link_entry(t, e) ==
    [t EXCEPT !.table[Slot(e.hash, t.size)] = <<e>> \o @, !.nentries = @ + 1]

unlink_entry(t, i, p) ==
    [t EXCEPT !.table[i] = RemoveAt(@, p), !.nentries = @ - 1]

Chain(t, n) == t.table[Slot(Hash[n], t.size)]

\* The places in its chain where the name is met.
Matches(t, n) ==
    {p \in DOMAIN Chain(t, n) :
        Chain(t, n)[p].hash = Hash[n] /\ Name[Chain(t, n)[p].key] = n}

Present(t, n) == t.size > 0 /\ Matches(t, n) # {}

\* find_entry() and remove_key() stop at the first match.
find_entry(t, n) == Min(Matches(t, n))

hashtbl_lookup(t, n) == Chain(t, n)[find_entry(t, n)].val

roundup_to_next_power_of_2(x) == Min({n \in Powers : x <= n})

\* The size hashtbl_resize() makes of its argument.
TableSize(c) ==
    IF c < 1 THEN 1
    ELSE IF c >= MaxSize THEN MaxSize
    ELSE roundup_to_next_power_of_2(c)

\* (int)(capacity * max_load_factor + 0.5), the factor in percent
Threshold(c, load) == (2 * c * load + 100) \div 200

Freed(objs) == [o \in Keys \cup Vals |-> IF o \in objs THEN "freed" ELSE owner[o]]

-----------------------------------------------------------------------------
(* hashtbl_create() and hashtbl_resize()                                   *)

hashtbl_create(c, load, auto) ==
    /\ pc = "none"
    /\ max_load_factor' = IF load < 0 THEN 75 ELSE IF load > 100 THEN 100 ELSE load
    /\ resize_threshold' = 0
    /\ auto_resize' = auto
    /\ h' = NewTable(0)
    /\ failed' = FALSE
    /\ capacity' = c
    /\ call' = "create"
    /\ pc' = "resize"
    /\ ret' = <<>>
    /\ UNCHANGED <<tmp, arg, owner, iter>>

hashtbl_resize(c) ==
    /\ pc = "idle"
    /\ capacity' = c
    /\ call' = "resize"
    /\ pc' = "resize"
    /\ ret' = <<>>
    /\ UNCHANGED <<h, tmp, settings, arg, owner, iter, failed>>

\* A call is over, with its arguments and local variables.
Return(to) == pc' = to /\ call' = "none" /\ capacity' = 0 /\ arg' = <<>>

\* After a resize hashtbl_insert() goes on; the other calls return.
Resized ==
    IF call = "insert"
    THEN pc' = "add" /\ UNCHANGED <<call, capacity, arg>>
    ELSE Return("idle")

\* A table never becomes smaller.
ResizeKeeps ==
    /\ pc = "resize"
    /\ TableSize(capacity) <= h.size
    /\ Resized
    /\ UNCHANGED <<h, tmp, settings, owner, iter, failed, ret>>

\* The new table cannot be allocated; hashtbl_create() then frees h, and
\* hashtbl_insert() goes on with the table it has.
ResizeFails ==
    /\ pc = "resize"
    /\ TableSize(capacity) > h.size
    /\ IF call = "create" THEN Return("none") ELSE Resized
    /\ failed' = TRUE
    /\ UNCHANGED <<h, tmp, settings, owner, iter, ret>>

ResizeStarts ==
    /\ pc = "resize"
    /\ TableSize(capacity) > h.size
    /\ tmp' = NewTable(TableSize(capacity))
    /\ iter' = NoIter
    /\ pc' = "move"
    /\ UNCHANGED <<h, settings, call, capacity, arg, owner, failed, ret>>

Unmoved == {i \in DOMAIN h.table : h.table[i] # <<>>}

\* Mutant: the entry keeps the slot number it had.
MoveEntrySameSlot ==
    /\ pc = "move"
    /\ Unmoved # {}
    /\ LET i == Min(Unmoved) IN
        /\ tmp' = [tmp EXCEPT !.table[i] = <<Head(h.table[i])>> \o @, !.nentries = @ + 1]
        /\ h' = unlink_entry(h, i, 1)
    /\ UNCHANGED <<settings, pc, call, capacity, arg, owner, iter, failed, ret>>

\* Mutant: only the first entry of a chain is moved.
MoveEntryDropsChain ==
    /\ pc = "move"
    /\ Unmoved # {}
    /\ LET i == Min(Unmoved) IN
        /\ tmp' = link_entry(tmp, Head(h.table[i]))
        /\ h' = [h EXCEPT !.table[i] = <<>>, !.nentries = @ - 1]
    /\ UNCHANGED <<settings, pc, call, capacity, arg, owner, iter, failed, ret>>

\* The first entry of the first slot that has one.
MoveEntry ==
    /\ pc = "move"
    /\ Unmoved # {}
    /\ LET i == Min(Unmoved) IN
        /\ tmp' = link_entry(tmp, Head(h.table[i]))
        /\ h' = unlink_entry(h, i, 1)
    /\ UNCHANGED <<settings, pc, call, capacity, arg, owner, iter, failed, ret>>

MoveEnds ==
    /\ pc = "move"
    /\ Unmoved = {}
    /\ h' = tmp
    /\ tmp' = NewTable(0)
    /\ resize_threshold' = Threshold(tmp.size, max_load_factor)
    /\ Resized
    /\ UNCHANGED <<max_load_factor, auto_resize, owner, iter, failed, ret>>

-----------------------------------------------------------------------------
(* hashtbl_insert()                                                        *)

\* The caller hands over objects that are its own.
Offered(k, v) == pc = "idle" /\ owner[k] = "client" /\ owner[v] = "client"

\* Mutant: the old value is not freed.
InsertReplacesLeaks(k, v) ==
    /\ Offered(k, v)
    /\ Present(h, Name[k])
    /\ LET i == Slot(Hash[Name[k]], h.size)
           p == find_entry(h, Name[k])
       IN  /\ owner' = [owner EXCEPT ![v] = "table"]
           /\ h' = [h EXCEPT !.table[i][p].val = v]
    /\ ret' = <<"insert", Name[k], v>>
    /\ UNCHANGED <<tmp, settings, pc, call, capacity, arg, iter, failed>>

\* The key is there: its value is freed and replaced, and the caller keeps
\* the new key object.
InsertReplaces(k, v) ==
    /\ Offered(k, v)
    /\ Present(h, Name[k])
    /\ LET i == Slot(Hash[Name[k]], h.size)
           p == find_entry(h, Name[k])
       IN  /\ owner' = [Freed({h.table[i][p].val}) EXCEPT ![v] = "table"]
           /\ h' = [h EXCEPT !.table[i][p].val = v]
    /\ ret' = <<"insert", Name[k], v>>
    /\ UNCHANGED <<tmp, settings, pc, call, capacity, arg, iter, failed>>

InsertNew(k, v) ==
    /\ Offered(k, v)
    /\ ~Present(h, Name[k])
    /\ arg' = <<k, v>>
    /\ call' = "insert"
    /\ IF auto_resize /\ h.nentries >= resize_threshold
       THEN capacity' = 2 * h.size /\ pc' = "resize"
       ELSE pc' = "add" /\ UNCHANGED capacity
    /\ ret' = <<>>
    /\ UNCHANGED <<h, tmp, settings, owner, iter, failed>>

InsertAdds ==
    /\ pc = "add"
    /\ h' = link_entry(h, [key |-> arg[1], val |-> arg[2], hash |-> Hash[Name[arg[1]]]])
    /\ owner' = [owner EXCEPT ![arg[1]] = "table", ![arg[2]] = "table"]
    /\ iter' = NoIter
    /\ Return("idle")
    /\ ret' = <<"insert", Name[arg[1]], arg[2]>>
    /\ UNCHANGED <<tmp, settings, failed>>

\* The entry cannot be allocated; the caller keeps both objects.
InsertFails ==
    /\ pc = "add"
    /\ Return("idle")
    /\ failed' = TRUE
    /\ ret' = <<"no memory", Name[arg[1]], arg[2]>>
    /\ UNCHANGED <<h, tmp, settings, owner, iter>>

-----------------------------------------------------------------------------
(* Removing and walking.                                                   *)

hashtbl_remove(n) ==
    /\ pc = "idle"
    /\ Present(h, n)
    /\ LET i == Slot(Hash[n], h.size)
           p == find_entry(h, n)
       IN  /\ owner' = Freed({h.table[i][p].key, h.table[i][p].val})
           /\ h' = unlink_entry(h, i, p)
    /\ iter' = NoIter
    /\ ret' = <<"remove", n>>
    /\ UNCHANGED <<tmp, settings, pc, call, capacity, arg, failed>>

\* A key that is not there: the table stays as it is.
RemoveMisses(n) ==
    /\ pc = "idle"
    /\ ~Present(h, n)
    /\ ret' = <<"absent", n>>
    /\ UNCHANGED <<h, tmp, settings, pc, call, capacity, arg, owner, iter, failed>>

\* The names in the order hashtbl_apply() meets them: slot by slot, each
\* chain from its head.
hashtbl_apply(t) ==
    FlattenSeq([i \in 1 .. t.size |->
        [p \in DOMAIN t.table[i - 1] |-> Name[t.table[i - 1][p].key]]])

Entries(t) == UNION {ToSet(t.table[i]) : i \in DOMAIN t.table}

Length(t) == SumFunction([i \in DOMAIN t.table |-> Len(t.table[i])])

\* Every entry is freed with its key and its value; the size stays.
Cleared ==
    /\ owner' = Freed({e.key : e \in Entries(h)} \cup {e.val : e \in Entries(h)})
    /\ h' = [NewTable(h.size) EXCEPT !.nentries = h.nentries - Length(h)]
    /\ iter' = NoIter

hashtbl_clear ==
    /\ pc = "idle"
    /\ Cleared
    /\ ret' = <<"clear">>
    /\ UNCHANGED <<tmp, settings, pc, call, capacity, arg, failed>>

hashtbl_delete ==
    /\ pc = "idle"
    /\ Cleared
    /\ pc' = "none"
    /\ ret' = <<"clear">>
    /\ UNCHANGED <<tmp, settings, call, capacity, arg, failed>>

hashtbl_iter_init ==
    /\ pc = "idle"
    /\ iter' = [NoIter EXCEPT !.pos = 0]
    /\ ret' = <<>>
    /\ UNCHANGED <<h, tmp, settings, pc, call, capacity, arg, owner, failed>>

\* Mutant: the walk of the next chain starts in the same slot.
iter_next_same_slot ==
    /\ pc = "idle"
    /\ iter.pos >= 0
    /\ LET inChain == iter.at > 0 /\ iter.at < Len(h.table[iter.pos])
           chains == {i \in iter.pos .. h.size - 1 : h.table[i] # <<>>}
           To(i, p) == [iter EXCEPT !.pos = i, !.at = p,
                           !.seen = Append(@, Name[h.table[i][p].key])]
       IN  /\ Len(iter.seen) < 5
           /\ iter' = IF inChain THEN To(iter.pos, iter.at + 1)
                      ELSE IF chains # {} THEN To(Min(chains), 1)
                      ELSE [iter EXCEPT !.pos = h.size - 1, !.at = 0, !.done = TRUE]
    /\ ret' = <<>>
    /\ UNCHANGED <<h, tmp, settings, pc, call, capacity, arg, owner, failed>>

\* Down the chain of the iterator's entry, then on to the next chain that
\* is not empty.
hashtbl_iter_next ==
    /\ pc = "idle"
    /\ iter.pos >= 0
    /\ LET inChain == iter.at > 0 /\ iter.at < Len(h.table[iter.pos])
           from == IF iter.at > 0 THEN iter.pos + 1 ELSE iter.pos
           chains == {i \in from .. h.size - 1 : h.table[i] # <<>>}
           To(i, p) == [iter EXCEPT !.pos = i, !.at = p,
                           !.seen = Append(@, Name[h.table[i][p].key])]
       IN  iter' = IF inChain THEN To(iter.pos, iter.at + 1)
                   ELSE IF chains # {} THEN To(Min(chains), 1)
                   ELSE [iter EXCEPT !.pos = Max({from, h.size - 1}), !.at = 0, !.done = TRUE]
    /\ ret' = <<>>
    /\ UNCHANGED <<h, tmp, settings, pc, call, capacity, arg, owner, failed>>

\* The allocator hands out again what was freed.
Reuse(o) ==
    /\ pc \in {"none", "idle"}
    /\ owner[o] = "freed"
    /\ owner' = [owner EXCEPT ![o] = "client"]
    /\ UNCHANGED <<h, tmp, settings, pc, call, capacity, arg, iter, failed, ret>>

-----------------------------------------------------------------------------

Next ==
    \/ \E c \in Capacities, load \in Loads, auto \in BOOLEAN : hashtbl_create(c, load, auto)
    \/ \E c \in Capacities : hashtbl_resize(c)
    \/ ResizeKeeps \/ ResizeFails \/ ResizeStarts \/ MoveEntry \/ MoveEnds
    \/ \E k \in Keys, v \in Vals : InsertReplaces(k, v) \/ InsertNew(k, v)
    \/ InsertAdds \/ InsertFails
    \/ \E n \in Names : hashtbl_remove(n) \/ RemoveMisses(n)
    \/ hashtbl_clear \/ hashtbl_delete
    \/ hashtbl_iter_init \/ hashtbl_iter_next
    \/ \E o \in Keys \cup Vals : Reuse(o)

Spec == Init /\ [][Next]_vars

-----------------------------------------------------------------------------
(* Properties.                                                             *)

\* Between two calls the search of hashtbl_lookup() ends at every entry of
\* the table: each is in the chain of its hash, after any number of resizes,
\* and no other entry with an equal key is in front of it.
EveryEntryFound ==
    pc = "idle" =>
        \A i \in DOMAIN h.table : \A p \in DOMAIN h.table[i] :
            LET n == Name[h.table[i][p].key]
            IN  i = Slot(Hash[n], h.size) /\ Matches(h, n) = {p}

\* hashtbl_count() is the number of entries, although hashtbl_resize()
\* counts the old table down and the new one up.
CountIsRight == pc = "idle" => h.nentries = Length(h)

\* Objects handed to the table are freed exactly once: the table never holds
\* one that was freed or that the caller still owns, no two entries share one,
\* and none is forgotten by a replacement, a resize, a removal or a failed
\* allocation.
OwnedOnce ==
    LET held == Entries(h) \cup Entries(tmp)
    IN  /\ {o \in Keys \cup Vals : owner[o] = "table"} =
               {e.key : e \in held} \cup {e.val : e \in held}
        /\ \A d, e \in held : d.key = e.key \/ d.val = e.val => d = e
        /\ Cardinality(held) = Length(h) + Length(tmp)

\* hashtbl_iter_next() meets the entries that hashtbl_apply() meets, in the
\* same order, each once, and ends only after the last; calling it again
\* after the end is harmless.
IterIsApply ==
    pc = "idle" /\ iter.pos >= 0 =>
        /\ IsPrefix(iter.seen, hashtbl_apply(h))
        /\ iter.done => iter.seen = hashtbl_apply(h)

\* A table that grows by itself holds at most one entry more than the factor
\* it was created with allows, as long as no allocation fails and it can still
\* grow.  The one entry is the rounding of resize_threshold().  Below a factor
\* of one half it is not so: one doubling per insertion does not keep up.
LoadBound ==
    auto_resize /\ ~failed /\ pc = "idle" /\ h.size < MaxSize /\ max_load_factor >= 50 =>
        100 * h.nentries <= max_load_factor * h.size + 100

\* Between two calls the table is well formed: its size is a power of two,
\* hashtbl_lookup() finds every entry, hashtbl_count() counts them, and a table
\* that grows by itself is not filled beyond its load factor, whatever resizes
\* there have been.
Consistent == TypeOK /\ EveryEntryFound /\ CountIsRight /\ LoadBound

\* What lookups find, in the old table or, during a resize, in the new one.
Contents ==
    [n \in {m \in Names : Present(h, m) \/ Present(tmp, m)} |->
        IF Present(h, n) THEN hashtbl_lookup(h, n) ELSE hashtbl_lookup(tmp, n)]

Abstract == INSTANCE Dictionary WITH dict <- IF pc = "none" THEN [n \in {} |-> n] ELSE Contents

\* The hash table is a map: what lookups find changes only in the step in which
\* a call reports its success, and then as that call with its arguments asked.
\* A failed insertion, the removal of a key that is not there and every step
\* of a resize change nothing.
ImplementsDictionary == Abstract!Spec
=============================================================================
