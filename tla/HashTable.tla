----------------------------- MODULE HashTable -----------------------------
(* SRFI 69 hash tables (src/src/hashtable.c, src/src/prim_hashtable.c): open  *)
(* addressing with linear probing, deleted entries left as tombstones, and    *)
(* primitives whose callbacks may change the table while they run.  Keys are  *)
(* atoms, for which the table's hash agrees with its equality.                *)
EXTENDS Integers, Sequences, FiniteSets, SequencesExt

CONSTANTS HtKeys,    \* the keys
          HtVals,    \* the values
          MinCap,    \* CH_HASHTABLE_MIN_CAP: 8
          Hashes,    \* what the hash function of the table may give
          MaxHtOps   \* bound: operations

ASSUME HashTableAssumption ==
    MinCap \in Nat \ {0} /\ HtVals \subseteq Nat \ {0} /\ Hashes \subseteq Nat /\ MaxHtOps \in Nat

VARIABLES ht,      \* the table: its slots and the count of its entries
          other,   \* a second table, as hash-table-copy made it
          hash,    \* the hash of each key
          walk,    \* entries a running walk or fold has still to visit
          update,  \* a running hash-table-update!: its key, or none
          promise, \* what the program stored: the maps the two tables stand for
          htOps

htVars == <<ht, other, hash, walk, update, promise, htOps>>

FreeSlot == [kind |-> "free"]
Tombstone == [kind |-> "tombstone"]
NoKey == "none"
Absent == 0
Entry(k, v) == [kind |-> "entry", key |-> k, val |-> v]

EmptyTable(cap) == [slot |-> [i \in 0..(cap - 1) |-> FreeSlot], count |-> 0]
Cap(t) == Cardinality(DOMAIN t.slot)
slot_occupied(t, i) == t.slot[i].kind = "entry"

HtInit ==
    /\ hash \in [HtKeys -> Hashes]
    /\ ht = EmptyTable(MinCap) /\ other = EmptyTable(MinCap)
    /\ walk = <<>> /\ update = NoKey /\ htOps = 0
    /\ promise = [ht |-> [k \in HtKeys |-> Absent], other |-> [k \in HtKeys |-> Absent]]

-----------------------------------------------------------------------------
(* hashtable.c                                                                *)

\* The order in which slots are probed for a key.
Probe(t, k) == [i \in 1..Cap(t) |-> (hash[k] + i - 1) % Cap(t)]
Holds(t, i, k) == slot_occupied(t, i) /\ t.slot[i].key = k

\* Slip: a deleted entry ends the search too.
EndsProbe_Tombstone(t, i) == ~slot_occupied(t, i)

\* A slot that was never used ends the search; a tombstone does not.
EndsProbe(t, i) == t.slot[i] = FreeSlot

FirstProbe(t, k, slots) ==
    LET hits == {n \in 1..Cap(t) : Probe(t, k)[n] \in slots}
    IN IF hits = {} THEN -1 ELSE Probe(t, k)[CHOOSE n \in hits : \A m \in hits : n <= m]

Vacant(t) == {i \in DOMAIN t.slot : ~slot_occupied(t, i)}

find_entry(t, k) ==
    LET i == FirstProbe(t, k, {j \in DOMAIN t.slot : EndsProbe(t, j) \/ Holds(t, j, k)})
    IN IF i # -1 /\ Holds(t, i, k) THEN i ELSE -1

\* The key's own slot, else the first tombstone on the way, else the free slot.
find_insert_slot(t, k) ==
    IF find_entry(t, k) # -1 THEN find_entry(t, k) ELSE FirstProbe(t, k, Vacant(t))

insert_entry_no_resize(t, e) ==
    [slot |-> [t.slot EXCEPT ![FirstProbe(t, e.key, Vacant(t))] = e], count |-> t.count + 1]

\* The entries in slot order, as every loop over the slots meets them.
HtEntries(t) ==
    LET upTo[n \in 0..Cap(t)] ==
          IF n = 0 THEN <<>>
          ELSE IF slot_occupied(t, n - 1) THEN Append(upTo[n - 1], t.slot[n - 1])
          ELSE upTo[n - 1]
    IN upTo[Cap(t)]

rehash_table(t, target) ==
    LET es == HtEntries(t)
        moved[n \in 0..Len(es)] ==
          IF n = 0 THEN EmptyTable(IF target < MinCap THEN MinCap ELSE target)
          ELSE insert_entry_no_resize(moved[n - 1], es[n])
    IN moved[Len(es)]

maybe_grow(t) ==
    IF t.count + 1 > (Cap(t) * 3) \div 4 THEN rehash_table(t, Cap(t) * 2) ELSE t

ch_hashtable_get(t, k) ==
    LET i == find_entry(t, k) IN IF i = -1 THEN Absent ELSE t.slot[i].val

\* A table with no slot to take doubles and tries again.
PutEntry(t, i, k, v) == [slot |-> [t.slot EXCEPT ![i] = Entry(k, v)],
                         count |-> IF Holds(t, i, k) THEN t.count ELSE t.count + 1]
PutGrown(t, k, v) ==
    IF find_insert_slot(t, k) = -1
    THEN LET room == rehash_table(t, Cap(t) * 2) IN PutEntry(room, find_insert_slot(room, k), k, v)
    ELSE PutEntry(t, find_insert_slot(t, k), k, v)
ch_hashtable_set(t, k, v) == PutGrown(maybe_grow(t), k, v)

ch_hashtable_delete(t, k) ==
    LET i == find_entry(t, k)
    IN IF i = -1 THEN t
       ELSE [slot |-> [t.slot EXCEPT ![i] = Tombstone],
             count |-> IF t.count > 0 THEN t.count - 1 ELSE 0]

-----------------------------------------------------------------------------
(* prim_hashtable.c                                                           *)

HtOp == htOps < MaxHtOps /\ htOps' = htOps + 1

prim_hash_table_set(k, v) ==
    /\ HtOp
    /\ ht' = ch_hashtable_set(ht, k, v)
    /\ promise' = [promise EXCEPT !.ht[k] = v]
    /\ UNCHANGED <<other, hash, walk, update>>

prim_hash_table_delete(k) ==
    /\ HtOp
    /\ ht' = ch_hashtable_delete(ht, k)
    /\ promise' = [promise EXCEPT !.ht[k] = Absent]
    /\ UNCHANGED <<other, hash, walk, update>>

\* hash-table-update! reads the value (or the thunk's), calls its procedure,
\* and sets: whatever the procedure did to the table stays between the two.
prim_hash_table_update_bang(k) ==
    /\ HtOp /\ update = NoKey
    /\ update' = k
    /\ UNCHANGED <<ht, other, hash, walk, promise>>

UpdateReturns(v) ==
    /\ update # NoKey
    /\ ht' = ch_hashtable_set(ht, update, v)
    /\ promise' = [promise EXCEPT !.ht[update] = v]
    /\ update' = NoKey
    /\ UNCHANGED <<other, hash, walk, htOps>>

snapshot_entries(t) == SubSeq(HtEntries(t), 1, t.count)

\* hash-table-walk and hash-table-fold: the callbacks see the snapshot.
prim_hash_table_walk ==
    /\ HtOp /\ walk = <<>>
    /\ walk' = snapshot_entries(ht)
    /\ UNCHANGED <<ht, other, hash, update, promise>>

WalkCall ==
    /\ walk # <<>>
    /\ walk' = Tail(walk)
    /\ UNCHANGED <<ht, other, hash, update, promise, htOps>>

Refill(t, entries) ==
    LET filled[n \in 0..Len(entries)] ==
          IF n = 0 THEN t ELSE ch_hashtable_set(filled[n - 1], entries[n].key, entries[n].val)
    IN filled[Len(entries)]

prim_hash_table_copy ==
    /\ HtOp
    /\ other' = Refill(EmptyTable(Cap(ht)), HtEntries(ht))
    /\ promise' = [promise EXCEPT !.other = promise.ht]
    /\ UNCHANGED <<ht, hash, walk, update>>

prim_hash_table_merge_bang ==
    /\ HtOp
    /\ ht' = Refill(ht, HtEntries(other))
    /\ promise' = [promise EXCEPT !.ht = [k \in HtKeys |->
                      IF promise.other[k] # Absent THEN promise.other[k] ELSE promise.ht[k]]]
    /\ UNCHANGED <<other, hash, walk, update>>

\* hash-table->alist conses the snapshot up in reverse; alist->hash-table
\* keeps the first of two entries with one key.
prim_hash_table_to_alist(t) == Reverse(snapshot_entries(t))
prim_alist_to_hash_table(l) ==
    LET made[n \in 0..Len(l)] ==
          IF n = 0 THEN EmptyTable(MinCap)
          ELSE IF ch_hashtable_get(made[n - 1], l[n].key) # Absent THEN made[n - 1]
          ELSE ch_hashtable_set(made[n - 1], l[n].key, l[n].val)
    IN made[Len(l)]

HtNext ==
    \/ \E k \in HtKeys, v \in HtVals : prim_hash_table_set(k, v)
    \/ \E k \in HtKeys : prim_hash_table_delete(k) \/ prim_hash_table_update_bang(k)
    \/ \E v \in HtVals : UpdateReturns(v)
    \/ prim_hash_table_walk \/ WalkCall
    \/ prim_hash_table_copy \/ prim_hash_table_merge_bang

HtSpec == HtInit /\ [][HtNext]_htVars

-----------------------------------------------------------------------------
Gets(t, m) == \A k \in HtKeys : ch_hashtable_get(t, k) = m[k]
IsMap(t, m) ==
    /\ Gets(t, m)
    /\ Len(HtEntries(t)) = t.count
    /\ t.count = Cardinality({k \in HtKeys : m[k] # Absent})
    /\ Gets(prim_alist_to_hash_table(prim_hash_table_to_alist(t)), m)

\* A table is the map the program stored in it, through collisions,
\* tombstones, growth, copies, merges and callbacks that change it: every key
\* gives its last value, is stored once, and the count is the number of keys;
\* the alist of the table makes an equal table again.
HashTableIsMap == IsMap(ht, promise.ht) /\ IsMap(other, promise.other)
=============================================================================
