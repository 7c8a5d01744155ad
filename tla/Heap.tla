-------------------------------- MODULE Heap --------------------------------
(* The heap of one VM (src/src/gc.c): pairs and ephemerons in a young and an  *)
(* old generation, the roots of the mutator, the remembered set, minor and    *)
(* major collections.  A minor collection traces everything the roots reach,  *)
(* both generations, and what remembered old objects hold, and sweeps only    *)
(* the young.  The other types of object, each with its own branch in         *)
(* mark_value, scan_old_for_young and the sweep, are left out.                *)
EXTENDS Integers, FiniteSets, Iteration

CONSTANTS Ids,          \* addresses: positive numbers
          PromotionAge, \* gc->promotion_age
          MaxRoots,     \* bound: objects held by the mutator
          MaxHeapOps    \* bound: mutator operations in one run

ASSUME HeapAssumption ==
    /\ Ids \subseteq Nat \ {0} /\ IsFiniteSet(Ids)
    /\ {PromotionAge, MaxRoots, MaxHeapOps} \subseteq Nat \ {0}

VARIABLES obj,        \* the objects by address; a free address is Free
          held,       \* what registers, globals and root slots refer to
          remembered, \* gc->remembered_set
          heapOps,
          exact       \* ghost: the last collection kept what it must

heapVars == <<obj, held, remembered, heapOps, exact>>

\* A value is an address or 0, an immediate; an object has two fields.
Free == [kind |-> "free", gen |-> "young", age |-> 0, a |-> 0, b |-> 0, broken |-> FALSE]
New(k, x, y) == [Free EXCEPT !.kind = k, !.a = x, !.b = y]
Live == {i \in Ids : obj[i].kind # "free"}
Old(os) == {i \in Ids : os[i].kind # "free" /\ os[i].gen = "old"}

HeapInit == /\ obj = [i \in Ids |-> Free] /\ held = {} /\ remembered = {}
            /\ heapOps = 0 /\ exact = TRUE

-----------------------------------------------------------------------------
Fields(os, i) == {os[i].a, os[i].b} \ {0}

\* mark_object_contents of the objects m.
Contents(os, m) == UNION {Fields(os, i) : i \in {j \in m : os[j].kind = "pair"}}

\* What step makes of the objects m in the end; each round adds one or is the last.
ToTheEnd(step, m) == Iterate(step, m, Cardinality(Ids))

\* mark_value of the values vs: pairs are traced, ephemerons are only noted.
Mark(os, vs) == ToTheEnd([m \in SUBSET Ids |-> m \cup Contents(os, m)], vs)

\* register_pending_ephemeron.
Pending(os, marked, rem) == {i \in marked \cup rem : os[i].kind = "eph"}

\* One pass over the pending ephemerons: those whose key is marked mark their
\* value.
WeakRound(os, marked, rem) ==
    LET keyed == {i \in Pending(os, marked, rem) : os[i].a = 0 \/ os[i].a \in marked}
    IN Mark(os, marked \cup UNION {Fields(os, i) : i \in keyed})

\* Slip: one pass over the ephemerons.
WeakMark_Once(os, marked, rem) == WeakRound(os, marked, rem)

\* The loop of process_weak_refs, until no ephemeron makes progress.
WeakMark(os, marked, rem) == ToTheEnd([m \in SUBSET Ids |-> WeakRound(os, m, rem)], marked)

\* The rest of the ephemerons is broken.
Break(os, marked, rem) ==
    [i \in Ids |->
       IF i \in Pending(os, marked, rem) /\ os[i].a # 0 /\ os[i].a \notin marked
       THEN [os[i] EXCEPT !.broken = TRUE, !.a = 0, !.b = 0] ELSE os[i]]

-----------------------------------------------------------------------------
\* references_young.
RefersYoung(os, i) ==
    \E v \in Fields(os, i) : os[v].kind # "free" /\ os[v].gen = "young"

\* sweep_young_minor: what is not marked goes, what is old enough is promoted.
Swept(os, marked) ==
    [i \in Ids |->
       IF os[i].kind = "free" \/ os[i].gen = "old" THEN os[i]
       ELSE IF i \notin marked THEN Free
       ELSE IF os[i].age + 1 >= PromotionAge THEN [os[i] EXCEPT !.gen = "old", !.age = 0]
       ELSE [os[i] EXCEPT !.age = @ + 1]]

\* prune_remembered_set, after those promoted have been added.
prune_remembered_set(os, rem) == {i \in rem : RefersYoung(os, i)}

\* ch_gc_collect_minor of the heap g from the roots rs.
Minor(g, rs) ==
    LET marked == WeakMark(g.os, Mark(g.os, rs \cup Contents(g.os, g.rem)), g.rem)
        os == Swept(Break(g.os, marked, g.rem), marked)
    IN [os |-> os, rem |-> prune_remembered_set(os, g.rem \cup (Old(os) \ Old(g.os)))]

sweep_list_major(os, marked) == [i \in Ids |-> IF i \in marked THEN os[i] ELSE Free]

\* ch_gc_collect_major sweeps both generations and promotes nothing.
Major(g, rs) ==
    LET marked == WeakMark(g.os, Mark(g.os, rs), {})
    IN [os |-> sweep_list_major(Break(g.os, marked, {}), marked), rem |-> {}]

Now == [os |-> obj, rem |-> remembered]

\* What ch_gc_alloc may have done when it returns, its roots being rs: nothing,
\* a minor collection, or a minor and then a major one.
Collections(rs) == {Now, Minor(Now, rs), Major(Minor(Now, rs), rs)}

\* ghost: what the roots rs keep in the heap os, by definition: what every set
\* has that has rs, the fields of its pairs and those of its ephemerons whose keys
\* it has.  The remembered objects rem count as pairs and ephemerons of the set.
Traced(os, rs, rem, m) ==
    /\ rs \subseteq m
    /\ \A i \in m \cup rem : (os[i].kind = "pair" \/ os[i].a = 0 \/ os[i].a \in m)
                                => Fields(os, i) \subseteq m
Kept(os, rs, rem) == {i \in Ids : \A m \in SUBSET Ids : Traced(os, rs, rem, m) => i \in m}

\* ghost: the heap os after a collection has all of it, with the fields as they
\* were; an ephemeron is broken if and only if its key is not kept.
Agrees(os, rs, rem) ==
    LET kept == Kept(obj, rs, rem)
    IN \A i \in kept :
         LET lost == obj[i].kind = "eph" /\ obj[i].a # 0 /\ obj[i].a \notin kept
         IN /\ os[i].kind = obj[i].kind
            /\ os[i].broken = (obj[i].broken \/ lost)
            /\ ~lost => os[i].a = obj[i].a /\ os[i].b = obj[i].b

\* ghost: what g, one of the Collections(rs), may lose.  A minor collection keeps
\* what remembered objects refer to, those that are garbage themselves included.
Lawful(g, rs) ==
    g = Now \/ Agrees(g.os, rs, IF g = Minor(Now, rs) THEN remembered ELSE {})

-----------------------------------------------------------------------------
HeapSpend == heapOps < MaxHeapOps /\ heapOps' = heapOps + 1

\* Slip: the fields are not pushed on the root stack.
AllocRoots_Unrooted(x, y) == {}

\* ch_gc_cons and ch_gc_make_ephemeron push the fields before they allocate.
AllocRoots(x, y) == {x, y} \ {0}

\* The new object; the mutator keeps keep of what it held.
Make(k, x, y, keep) ==
    LET rs == keep \cup AllocRoots(x, y)
    IN /\ HeapSpend
       /\ \E g \in Collections(rs) :
            \E i \in Ids :
              /\ g.os[i].kind = "free" /\ \A j \in Ids : j < i => g.os[j].kind # "free"
              /\ obj' = [g.os EXCEPT ![i] = New(k, x, y)]
              /\ remembered' = g.rem
              /\ held' = keep \cup {i}
              /\ exact' = Lawful(g, rs)

ch_gc_write_barrier(owner, v) ==
    IF obj[owner].gen = "old" /\ v # 0 /\ obj[v].gen = "young"
    THEN remembered \cup {owner} ELSE remembered

\* set-car! and set-cdr!.
SetField(i, v, first) ==
    /\ HeapSpend /\ obj[i].kind = "pair"
    /\ obj' = IF first THEN [obj EXCEPT ![i].a = v] ELSE [obj EXCEPT ![i].b = v]
    /\ remembered' = ch_gc_write_barrier(i, v)
    /\ UNCHANGED <<held, exact>>

\* car, cdr, ephemeron-key and ephemeron-value.
Fetch(i, v) ==
    /\ HeapSpend /\ v \in Fields(obj, i)
    /\ Cardinality(held \cup {v}) <= MaxRoots
    /\ held' = held \cup {v}
    /\ UNCHANGED <<obj, remembered, exact>>

Forget(i) == held' = held \ {i} /\ UNCHANGED <<obj, remembered, heapOps, exact>>

\* (gc): ch_gc_collect.
Collect ==
    /\ HeapSpend
    /\ LET g == Major(Now, held)
       IN /\ obj' = g.os /\ remembered' = g.rem
          /\ exact' = Agrees(g.os, held, {})
    /\ UNCHANGED held

HeapNext ==
    \/ \E x, y \in held \cup {0}, k \in {"pair", "eph"} :
         \E keep \in {held, held \ {x}, held \ {y}} :
           Cardinality(keep) < MaxRoots /\ Make(k, x, y, keep)
    \/ \E i \in held :
         \/ Forget(i)
         \/ \E v \in Ids : Fetch(i, v)
         \/ \E v \in held \cup {0}, first \in BOOLEAN : SetField(i, v, first)
    \/ Collect

HeapSpec == HeapInit /\ [][HeapNext]_heapVars

-----------------------------------------------------------------------------
Reached == ToTheEnd([m \in SUBSET Ids |-> m \cup UNION {Fields(obj, i) : i \in m}], held)

\* What the program can reach, through pairs and through unbroken ephemerons,
\* and what the next minor collection will trace, is never freed.
ReachedIsAllocated == Reached \cup remembered \subseteq Live

\* A collection of either kind keeps what it must, unchanged, and breaks exactly
\* the ephemerons whose key nothing but ephemerons' values refers to; for a minor
\* one, an old object in the remembered set refers to it too, garbage or not.
EphemeronsExact == exact
=============================================================================
