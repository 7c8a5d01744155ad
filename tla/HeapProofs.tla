----------------------------- MODULE HeapProofs -----------------------------
(* Theorems about the collector's heap and about hash tables, for every       *)
(* number of addresses, keys and slots, every promotion age and every run.    *)
EXTENDS Heap, HashTable

Object == [kind : {"free", "pair", "eph"}, gen : {"young", "old"}, age : Nat,
           a : Ids \cup {0}, b : Ids \cup {0}, broken : BOOLEAN]

\* A heap and its remembered set as a collection finds and leaves them.
HeapType(g) == /\ g.os \in [Ids -> Object] /\ g.rem \in SUBSET Ids
               /\ \A i \in Ids : g.os[i].kind = "free" => g.os[i] = Free

LiveIn(os) == {i \in Ids : os[i].kind # "free"}

\* The objects m are allocated, and so is all they refer to.
Whole(os, m) == m \subseteq LiveIn(os) /\ \A i \in m : Fields(os, i) \subseteq m

\* What the roots rs and the remembered objects reach is allocated.  Other objects
\* may dangle: a major collection forgets which old objects refer to young ones,
\* and the next minor one then frees what only the old ones that have become
\* garbage refer to.
Sound(g, rs) == /\ g.rem \subseteq Old(g.os)
                /\ \E m \in SUBSET Ids : rs \cup g.rem \subseteq m /\ Whole(g.os, m)

HeapInv == /\ HeapType(Now) /\ Sound(Now, held)
           /\ held \in SUBSET Ids /\ heapOps \in Nat /\ exact = TRUE

-----------------------------------------------------------------------------
LEMMA IdsFinite == IsFiniteSet(Ids) /\ Ids \subseteq Nat \ {0} /\ 0 \notin Ids
  BY HeapAssumption

LEMMA FieldsAreIds ==
  ASSUME NEW os \in [Ids -> Object], NEW i \in Ids
  PROVE  Fields(os, i) \in SUBSET Ids
BY DEF Fields, Object

LEMMA ContentsAreIds ==
  ASSUME NEW os \in [Ids -> Object], NEW m \in SUBSET Ids
  PROVE  Contents(os, m) \in SUBSET Ids
BY FieldsAreIds DEF Contents

\* The end of a loop that only adds objects: it has what the loop starts from,
\* a further round changes nothing, and it has nothing that is not due.
LEMMA TheEnd ==
  ASSUME NEW step \in [SUBSET Ids -> SUBSET Ids], NEW s \in SUBSET Ids,
         \A m \in SUBSET Ids : m \subseteq step[m]
  PROVE  /\ ToTheEnd(step, s) \in SUBSET Ids
         /\ s \subseteq ToTheEnd(step, s)
         /\ step[ToTheEnd(step, s)] = ToTheEnd(step, s)
         /\ \A C : (s \subseteq C /\ \A m \in SUBSET Ids : m \subseteq C => step[m] \subseteq C)
                     => ToTheEnd(step, s) \subseteq C
<1>1. Cardinality(Ids) \in Nat  BY IdsFinite, FS_CardinalityType
<1> DEFINE e == Iterate(step, s, Cardinality(Ids))
<1>2. e \in SUBSET Ids /\ s \subseteq e /\ step[e] = e
  BY IdsFinite, FixedPoint
<1>3. ASSUME NEW C, s \subseteq C, \A m \in SUBSET Ids : m \subseteq C => step[m] \subseteq C
      PROVE  Iterate(step, s, Cardinality(Ids)) \subseteq C
  <2>1. \A n \in Nat : Iterate(step, s, n) \subseteq C  BY <1>3, StaysWithin
  <2> QED  BY <1>1, <2>1
<1> QED  BY <1>2, <1>3 DEF ToTheEnd

\* Mark is what the values reach through pairs.
LEMMA Marking ==
  ASSUME NEW os \in [Ids -> Object], NEW vs \in SUBSET Ids
  PROVE  /\ Mark(os, vs) \in SUBSET Ids /\ vs \subseteq Mark(os, vs)
         /\ Contents(os, Mark(os, vs)) \subseteq Mark(os, vs)
         /\ \A C : (vs \subseteq C /\ \A m \in SUBSET Ids : m \subseteq C => Contents(os, m) \subseteq C)
                     => Mark(os, vs) \subseteq C
<1> DEFINE step == [m \in SUBSET Ids |-> m \cup Contents(os, m)]
<1>1. step \in [SUBSET Ids -> SUBSET Ids] /\ \A m \in SUBSET Ids : step[m] = m \cup Contents(os, m)
  BY ContentsAreIds
<1>2. Mark(os, vs) = ToTheEnd(step, vs)  BY DEF Mark
<1> HIDE DEF step
<1>0. \A m \in SUBSET Ids : m \subseteq step[m]  BY <1>1
<1> DEFINE e == ToTheEnd(step, vs)
<1>3. e \in SUBSET Ids /\ vs \subseteq e /\ step[e] = e  BY <1>0, <1>1, TheEnd
<1>4. ASSUME NEW C, vs \subseteq C, \A m \in SUBSET Ids : m \subseteq C => Contents(os, m) \subseteq C
      PROVE  e \subseteq C
  <2>1. \A m \in SUBSET Ids : m \subseteq C => step[m] \subseteq C  BY <1>1, <1>4
  <2> QED  BY <1>0, <1>1, <1>4, <2>1, TheEnd
<1> HIDE DEF e
<1>5. Contents(os, e) \subseteq e  BY <1>1, <1>3
<1> QED  BY <1>2, <1>3, <1>4, <1>5 DEF e

LEMMA PairFields ==
  ASSUME NEW os, NEW m, NEW i \in m, os[i].kind = "pair"
  PROVE  Fields(os, i) \subseteq Contents(os, m)
BY DEF Contents

\* One pass over the ephemerons of a heap.
LEMMA WeakRounds ==
  ASSUME NEW os \in [Ids -> Object], NEW m \in SUBSET Ids, NEW rem \in SUBSET Ids
  PROVE  /\ WeakRound(os, m, rem) \in SUBSET Ids /\ m \subseteq WeakRound(os, m, rem)
         /\ Contents(os, WeakRound(os, m, rem)) \subseteq WeakRound(os, m, rem)
         /\ \A i \in m \cup rem : (os[i].kind = "eph" /\ (os[i].a = 0 \/ os[i].a \in m))
                                     => Fields(os, i) \subseteq WeakRound(os, m, rem)
         /\ \A rs : \A C \in SUBSET Ids : (Traced(os, rs, rem, C) /\ m \subseteq C)
                                        => WeakRound(os, m, rem) \subseteq C
<1> DEFINE keyed == {i \in Pending(os, m, rem) : os[i].a = 0 \/ os[i].a \in m}
           vs == m \cup UNION {Fields(os, i) : i \in keyed}
<1>1. keyed \subseteq Ids /\ vs \in SUBSET Ids  BY FieldsAreIds DEF Pending
<1>2. WeakRound(os, m, rem) = Mark(os, vs)  BY DEF WeakRound
<1>3. \A i \in m \cup rem : (os[i].kind = "eph" /\ (os[i].a = 0 \/ os[i].a \in m))
                               => Fields(os, i) \subseteq vs
  BY DEF Pending
<1>4. ASSUME NEW C \in SUBSET Ids, NEW rs, Traced(os, rs, rem, C), m \subseteq C
      PROVE  Mark(os, vs) \subseteq C
  <2>1. vs \subseteq C  BY <1>4 DEF Traced, Pending
  <2>2. \A n \in SUBSET Ids : n \subseteq C => Contents(os, n) \subseteq C
    BY <1>4 DEF Traced, Contents
  <2> HIDE DEF vs
  <2> QED  BY <1>1, <2>1, <2>2, Marking
<1>5. m \subseteq vs  OBVIOUS
<1> HIDE DEF vs
<1>6. /\ Mark(os, vs) \in SUBSET Ids /\ vs \subseteq Mark(os, vs)
      /\ Contents(os, Mark(os, vs)) \subseteq Mark(os, vs)
  BY <1>1, Marking
<1>7. \A i \in m \cup rem : (os[i].kind = "eph" /\ (os[i].a = 0 \/ os[i].a \in m))
                               => Fields(os, i) \subseteq Mark(os, vs)
  BY <1>3, <1>6
<1> QED  BY <1>2, <1>4, <1>5, <1>6, <1>7

LEMMA FreeHasNoFields ==
  ASSUME NEW g, HeapType(g), NEW i \in Ids, g.os[i].kind = "free"
  PROVE  Fields(g.os, i) = {} /\ g.os[i].a = 0 /\ g.os[i].gen = "young"
BY DEF HeapType, Fields, Free

\* The marks of a collection are what its roots keep.
MarksOf(g, rs) == WeakMark(g.os, Mark(g.os, rs \cup Contents(g.os, g.rem)), g.rem)

LEMMA WeakMarking ==
  ASSUME NEW g, HeapType(g), NEW rs \in SUBSET Ids
  PROVE  /\ MarksOf(g, rs) \in SUBSET Ids
         /\ Traced(g.os, rs, g.rem, MarksOf(g, rs))
         /\ MarksOf(g, rs) = Kept(g.os, rs, g.rem)
<1> DEFINE os == g.os
           rem == g.rem
           s == Mark(os, rs \cup Contents(os, rem))
           step == [m \in SUBSET Ids |-> WeakRound(os, m, rem)]
           W == ToTheEnd(step, s)
<1>1. os \in [Ids -> Object] /\ rem \in SUBSET Ids  BY DEF HeapType
<1>2. rs \cup Contents(os, rem) \in SUBSET Ids  BY <1>1, ContentsAreIds
<1>3. /\ s \in SUBSET Ids /\ rs \subseteq s /\ Contents(os, rem) \subseteq s
  BY <1>1, <1>2, Marking
<1> HIDE DEF os, rem
<1>4. /\ step \in [SUBSET Ids -> SUBSET Ids]
      /\ \A m \in SUBSET Ids : m \subseteq step[m] /\ step[m] = WeakRound(os, m, rem)
  <2>1. \A m \in SUBSET Ids : WeakRound(os, m, rem) \in SUBSET Ids /\ m \subseteq WeakRound(os, m, rem)
    BY <1>1, WeakRounds
  <2> QED  BY <2>1
<1>5. MarksOf(g, rs) = W  BY DEF MarksOf, WeakMark, os, rem
<1>6. ASSUME NEW C \in SUBSET Ids, Traced(os, rs, rem, C) PROVE W \subseteq C
  <2>1. rs \cup Contents(os, rem) \subseteq C  BY <1>6 DEF Traced, Contents
  <2>2. \A n \in SUBSET Ids : n \subseteq C => Contents(os, n) \subseteq C
    BY <1>6 DEF Traced, Contents
  <2>3. s \subseteq C  BY <1>1, <1>2, <2>1, <2>2, Marking
  <2>4. \A m \in SUBSET Ids : m \subseteq C => step[m] \subseteq C
    BY <1>1, <1>4, <1>6, WeakRounds
  <2> HIDE DEF s, step
  <2> QED  BY <1>3, <1>4, <2>3, <2>4, TheEnd
<1> HIDE DEF s, step, W
<1>7. W \in SUBSET Ids /\ s \subseteq W /\ step[W] = W  BY <1>3, <1>4, TheEnd DEF W
<1>8. WeakRound(os, W, rem) = W  BY <1>4, <1>7
<1>9. /\ Contents(os, W) \subseteq W
      /\ \A i \in W \cup rem : (os[i].kind = "eph" /\ (os[i].a = 0 \/ os[i].a \in W))
                                  => Fields(os, i) \subseteq W
  <2>1. W \in SUBSET Ids /\ rem \in SUBSET Ids /\ os \in [Ids -> Object]  BY <1>1, <1>7
  <2>2. Contents(os, WeakRound(os, W, rem)) \subseteq WeakRound(os, W, rem)  BY <2>1, WeakRounds
  <2>3. \A i \in W \cup rem : (os[i].kind = "eph" /\ (os[i].a = 0 \/ os[i].a \in W))
                                => Fields(os, i) \subseteq WeakRound(os, W, rem)
    BY <2>1, WeakRounds
  <2> QED  BY <1>8, <2>2, <2>3
<1>10. Traced(os, rs, rem, W)
  <2>1. rs \subseteq W  BY <1>3, <1>7
  <2>2. ASSUME NEW i \in W \cup rem, os[i].kind = "pair" \/ os[i].a = 0 \/ os[i].a \in W
        PROVE  Fields(os, i) \subseteq W
    <3>0. i \in Ids /\ os[i].kind \in {"free", "pair", "eph"}  BY <1>1, <1>7 DEF Object
    <3>1. CASE os[i].kind = "pair"
      <4>1. Fields(os, i) \subseteq Contents(os, W) \cup Contents(os, rem)  BY <3>1, PairFields
      <4> QED  BY <4>1, <1>3, <1>7, <1>9
    <3>2. CASE os[i].kind = "eph"  BY <3>2, <2>2, <1>9
    <3>3. CASE os[i].kind = "free"  BY <3>0, <3>3, FreeHasNoFields DEF os
    <3> QED  BY <3>0, <3>1, <3>2, <3>3
  <2> QED  BY <2>1, <2>2 DEF Traced
<1>11. W = Kept(os, rs, rem)  BY <1>6, <1>7, <1>10 DEF Kept
<1> QED  BY <1>5, <1>7, <1>10, <1>11 DEF os, rem

-----------------------------------------------------------------------------
\* The objects of a heap after Break: broken ones refer to nothing.
LEMMA Breaking ==
  ASSUME NEW os \in [Ids -> Object], NEW m \in SUBSET Ids, NEW rem \in SUBSET Ids, NEW i \in Ids
  PROVE  /\ Break(os, m, rem)[i] \in Object
         /\ Break(os, m, rem)[i].kind = os[i].kind /\ Break(os, m, rem)[i].gen = os[i].gen
         /\ (i \in m \cup rem /\ os[i].kind = "eph" /\ os[i].a # 0 /\ os[i].a \notin m)
               => /\ Break(os, m, rem)[i].broken = TRUE
                  /\ Break(os, m, rem)[i].a = 0 /\ Break(os, m, rem)[i].b = 0
         /\ ~(i \in m \cup rem /\ os[i].kind = "eph" /\ os[i].a # 0 /\ os[i].a \notin m)
               => Break(os, m, rem)[i] = os[i]
<1> DEFINE lost == i \in m \cup rem /\ os[i].kind = "eph" /\ os[i].a # 0 /\ os[i].a \notin m
<1>1. PICK q \in Object : q = os[i]  OBVIOUS
<1>2. PICK r \in Object : r = [q EXCEPT !.broken = TRUE, !.a = 0, !.b = 0]  BY DEF Object
<1>3. /\ r.kind = q.kind /\ r.gen = q.gen
      /\ r.broken = TRUE /\ r.a = 0 /\ r.b = 0
  BY <1>2 DEF Object
<1>4. Break(os, m, rem)[i] = IF lost THEN [os[i] EXCEPT !.broken = TRUE, !.a = 0, !.b = 0] ELSE os[i]
  BY DEF Break, Pending
<1>5. CASE lost
  <2>1. Break(os, m, rem)[i] = r  BY <1>1, <1>2, <1>4, <1>5
  <2> QED  BY <1>1, <1>3, <1>5, <2>1
<1>6. CASE ~lost
  <2>1. Break(os, m, rem)[i] = os[i]  BY <1>4, <1>6
  <2> QED  BY <1>1, <1>6, <2>1
<1> QED  BY <1>5, <1>6

LEMMA BreakKeepsKind ==
  ASSUME NEW os \in [Ids -> Object], NEW m \in SUBSET Ids, NEW rem \in SUBSET Ids, NEW i \in Ids
  PROVE  /\ Break(os, m, rem)[i] \in Object
         /\ Break(os, m, rem)[i].kind = os[i].kind /\ Break(os, m, rem)[i].gen = os[i].gen
BY Breaking, ZenonT(40)

LEMMA BreakBreaks ==
  ASSUME NEW os \in [Ids -> Object], NEW m \in SUBSET Ids, NEW rem \in SUBSET Ids, NEW i \in Ids,
         i \in m \cup rem, os[i].kind = "eph", os[i].a # 0, os[i].a \notin m
  PROVE  /\ Break(os, m, rem)[i].broken = TRUE
         /\ Break(os, m, rem)[i].a = 0 /\ Break(os, m, rem)[i].b = 0
BY Breaking, ZenonT(40)

LEMMA BreakKeepsOthers ==
  ASSUME NEW os \in [Ids -> Object], NEW m \in SUBSET Ids, NEW rem \in SUBSET Ids, NEW i \in Ids,
         ~(os[i].kind = "eph" /\ os[i].a # 0 /\ os[i].a \notin m)
  PROVE  Break(os, m, rem)[i] = os[i]
BY Breaking, ZenonT(40)

\* The heap of Minor from the heap os, the objects m being marked.
MinorHeap(os, m, rem) == Swept(Break(os, m, rem), m)
MajorHeap(os, m, rem) == sweep_list_major(Break(os, m, rem), m)

LEMMA FreeIsObject == Free \in Object /\ Free.kind = "free" /\ Free.gen = "young" /\ Free.a = 0 /\ Free.b = 0
BY DEF Free, Object

LEMMA Sweeping ==
  ASSUME NEW g, HeapType(g), NEW m \in SUBSET Ids, NEW i \in Ids
  PROVE  LET ns == MinorHeap(g.os, m, g.rem)
             bs == Break(g.os, m, g.rem)
         IN /\ ns[i] \in Object
            /\ ns[i].kind = "free" => ns[i] = Free
            /\ i \in m \/ g.os[i].gen = "old" =>
                 /\ ns[i].kind = bs[i].kind /\ ns[i].broken = bs[i].broken
                 /\ ns[i].a = bs[i].a /\ ns[i].b = bs[i].b
            /\ g.os[i].gen = "old" /\ g.os[i].kind # "free" => ns[i].gen = "old"
            /\ ns[i].gen = "old" /\ g.os[i].gen # "old" => i \in m
<1> DEFINE bs == Break(g.os, m, g.rem)
           ns == MinorHeap(g.os, m, g.rem)
<1>0. g.os \in [Ids -> Object] /\ g.rem \in SUBSET Ids  BY DEF HeapType
<1>1. bs[i] \in Object /\ bs[i].kind = g.os[i].kind /\ bs[i].gen = g.os[i].gen
  BY <1>0, BreakKeepsKind
<1>2. bs[i].kind = "free" => bs[i] = Free
  <2> SUFFICES ASSUME bs[i].kind = "free" PROVE bs[i] = Free  OBVIOUS
  <2>1. g.os[i].kind = "free" /\ g.os[i] = Free  BY <1>1 DEF HeapType
  <2>2. bs[i] = g.os[i]
    <3>1. ~(g.os[i].kind = "eph" /\ g.os[i].a # 0 /\ g.os[i].a \notin m)  BY <2>1
    <3> QED  BY <1>0, <3>1, BreakKeepsOthers
  <2> QED  BY <2>1, <2>2
<1>3. ns[i] = IF bs[i].kind = "free" \/ bs[i].gen = "old" THEN bs[i]
              ELSE IF i \notin m THEN Free
              ELSE IF bs[i].age + 1 >= PromotionAge THEN [bs[i] EXCEPT !.gen = "old", !.age = 0]
              ELSE [bs[i] EXCEPT !.age = @ + 1]
  BY DEF MinorHeap, Swept
<1>4. PICK q \in Object : q = bs[i]  BY <1>1
<1>5. PICK r \in Object : r = [q EXCEPT !.gen = "old", !.age = 0]  BY DEF Object
<1>5a. r.kind = q.kind /\ r.broken = q.broken /\ r.a = q.a /\ r.b = q.b /\ r.gen = "old"
  BY <1>5 DEF Object
<1>5b. q.age + 1 \in Nat  BY DEF Object
<1>5c. PICK t \in Object : t = [q EXCEPT !.age = @ + 1]  BY <1>5b DEF Object
<1>5d. t.kind = q.kind /\ t.broken = q.broken /\ t.a = q.a /\ t.b = q.b /\ t.gen = q.gen
  BY <1>5c DEF Object
<1> HIDE DEF ns, bs
<1>6. CASE bs[i].kind = "free" \/ bs[i].gen = "old"
  <2>1. ns[i] = bs[i]  BY <1>3, <1>6
  <2> QED  BY <1>1, <1>2, <1>6, <2>1, FreeIsObject DEF ns, bs
<1>7. CASE ~(bs[i].kind = "free" \/ bs[i].gen = "old") /\ i \notin m
  <2>1. ns[i] = Free  BY <1>3, <1>7
  <2> QED  BY <1>1, <1>7, <2>1, FreeIsObject DEF ns, bs
<1>8. CASE ~(bs[i].kind = "free" \/ bs[i].gen = "old") /\ i \in m /\ bs[i].age + 1 >= PromotionAge
  <2>1. ns[i] = r  BY <1>3, <1>4, <1>5, <1>8
  <2> QED  BY <1>1, <1>4, <1>5a, <1>8, <2>1 DEF ns, bs
<1>9. CASE ~(bs[i].kind = "free" \/ bs[i].gen = "old") /\ i \in m /\ ~(bs[i].age + 1 >= PromotionAge)
  <2>1. ns[i] = t  BY <1>3, <1>4, <1>5c, <1>9
  <2> QED  BY <1>1, <1>4, <1>5d, <1>9, <2>1 DEF ns, bs
<1> QED  BY <1>6, <1>7, <1>8, <1>9

LEMMA MajorSweeping ==
  ASSUME NEW g, HeapType(g), NEW m \in SUBSET Ids, NEW rem \in SUBSET Ids, NEW i \in Ids
  PROVE  LET ns == MajorHeap(g.os, m, rem)
         IN /\ ns[i] \in Object
            /\ ns[i].kind = "free" => ns[i] = Free
            /\ i \in m => ns[i] = Break(g.os, m, rem)[i]
<1> DEFINE bs == Break(g.os, m, rem)
<1>0. g.os \in [Ids -> Object]  BY DEF HeapType
<1>1. bs[i] \in Object /\ bs[i].kind = g.os[i].kind  BY <1>0, BreakKeepsKind
<1>2. bs[i].kind = "free" => bs[i] = Free
  <2> SUFFICES ASSUME bs[i].kind = "free" PROVE bs[i] = Free  OBVIOUS
  <2>1. g.os[i].kind = "free" /\ g.os[i] = Free  BY <1>1 DEF HeapType
  <2>2. bs[i] = g.os[i]
    <3>1. ~(g.os[i].kind = "eph" /\ g.os[i].a # 0 /\ g.os[i].a \notin m)  BY <2>1
    <3> QED  BY <1>0, <3>1, BreakKeepsOthers
  <2> QED  BY <2>1, <2>2
<1> HIDE DEF bs
<1>3. MajorHeap(g.os, m, rem)[i] = IF i \in m THEN bs[i] ELSE Free
  BY DEF MajorHeap, sweep_list_major, bs
<1> QED  BY <1>1, <1>2, <1>3, FreeIsObject DEF bs

LEMMA MinorIs ==
  ASSUME NEW g, HeapType(g), NEW rs \in SUBSET Ids
  PROVE  LET kept == Kept(g.os, rs, g.rem)
             ns == MinorHeap(g.os, kept, g.rem)
         IN /\ kept \in SUBSET Ids /\ Traced(g.os, rs, g.rem, kept)
            /\ Minor(g, rs).os = ns /\ ns \in [Ids -> Object]
            /\ Minor(g, rs).rem = prune_remembered_set(ns, g.rem \cup (Old(ns) \ Old(g.os)))
<1> DEFINE kept == Kept(g.os, rs, g.rem)
           ns == MinorHeap(g.os, kept, g.rem)
<1>1. kept \in SUBSET Ids /\ Traced(g.os, rs, g.rem, kept) /\ MarksOf(g, rs) = kept
  BY WeakMarking
<1>2. Minor(g, rs).os = ns /\ Minor(g, rs).rem = prune_remembered_set(ns, g.rem \cup (Old(ns) \ Old(g.os)))
  BY <1>1 DEF Minor, MarksOf, MinorHeap
<1>3. ns = [i \in Ids |-> ns[i]]  BY DEF MinorHeap, Swept
<1>4. \A i \in Ids : ns[i] \in Object  BY <1>1, Sweeping
<1> HIDE DEF ns
<1>5. ns \in [Ids -> Object]  BY <1>3, <1>4
<1> QED  BY <1>1, <1>2, <1>5 DEF ns

LEMMA MajorIs ==
  ASSUME NEW g, HeapType(g), NEW rs \in SUBSET Ids
  PROVE  LET kept == Kept(g.os, rs, {})
             ns == MajorHeap(g.os, kept, {})
         IN /\ kept \in SUBSET Ids /\ Traced(g.os, rs, {}, kept)
            /\ Major(g, rs).os = ns /\ ns \in [Ids -> Object] /\ Major(g, rs).rem = {}
<1> DEFINE kept == Kept(g.os, rs, {})
           ns == MajorHeap(g.os, kept, {})
           h == [os |-> g.os, rem |-> {}]
<1>1. HeapType(h) /\ h.os = g.os /\ h.rem = {}  BY DEF HeapType
<1> HIDE DEF h
<1>2. kept \in SUBSET Ids /\ Traced(g.os, rs, {}, kept) /\ MarksOf(h, rs) = kept
  BY <1>1, WeakMarking
<1>3. Contents(g.os, {}) = {}  BY DEF Contents
<1>4. MarksOf(h, rs) = WeakMark(g.os, Mark(g.os, rs), {})  BY <1>1, <1>3 DEF MarksOf
<1>5. Major(g, rs).os = ns /\ Major(g, rs).rem = {}  BY <1>2, <1>4 DEF Major, MajorHeap
<1>6. ns = [i \in Ids |-> ns[i]]  BY DEF MajorHeap, sweep_list_major
<1>7. \A i \in Ids : ns[i] \in Object  BY <1>2, MajorSweeping
<1> HIDE DEF ns
<1>8. ns \in [Ids -> Object]  BY <1>6, <1>7
<1> QED  BY <1>2, <1>5, <1>8 DEF ns

-----------------------------------------------------------------------------
\* What the roots keep is allocated.
LEMMA KeptIsWhole ==
  ASSUME NEW g, HeapType(g), NEW rs \in SUBSET Ids, NEW rem \in SUBSET Ids,
         NEW m \in SUBSET Ids, rs \cup rem \subseteq m, Whole(g.os, m)
  PROVE  Kept(g.os, rs, rem) \subseteq m
<1>1. Traced(g.os, rs, rem, m)  BY DEF Traced, Whole
<1> QED  BY <1>1 DEF Kept

\* After a break, a kept or remembered object refers to kept ones alone.
LEMMA BrokenFields ==
  ASSUME NEW g, HeapType(g), NEW rem \in SUBSET Ids, NEW rs, NEW m \in SUBSET Ids,
         Traced(g.os, rs, rem, m), NEW i \in Ids, i \in m \/ i \in rem
  PROVE  {Break(g.os, m, rem)[i].a, Break(g.os, m, rem)[i].b} \ {0} \subseteq m
<1>0. i \in Ids /\ g.os \in [Ids -> Object] /\ g.os[i].kind \in {"free", "pair", "eph"}
  BY DEF HeapType, Object
<1>1. CASE g.os[i].kind = "eph" /\ g.os[i].a # 0 /\ g.os[i].a \notin m
  <2>1. Break(g.os, m, rem)[i].a = 0 /\ Break(g.os, m, rem)[i].b = 0
    <3>1. i \in m \cup rem  OBVIOUS
    <3> QED  BY <1>0, <1>1, <3>1, BreakBreaks
  <2> QED  BY <2>1
<1>2. CASE ~(g.os[i].kind = "eph" /\ g.os[i].a # 0 /\ g.os[i].a \notin m)
  <2>1. Break(g.os, m, rem)[i] = g.os[i]  BY <1>0, <1>2, BreakKeepsOthers
  <2>2. Fields(g.os, i) \subseteq m
    <3>1. CASE g.os[i].kind = "free"  BY <1>0, <3>1, FreeHasNoFields
    <3>2. CASE g.os[i].kind = "pair"  BY <3>2 DEF Traced
    <3>3. CASE g.os[i].kind = "eph"  BY <3>3, <1>2 DEF Traced
    <3> QED  BY <1>0, <3>1, <3>2, <3>3
  <2> QED  BY <2>1, <2>2 DEF Fields
<1> QED  BY <1>1, <1>2

LEMMA MinorSound ==
  ASSUME NEW g, HeapType(g), NEW rs \in SUBSET Ids, Sound(g, rs)
  PROVE  HeapType(Minor(g, rs)) /\ Sound(Minor(g, rs), rs)
<1> DEFINE K == Kept(g.os, rs, g.rem)
           bs == Break(g.os, K, g.rem)
           ns == MinorHeap(g.os, K, g.rem)
           nr == Minor(g, rs).rem
<1>0. g.os \in [Ids -> Object] /\ g.rem \in SUBSET Ids  BY DEF HeapType
<1>1. K \in SUBSET Ids /\ Traced(g.os, rs, g.rem, K)  BY MinorIs
<1>2. Minor(g, rs).os = ns /\ ns \in [Ids -> Object]  BY MinorIs
<1>3. nr = prune_remembered_set(ns, g.rem \cup (Old(ns) \ Old(g.os)))  BY MinorIs
<1> HIDE DEF nr, ns, K, bs
<1>4. \A i \in Ids : ns[i].kind = "free" => ns[i] = Free  BY <1>1, Sweeping DEF ns
<1>5. \A i \in Ids : i \in K \/ g.os[i].gen = "old" =>
        ns[i].kind = g.os[i].kind /\ ns[i].a = bs[i].a /\ ns[i].b = bs[i].b
  <2> SUFFICES ASSUME NEW i \in Ids, i \in K \/ g.os[i].gen = "old"
               PROVE  ns[i].kind = g.os[i].kind /\ ns[i].a = bs[i].a /\ ns[i].b = bs[i].b
    OBVIOUS
  <2>1. ns[i].kind = bs[i].kind /\ ns[i].a = bs[i].a /\ ns[i].b = bs[i].b
    BY <1>1, Sweeping DEF ns, bs
  <2>2. bs[i].kind = g.os[i].kind  BY <1>0, <1>1, BreakKeepsKind DEF bs
  <2> QED  BY <2>1, <2>2
<1>6. \A i \in Ids : /\ g.os[i].gen = "old" /\ g.os[i].kind # "free" => ns[i].gen = "old"
                     /\ ns[i].gen = "old" /\ g.os[i].gen # "old" => i \in K
  BY <1>1, Sweeping DEF ns
<1>7. g.rem \subseteq Old(g.os)  BY DEF Sound
<1>8. PICK m \in SUBSET Ids : rs \cup g.rem \subseteq m /\ Whole(g.os, m)  BY DEF Sound
<1>9. K \subseteq m  BY <1>0, <1>8, KeptIsWhole DEF K
<1>10. \A i \in K \cup g.rem : /\ i \in Ids /\ g.os[i].kind # "free"
                               /\ i \in K \/ g.os[i].gen = "old"
  BY <1>1, <1>7, <1>8, <1>9 DEF Whole, LiveIn, Old
<1>11. \A i \in Old(ns) \ Old(g.os) : i \in K
  <2> SUFFICES ASSUME NEW i \in Old(ns) \ Old(g.os), i \notin K PROVE FALSE  OBVIOUS
  <2>1. i \in Ids /\ ns[i].kind # "free" /\ ns[i].gen = "old"  BY DEF Old
  <2>2. g.os[i].gen = "old"  BY <1>6, <2>1
  <2>3. ns[i].kind = g.os[i].kind  BY <1>5, <2>1, <2>2
  <2> QED  BY <2>1, <2>2, <2>3 DEF Old
<1>12. nr \subseteq K \cup g.rem /\ nr \subseteq Old(ns)
  <2>1. nr \subseteq g.rem \cup (Old(ns) \ Old(g.os))  BY <1>3 DEF prune_remembered_set
  <2>2. g.rem \subseteq Old(ns)
    <3> SUFFICES ASSUME NEW i \in g.rem PROVE i \in Old(ns)  OBVIOUS
    <3>1. i \in Ids /\ g.os[i].kind # "free" /\ g.os[i].gen = "old"  BY <1>7 DEF Old
    <3> QED  BY <3>1, <1>5, <1>6 DEF Old
  <2> QED  BY <2>1, <2>2, <1>11
<1>13. Whole(ns, K \cup g.rem)
  <2> SUFFICES ASSUME NEW i \in K \cup g.rem
               PROVE  i \in LiveIn(ns) /\ Fields(ns, i) \subseteq K \cup g.rem
    BY DEF Whole
  <2>1. i \in Ids /\ ns[i].kind # "free" /\ ns[i].a = bs[i].a /\ ns[i].b = bs[i].b  BY <1>5, <1>10
  <2>2. {bs[i].a, bs[i].b} \ {0} \subseteq K
    <3>1. /\ g.rem \in SUBSET Ids /\ K \in SUBSET Ids
          /\ Traced(g.os, rs, g.rem, K) /\ i \in Ids /\ (i \in K \/ i \in g.rem)
      BY <1>0, <1>1
    <3>2. \A rem \in SUBSET Ids, k \in SUBSET Ids :
            (Traced(g.os, rs, rem, k) /\ (i \in k \/ i \in rem))
               => {Break(g.os, k, rem)[i].a, Break(g.os, k, rem)[i].b} \ {0} \subseteq k
      BY <3>1, BrokenFields
    <3> QED  BY <3>1, <3>2 DEF bs
  <2> QED  BY <2>1, <2>2 DEF LiveIn, Fields
<1>14. rs \subseteq K  BY <1>1 DEF Traced
<1>15. HeapType(Minor(g, rs))  BY <1>0, <1>1, <1>2, <1>4, <1>12 DEF HeapType, nr
<1>16. rs \cup nr \subseteq K \cup g.rem /\ K \cup g.rem \in SUBSET Ids
  BY <1>0, <1>1, <1>12, <1>14
<1> QED  BY <1>2, <1>12, <1>13, <1>15, <1>16 DEF Sound, nr

LEMMA MajorSound ==
  ASSUME NEW g, HeapType(g), NEW rs \in SUBSET Ids,
         NEW m \in SUBSET Ids, rs \subseteq m, Whole(g.os, m)
  PROVE  HeapType(Major(g, rs)) /\ Sound(Major(g, rs), rs)
<1> DEFINE K == Kept(g.os, rs, {})
           bs == Break(g.os, K, {})
           ns == MajorHeap(g.os, K, {})
<1>0. g.os \in [Ids -> Object]  BY DEF HeapType
<1>1. K \in SUBSET Ids /\ Traced(g.os, rs, {}, K)  BY MajorIs
<1>2. Major(g, rs).os = ns /\ ns \in [Ids -> Object] /\ Major(g, rs).rem = {}  BY MajorIs
<1> HIDE DEF ns, K, bs
<1>4. \A i \in Ids : ns[i].kind = "free" => ns[i] = Free  BY <1>1, MajorSweeping, ZenonT(40) DEF ns
<1>5. \A i \in K : ns[i] = bs[i]  BY <1>1, MajorSweeping DEF ns, bs
<1>6. \A i \in K : bs[i].kind = g.os[i].kind  BY <1>0, <1>1, BreakKeepsKind DEF bs
<1>9. K \subseteq m  BY KeptIsWhole DEF K
<1>13. Whole(ns, K)
  <2> SUFFICES ASSUME NEW i \in K PROVE i \in LiveIn(ns) /\ Fields(ns, i) \subseteq K
    BY DEF Whole
  <2>1. i \in Ids /\ ns[i].kind # "free"  BY <1>1, <1>5, <1>6, <1>9 DEF Whole, LiveIn
  <2>2. {bs[i].a, bs[i].b} \ {0} \subseteq K  BY <1>1, BrokenFields DEF bs
  <2> QED  BY <1>5, <2>1, <2>2 DEF LiveIn, Fields
<1>14. rs \subseteq K  BY <1>1 DEF Traced
<1>15. HeapType(Major(g, rs))  BY <1>2, <1>4 DEF HeapType
<1> QED  BY <1>1, <1>2, <1>13, <1>14, <1>15 DEF Sound

-----------------------------------------------------------------------------
\* A heap os that has what rs keep in obj: Agrees, object by object.
Same(os, i, lost) == /\ os[i].kind = obj[i].kind
                     /\ os[i].broken = (obj[i].broken \/ lost)
                     /\ ~lost => os[i].a = obj[i].a /\ os[i].b = obj[i].b
Lost(i, kept) == obj[i].kind = "eph" /\ obj[i].a # 0 /\ obj[i].a \notin kept

LEMMA AgreesIs ==
  ASSUME NEW os, NEW rs, NEW rem,
         \A i \in Kept(obj, rs, rem) : Same(os, i, Lost(i, Kept(obj, rs, rem)))
  PROVE  Agrees(os, rs, rem)
BY DEF Agrees, Same, Lost

LEMMA BreakSame ==
  ASSUME obj \in [Ids -> Object], NEW m \in SUBSET Ids, NEW rem \in SUBSET Ids, NEW i \in m
  PROVE  Same(Break(obj, m, rem), i, Lost(i, m))
<1> DEFINE bs == Break(obj, m, rem)
<1>0. i \in Ids /\ i \in m \cup rem  OBVIOUS
<1>1. CASE Lost(i, m)
  <2>1. bs[i].broken = TRUE  BY <1>0, <1>1, Breaking DEF Lost
  <2>2. bs[i].kind = obj[i].kind  BY <1>0, BreakKeepsKind
  <2> QED  BY <1>1, <2>1, <2>2 DEF Same
<1>2. CASE ~Lost(i, m)
  <2>1. bs[i] = obj[i]  BY <1>0, <1>2, BreakKeepsOthers DEF Lost
  <2>2. obj[i].broken \in BOOLEAN  BY <1>0 DEF Object
  <2> QED  BY <1>2, <2>1, <2>2 DEF Same
<1> QED  BY <1>1, <1>2

LEMMA MinorAgrees ==
  ASSUME HeapType(Now), NEW rs \in SUBSET Ids
  PROVE  Agrees(Minor(Now, rs).os, rs, remembered)
<1> DEFINE K == Kept(obj, rs, remembered)
           bs == Break(obj, K, remembered)
           ns == MinorHeap(obj, K, remembered)
<1>0. Now.os = obj /\ Now.rem = remembered /\ obj \in [Ids -> Object] /\ remembered \in SUBSET Ids
  BY DEF Now, HeapType
<1>1. K \in SUBSET Ids /\ Minor(Now, rs).os = ns  BY <1>0, MinorIs
<1>2. \A i \in K : /\ ns[i].kind = bs[i].kind /\ ns[i].broken = bs[i].broken
                   /\ ns[i].a = bs[i].a /\ ns[i].b = bs[i].b
  BY <1>0, <1>1, Sweeping
<1>3. \A i \in K : Same(bs, i, Lost(i, K))  BY <1>0, <1>1, BreakSame
<1> HIDE DEF ns, bs
<1>4. \A i \in K : Same(ns, i, Lost(i, K))  BY <1>2, <1>3 DEF Same
<1> QED  BY <1>1, <1>4, AgreesIs

LEMMA MajorAgrees ==
  ASSUME HeapType(Now), NEW rs \in SUBSET Ids
  PROVE  Agrees(Major(Now, rs).os, rs, {})
<1> DEFINE K == Kept(obj, rs, {})
           bs == Break(obj, K, {})
           ns == MajorHeap(obj, K, {})
<1>0. Now.os = obj /\ obj \in [Ids -> Object]  BY DEF Now, HeapType
<1>1. K \in SUBSET Ids /\ Major(Now, rs).os = ns  BY <1>0, MajorIs
<1>2. \A i \in K : ns[i] = bs[i]
  <2> SUFFICES ASSUME NEW i \in K PROVE ns[i] = bs[i]  OBVIOUS
  <2>1. i \in Ids /\ {} \in SUBSET Ids  BY <1>1
  <2> HIDE DEF K
  <2>2. MajorHeap(Now.os, K, {})[i] = Break(Now.os, K, {})[i]  BY <1>1, <2>1, MajorSweeping
  <2> QED  BY <1>0, <2>2
<1>3. \A i \in K : Same(bs, i, Lost(i, K))  BY <1>0, <1>1, BreakSame
<1> HIDE DEF ns, bs
<1>4. \A i \in K : Same(ns, i, Lost(i, K))  BY <1>2, <1>3 DEF Same
<1> QED  BY <1>1, <1>4, AgreesIs

\* A minor collection before the major one changes nothing of what is kept: the
\* ephemerons it breaks are those the major one would break.
LEMMA BothAgree ==
  ASSUME HeapType(Now), NEW rs \in SUBSET Ids, HeapType(Minor(Now, rs))
  PROVE  Agrees(Major(Minor(Now, rs), rs).os, rs, {})
<1> DEFINE g == Minor(Now, rs)
           L == Kept(obj, rs, remembered)
           K == Kept(obj, rs, {})
           M == Kept(g.os, rs, {})
           bs == Break(obj, L, remembered)
           ns == Major(g, rs).os
<1>0. Now.os = obj /\ Now.rem = remembered /\ obj \in [Ids -> Object] /\ remembered \in SUBSET Ids
  BY DEF Now, HeapType
<1>1. /\ L \in SUBSET Ids /\ Traced(obj, rs, remembered, L)
      /\ g.os = MinorHeap(obj, L, remembered) /\ g.os \in [Ids -> Object]
  <2>1. LET kept == Kept(Now.os, rs, Now.rem)
        IN /\ kept \in SUBSET Ids /\ Traced(Now.os, rs, Now.rem, kept)
           /\ g.os = MinorHeap(Now.os, kept, Now.rem) /\ g.os \in [Ids -> Object]
    BY MinorIs, ZenonT(40)
  <2> HIDE DEF g
  <2> QED  BY <1>0, <2>1
<1>2. K \in SUBSET Ids /\ Traced(obj, rs, {}, K)  BY <1>0, MajorIs
<1>3. /\ M \in SUBSET Ids /\ Traced(g.os, rs, {}, M)
      /\ ns = MajorHeap(g.os, M, {})
  BY MajorIs
<1>4. \A i \in L : /\ g.os[i].kind = bs[i].kind /\ g.os[i].broken = bs[i].broken
                   /\ g.os[i].a = bs[i].a /\ g.os[i].b = bs[i].b
  BY <1>0, <1>1, Sweeping
<1>5. \A i \in L : i \in Ids /\ (Lost(i, L) => bs[i].a = 0 /\ bs[i].b = 0 /\ bs[i].broken = TRUE)
  <2> SUFFICES ASSUME NEW i \in L, Lost(i, L) PROVE bs[i].a = 0 /\ bs[i].b = 0 /\ bs[i].broken = TRUE
    BY <1>1
  <2>1. i \in Ids /\ obj[i].kind = "eph" /\ obj[i].a # 0 /\ obj[i].a \notin L  BY <1>1 DEF Lost
  <2> HIDE DEF L
  <2>2. \A k \in SUBSET Ids : (i \in k /\ obj[i].a \notin k) =>
          /\ Break(obj, k, remembered)[i].broken = TRUE
          /\ Break(obj, k, remembered)[i].a = 0 /\ Break(obj, k, remembered)[i].b = 0
    <3>1. obj \in [Ids -> Object] /\ remembered \in SUBSET Ids  BY <1>0
    <3> TAKE k \in SUBSET Ids
    <3> HAVE i \in k /\ obj[i].a \notin k
    <3>2. i \in k \cup remembered  OBVIOUS
    <3> QED  BY <2>1, <3>1, <3>2, BreakBreaks, ZenonT(40)
  <2> QED  BY <1>1, <2>1, <2>2
<1>6. \A i \in L : Same(bs, i, Lost(i, L))  BY <1>0, <1>1, BreakSame
<1>7. Traced(obj, rs, {}, L)  BY <1>1 DEF Traced
<1>8. K \subseteq L  BY <1>1, <1>7 DEF Kept
<1>9. \A i \in Ids : obj[i].kind \in {"free", "pair", "eph"} /\ (obj[i].kind = "free" => Fields(obj, i) = {} /\ obj[i].a = 0)
  <2>1. \A i \in Ids : obj[i].kind = "free" => Fields(obj, i) = {} /\ obj[i].a = 0
    BY <1>0, FreeHasNoFields
  <2> QED  BY <1>0, <2>1 DEF Object
<1> HIDE DEF g, L, K, M, bs, ns
<1>10. \A i \in L : Same(g.os, i, Lost(i, L))  BY <1>4, <1>6 DEF Same
<1>11. \A i \in L : Lost(i, L) => g.os[i].a = 0 /\ g.os[i].b = 0 /\ g.os[i].broken = TRUE
  BY <1>4, <1>5
<1>12. M \subseteq K
  <2>1. ASSUME NEW i \in K, g.os[i].kind = "pair" \/ g.os[i].a = 0 \/ g.os[i].a \in K
        PROVE  Fields(g.os, i) \subseteq K
    <3>0. i \in L /\ i \in Ids  BY <1>2, <1>8
    <3>1. CASE Lost(i, L)  BY <3>0, <3>1, <1>11 DEF Fields
    <3>2. CASE ~Lost(i, L)
      <4>1. g.os[i].kind = obj[i].kind /\ g.os[i].a = obj[i].a /\ g.os[i].b = obj[i].b
        BY <3>0, <3>2, <1>10 DEF Same
      <4>2. Fields(obj, i) \subseteq K  BY <2>1, <4>1, <1>2 DEF Traced
      <4> QED  BY <4>1, <4>2 DEF Fields
    <3> QED  BY <3>1, <3>2
  <2>2. Traced(g.os, rs, {}, K)  BY <2>1, <1>2 DEF Traced
  <2> QED  BY <2>2, <1>2 DEF Kept, M
<1>13. K \subseteq M
  <2>1. ASSUME NEW i \in M, obj[i].kind = "pair" \/ obj[i].a = 0 \/ obj[i].a \in M
        PROVE  Fields(obj, i) \subseteq M
    <3>0. i \in L /\ i \in Ids  BY <1>2, <1>8, <1>12
    <3>1. ~Lost(i, L)  BY <2>1, <3>0, <1>8, <1>12 DEF Lost
    <3>2. g.os[i].kind = obj[i].kind /\ g.os[i].a = obj[i].a /\ g.os[i].b = obj[i].b
      BY <3>0, <3>1, <1>10 DEF Same
    <3>3. Fields(g.os, i) \subseteq M  BY <2>1, <3>2, <1>3 DEF Traced
    <3> QED  BY <3>2, <3>3 DEF Fields
  <2>2. Traced(obj, rs, {}, M)  BY <2>1, <1>3 DEF Traced
  <2> QED  BY <2>2, <1>3 DEF Kept, K
<1>14. M = K  BY <1>12, <1>13
<1> DEFINE cs == Break(g.os, M, {})
<1>15. \A i \in M : ns[i] = cs[i]  BY <1>3, MajorSweeping DEF g
<1>16. ASSUME NEW i \in K PROVE Same(ns, i, Lost(i, K))
  <2>0. i \in L /\ i \in Ids /\ i \in M /\ ns[i] = cs[i]  BY <1>2, <1>8, <1>14, <1>15
  <2>0a. obj[i].broken \in BOOLEAN  BY <1>0, <2>0 DEF Object
  <2>1. CASE Lost(i, L)
    <3>1. g.os[i].a = 0 /\ g.os[i].broken = TRUE /\ g.os[i].kind = obj[i].kind
      BY <2>0, <2>1, <1>10, <1>11 DEF Same
    <3>2. cs[i] = g.os[i]  BY <1>1, <1>3, <2>0, <3>1, BreakKeepsOthers
    <3>3. Lost(i, K)  BY <2>1, <1>8 DEF Lost
    <3> HIDE DEF cs
    <3> QED  BY <2>0, <3>1, <3>2, <3>3 DEF Same
  <2>2. CASE ~Lost(i, L)
    <3>1. /\ g.os[i].kind = obj[i].kind /\ g.os[i].a = obj[i].a /\ g.os[i].b = obj[i].b
          /\ g.os[i].broken = obj[i].broken
      BY <2>0, <2>0a, <2>2, <1>10 DEF Same
    <3>2. CASE Lost(i, K)
      <4>1. cs[i].broken = TRUE
        <5>1. /\ i \in M \cup {} /\ g.os[i].kind = "eph"
              /\ g.os[i].a # 0 /\ g.os[i].a \notin M
          BY <1>14, <2>0, <3>1, <3>2 DEF Lost
        <5> QED  BY <1>1, <1>3, <2>0, <5>1, BreakBreaks
      <4>2. cs[i].kind = g.os[i].kind  BY <1>1, <1>3, <2>0, BreakKeepsKind
      <4> HIDE DEF cs
      <4> QED  BY <2>0, <3>1, <3>2, <4>1, <4>2 DEF Same
    <3>3. CASE ~Lost(i, K)
      <4>1. cs[i] = g.os[i]  BY <1>1, <1>3, <1>14, <2>0, <3>1, <3>3, BreakKeepsOthers DEF Lost
      <4> HIDE DEF cs
      <4> QED  BY <2>0, <2>0a, <3>1, <3>3, <4>1 DEF Same
    <3> QED  BY <3>2, <3>3
  <2> QED  BY <2>1, <2>2
<1> QED  BY <1>16, AgreesIs DEF K, ns, g

-----------------------------------------------------------------------------
LEMMA HeapInvInit == HeapInit => HeapInv
<1> SUFFICES ASSUME HeapInit PROVE HeapInv  OBVIOUS
<1>1. obj \in [Ids -> Object] /\ \A i \in Ids : obj[i] = Free  BY FreeIsObject DEF HeapInit
<1>2. HeapType(Now)  BY <1>1 DEF HeapInit, HeapType, Now
<1>3. {} \in SUBSET Ids /\ held \cup remembered \subseteq {} /\ Whole(obj, {})
  BY DEF HeapInit, Whole
<1>4. Sound(Now, held)  BY <1>3 DEF Sound, Now, HeapInit
<1> QED  BY <1>2, <1>4 DEF HeapInv, HeapInit

\* What may have happened when ch_gc_alloc returns.
LEMMA CollectionsSound ==
  ASSUME HeapType(Now), NEW rs \in SUBSET Ids, Sound(Now, rs), NEW g \in Collections(rs)
  PROVE  HeapType(g) /\ Sound(g, rs) /\ Lawful(g, rs)
<1>1. HeapType(Minor(Now, rs)) /\ Sound(Minor(Now, rs), rs)  BY MinorSound
<1>2. CASE g = Now  BY <1>2 DEF Lawful
<1>3. CASE g = Minor(Now, rs)
  <2>1. Agrees(Minor(Now, rs).os, rs, remembered)  BY MinorAgrees
  <2> QED  BY <1>1, <1>3, <2>1 DEF Lawful
<1>4. CASE g = Major(Minor(Now, rs), rs) /\ g # Minor(Now, rs)
  <2>1. PICK m \in SUBSET Ids : rs \subseteq m /\ Whole(Minor(Now, rs).os, m)
    BY <1>1 DEF Sound
  <2>2. HeapType(g) /\ Sound(g, rs)  BY <1>1, <1>4, <2>1, MajorSound
  <2>3. Agrees(g.os, rs, {})  BY <1>1, <1>4, BothAgree
  <2> QED  BY <1>4, <2>2, <2>3 DEF Lawful
<1> QED  BY <1>2, <1>3, <1>4 DEF Collections

\* What is held stays sound when some of it is forgotten or what is reached is
\* held as well.
LEMMA NewObject ==
  ASSUME NEW k \in {"pair", "eph"}, NEW x \in Ids \cup {0}, NEW y \in Ids \cup {0}
  PROVE  /\ New(k, x, y) \in Object /\ New(k, x, y).kind = k /\ New(k, x, y).gen = "young"
         /\ New(k, x, y).a = x /\ New(k, x, y).b = y
BY DEF New, Free, Object

LEMMA MakeKeeps ==
  ASSUME HeapInv, NEW k \in {"pair", "eph"}, NEW x \in held \cup {0}, NEW y \in held \cup {0},
         NEW keep \in SUBSET held, Make(k, x, y, keep)
  PROVE  HeapInv'
<1> DEFINE rs == keep \cup AllocRoots(x, y)
<1>1. rs \in SUBSET Ids /\ rs \subseteq held /\ keep \subseteq rs /\ {x, y} \ {0} \subseteq rs
  BY DEF AllocRoots, HeapInv
<1>2. PICK g \in Collections(rs), i \in Ids :
        /\ g.os[i].kind = "free"
        /\ obj' = [g.os EXCEPT ![i] = New(k, x, y)] /\ remembered' = g.rem
        /\ held' = keep \cup {i} /\ exact' = Lawful(g, rs)
  BY Zenon DEF Make
<1> HIDE DEF rs
<1>3. Sound(Now, rs)
  <2>1. PICK m \in SUBSET Ids : held \cup Now.rem \subseteq m /\ Whole(Now.os, m)
    BY DEF HeapInv, Sound
  <2>2. rs \cup Now.rem \subseteq m  BY <1>1, <2>1
  <2> QED  BY <2>1, <2>2 DEF HeapInv, Sound
<1>4. HeapType(g) /\ Sound(g, rs) /\ Lawful(g, rs)
  BY <1>1, <1>3, CollectionsSound DEF HeapInv
<1>5. PICK m \in SUBSET Ids : rs \cup g.rem \subseteq m /\ Whole(g.os, m)  BY <1>4 DEF Sound
<1>6. g.os \in [Ids -> Object] /\ g.rem \in SUBSET Ids  BY <1>4 DEF HeapType
<1>7. i \notin m /\ i \notin g.rem  BY <1>2, <1>5 DEF Whole, LiveIn
<1>8. x \in Ids \cup {0} /\ y \in Ids \cup {0}  BY <1>1
<1>9. PICK q \in Object : q = New(k, x, y)  BY <1>8, NewObject
<1>10. q.kind = k /\ q.gen = "young" /\ q.a = x /\ q.b = y  BY <1>8, <1>9, NewObject
<1>11. obj' = [g.os EXCEPT ![i] = q]  BY <1>2, <1>9
<1>12. obj' \in [Ids -> Object] /\ obj'[i] = q /\ \A j \in Ids : j # i => obj'[j] = g.os[j]
  BY <1>6, <1>11
<1>13. \A j \in Ids : obj'[j].kind = "free" => obj'[j] = Free
  BY <1>4, <1>10, <1>12 DEF HeapType
<1>14. HeapType(Now')  BY <1>2, <1>6, <1>12, <1>13 DEF HeapType, Now
<1>15. remembered' \subseteq Old(obj')
  <2>1. \A j \in g.rem : j \in Ids /\ j # i /\ g.os[j].kind # "free" /\ g.os[j].gen = "old"
    BY <1>4, <1>6, <1>7 DEF Sound, Old
  <2> QED  BY <1>2, <1>12, <2>1 DEF Old
<1>16. Whole(obj', m \cup {i})
  <2> SUFFICES ASSUME NEW j \in m \cup {i}
               PROVE  j \in LiveIn(obj') /\ Fields(obj', j) \subseteq m \cup {i}
    BY DEF Whole
  <2>1. CASE j = i
    <3>1. Fields(obj', j) \subseteq {x, y} \ {0}  BY <2>1, <1>10, <1>12 DEF Fields
    <3> QED  BY <2>1, <3>1, <1>1, <1>5, <1>10, <1>12 DEF LiveIn
  <2>2. CASE j # i
    <3>1. j \in m /\ obj'[j] = g.os[j]  BY <2>2, <1>12
    <3>2. j \in LiveIn(g.os) /\ Fields(g.os, j) \subseteq m  BY <1>5, <3>1 DEF Whole
    <3> QED  BY <3>1, <3>2 DEF LiveIn, Fields
  <2> QED  BY <2>1, <2>2
<1>17. held' \cup remembered' \subseteq m \cup {i} /\ m \cup {i} \in SUBSET Ids
  BY <1>1, <1>2, <1>5
<1>18. Sound(Now, held)'  BY <1>15, <1>16, <1>17 DEF Sound, Now
<1>19. held' \in SUBSET Ids  BY <1>1, <1>2
<1>20. heapOps' \in Nat  BY DEF Make, HeapSpend, HeapInv
<1>21. exact' = TRUE  BY <1>2, <1>4
<1> QED  BY <1>14, <1>18, <1>19, <1>20, <1>21 DEF HeapInv

LEMMA SetFieldKeeps ==
  ASSUME HeapInv, NEW i \in held, NEW v \in held \cup {0}, NEW first \in BOOLEAN,
         SetField(i, v, first)
  PROVE  HeapInv'
<1>0. obj \in [Ids -> Object] /\ remembered \in SUBSET Ids /\ i \in Ids /\ v \in Ids \cup {0}
  BY DEF HeapInv, HeapType, Now
<1>1. PICK m \in SUBSET Ids : held \cup remembered \subseteq m /\ Whole(obj, m)
  BY DEF HeapInv, Sound, Now
<1>2. PICK q \in Object : q = obj[i]  BY <1>0
<1>3. q.kind = "pair"  BY <1>2 DEF SetField
<1>4. PICK r \in Object : /\ obj' = [obj EXCEPT ![i] = r]
                          /\ r.kind = "pair" /\ r.gen = q.gen
                          /\ {r.a, r.b} \subseteq {q.a, q.b, v}
  <2>1. CASE first
    <3>1. obj' = [obj EXCEPT ![i] = [q EXCEPT !.a = v]]  BY <2>1, <1>0, <1>2 DEF SetField
    <3>2. PICK r \in Object : r = [q EXCEPT !.a = v]  BY <1>0 DEF Object
    <3>3. r.kind = q.kind /\ r.gen = q.gen /\ r.a = v /\ r.b = q.b  BY <3>2 DEF Object
    <3> QED  BY <1>3, <3>1, <3>2, <3>3
  <2>2. CASE ~first
    <3>1. obj' = [obj EXCEPT ![i] = [q EXCEPT !.b = v]]  BY <2>2, <1>0, <1>2 DEF SetField
    <3>2. PICK r \in Object : r = [q EXCEPT !.b = v]  BY <1>0 DEF Object
    <3>3. r.kind = q.kind /\ r.gen = q.gen /\ r.b = v /\ r.a = q.a  BY <3>2 DEF Object
    <3> QED  BY <1>3, <3>1, <3>2, <3>3
  <2> QED  BY <2>1, <2>2
<1>5. obj' \in [Ids -> Object] /\ obj'[i] = r /\ \A j \in Ids : j # i => obj'[j] = obj[j]
  BY <1>0, <1>4
<1>6. \A j \in Ids : obj'[j].kind = "free" => obj'[j] = Free
  BY <1>4, <1>5 DEF HeapInv, HeapType, Now
<1>7. remembered' \subseteq remembered \cup {i} /\ (remembered' \subseteq remembered \/ q.gen = "old")
  BY <1>2 DEF SetField, ch_gc_write_barrier
<1>8. HeapType(Now')  BY <1>0, <1>5, <1>6, <1>7 DEF HeapType, Now
<1>9. \A j \in remembered : j \in Ids /\ obj[j].kind # "free" /\ obj[j].gen = "old"
  BY DEF HeapInv, Sound, Now, Old
<1>10. remembered' \subseteq Old(obj')
  <2> SUFFICES ASSUME NEW j \in remembered' PROVE j \in Old(obj')  OBVIOUS
  <2>1. CASE j = i
    <3>1. q.gen = "old"  BY <1>2, <1>7, <1>9, <2>1
    <3> QED  BY <3>1, <2>1, <1>0, <1>4, <1>5 DEF Old
  <2>2. CASE j # i
    <3>1. j \in remembered  BY <1>7, <2>2
    <3> QED  BY <3>1, <2>2, <1>5, <1>9 DEF Old
  <2> QED  BY <2>1, <2>2
<1>11. Whole(obj', m)
  <2> SUFFICES ASSUME NEW j \in m
               PROVE  j \in LiveIn(obj') /\ Fields(obj', j) \subseteq m
    BY DEF Whole
  <2>0. j \in Ids /\ obj[j].kind # "free" /\ {obj[j].a, obj[j].b} \ {0} \subseteq m
    BY <1>1 DEF Whole, LiveIn, Fields
  <2>1. CASE j = i
    <3>1. {r.a, r.b} \ {0} \subseteq m  BY <2>0, <2>1, <1>1, <1>2, <1>4
    <3> QED  BY <2>0, <2>1, <3>1, <1>4, <1>5 DEF LiveIn, Fields
  <2>2. CASE j # i  BY <2>0, <2>2, <1>5 DEF LiveIn, Fields
  <2> QED  BY <2>1, <2>2
<1>12. held' \cup remembered' \subseteq m  BY <1>1, <1>7 DEF SetField
<1>13. Sound(Now, held)'  BY <1>10, <1>11, <1>12 DEF Sound, Now
<1>14. held' \in SUBSET Ids /\ heapOps' \in Nat /\ exact' = TRUE
  BY DEF SetField, HeapSpend, HeapInv
<1> QED  BY <1>8, <1>13, <1>14 DEF HeapInv

\* Fetch and Forget change what is held alone.
LEMMA HoldingKeeps ==
  ASSUME HeapInv, UNCHANGED <<obj, remembered, exact>>, heapOps' \in Nat,
         \A m \in SUBSET Ids : held \subseteq m /\ Whole(obj, m) => held' \subseteq m
  PROVE  HeapInv'
<1>1. PICK m \in SUBSET Ids : held \cup remembered \subseteq m /\ Whole(obj, m)
  BY DEF HeapInv, Sound, Now
<1>2. held' \cup remembered' \subseteq m /\ Whole(obj', m)  BY <1>1
<1>3. HeapType(Now')  BY DEF HeapInv, HeapType, Now
<1>4. Sound(Now, held)'  BY <1>2 DEF HeapInv, Sound, Now
<1>5. held' \in SUBSET Ids  BY <1>2
<1> QED  BY <1>3, <1>4, <1>5 DEF HeapInv

LEMMA CollectKeeps == ASSUME HeapInv, Collect PROVE HeapInv'
<1> DEFINE g == Major(Now, held)
<1>1. PICK m \in SUBSET Ids : held \subseteq m /\ Whole(Now.os, m)
  BY DEF HeapInv, Sound
<1>2. HeapType(g) /\ Sound(g, held)  BY <1>1, MajorSound DEF HeapInv
<1>3. Agrees(g.os, held, {})  BY MajorAgrees DEF HeapInv
<1>4. obj' = g.os /\ remembered' = g.rem /\ exact' = Agrees(g.os, held, {}) /\ held' = held
  BY DEF Collect
<1> HIDE DEF g
<1>5. HeapType(Now')  BY <1>2, <1>4 DEF HeapType, Now
<1>6. Sound(Now', held')  BY <1>2, <1>4 DEF Sound, Now
<1>7. heapOps' \in Nat  BY DEF Collect, HeapSpend, HeapInv
<1>8. exact' = TRUE  BY <1>3, <1>4
<1> QED  BY <1>4, <1>5, <1>6, <1>7, <1>8 DEF HeapInv

LEMMA HeapInvNext == HeapInv /\ [HeapNext]_heapVars => HeapInv'
<1> SUFFICES ASSUME HeapInv, [HeapNext]_heapVars PROVE HeapInv'  OBVIOUS
<1>0. heapOps \in Nat  BY DEF HeapInv
<1>1. ASSUME NEW x \in held \cup {0}, NEW y \in held \cup {0}, NEW k \in {"pair", "eph"},
             NEW keep \in {held, held \ {x}, held \ {y}}, Make(k, x, y, keep)
      PROVE  HeapInv'
  <2>1. keep \in SUBSET held  OBVIOUS
  <2> QED  BY <1>1, <2>1, MakeKeeps
<1>2. ASSUME NEW i \in held, Forget(i) PROVE HeapInv'
  <2>1. UNCHANGED <<obj, remembered, exact>> /\ heapOps' \in Nat /\ held' \subseteq held
    BY <1>0, <1>2 DEF Forget
  <2> QED  BY <2>1, HoldingKeeps
<1>3. ASSUME NEW i \in held, NEW v \in Ids, Fetch(i, v) PROVE HeapInv'
  <2>1. /\ UNCHANGED <<obj, remembered, exact>> /\ heapOps' \in Nat
        /\ held' = held \cup {v} /\ v \in Fields(obj, i)
    BY <1>0, <1>3 DEF Fetch, HeapSpend
  <2>2. \A m \in SUBSET Ids : held \subseteq m /\ Whole(obj, m) => held' \subseteq m
    BY <2>1 DEF Whole
  <2> QED  BY <2>1, <2>2, HoldingKeeps
<1>4. ASSUME NEW i \in held, NEW v \in held \cup {0}, NEW first \in BOOLEAN, SetField(i, v, first)
      PROVE  HeapInv'
  BY <1>4, SetFieldKeeps
<1>5. CASE Collect  BY <1>5, CollectKeeps
<1>6. CASE UNCHANGED heapVars
  BY <1>6 DEF heapVars, HeapInv, HeapType, Sound, Now
<1> QED  BY <1>1, <1>2, <1>3, <1>4, <1>5, <1>6 DEF HeapNext

\* What every mutator operation and every collection of gc.c keeps: remembered
\* objects are old, and the objects the mutator holds and the remembered ones lie
\* in a set of allocated objects that no field of any of them leads out of.
THEOREM HeapInvariant == HeapSpec => []HeapInv
BY HeapInvInit, HeapInvNext, PTL DEF HeapSpec

LEMMA SoundIsReached == HeapInv => ReachedIsAllocated
<1> SUFFICES ASSUME HeapInv PROVE ReachedIsAllocated  OBVIOUS
<1> DEFINE step == [m \in SUBSET Ids |-> m \cup UNION {Fields(obj, i) : i \in m}]
<1>1. PICK m \in SUBSET Ids : held \cup remembered \subseteq m /\ Whole(obj, m)
  BY DEF HeapInv, Sound, Now
<1>2. obj \in [Ids -> Object]  BY DEF HeapInv, HeapType, Now
<1>3. step \in [SUBSET Ids -> SUBSET Ids] /\ \A n \in SUBSET Ids : n \subseteq step[n]
  BY <1>2, FieldsAreIds
<1>4. \A n \in SUBSET Ids : n \subseteq m => step[n] \subseteq m  BY <1>1 DEF Whole
<1>5. Reached = ToTheEnd(step, held)  BY DEF Reached
<1> HIDE DEF step
<1>6. held \in SUBSET Ids /\ held \subseteq m  BY <1>1
<1>7. ToTheEnd(step, held) \subseteq m  BY <1>3, <1>4, <1>6, TheEnd
<1> QED  BY <1>1, <1>5, <1>7 DEF ReachedIsAllocated, Whole, LiveIn, Live

\* The collector frees nothing that the program can reach through pairs and
\* unbroken ephemerons, or that the next minor collection will trace: for any
\* number of objects, any promotion age, and allocations, field updates, fetches
\* and collections in any order (gc.c).
THEOREM NoUseAfterFree == HeapSpec => []ReachedIsAllocated
BY HeapInvariant, SoundIsReached, PTL

\* process_weak_refs computes what a definition of ephemerons demands: a
\* collection, minor, major or one after the other, leaves everything kept as it
\* was and breaks an ephemeron if and only if its key is not kept.
THEOREM EphemeronsBreakExactly == HeapSpec => []EphemeronsExact
<1>1. HeapInv => EphemeronsExact  BY DEF HeapInv, EphemeronsExact
<1> QED  BY <1>1, HeapInvariant, PTL

-----------------------------------------------------------------------------
(* Tables.  A table is well-formed when it has each key at most once, where    *)
(* the search for it comes by before any slot that was never used, and counts  *)
(* its entries.                                                                *)

Entries == {Entry(k, v) : k \in HtKeys, v \in HtVals}
Slots == Entries \cup {FreeSlot, Tombstone}
Maps == [HtKeys -> HtVals \cup {Absent}]

Tables == [slot : UNION {[0..(c - 1) -> Slots] : c \in Nat \ {0}}, count : Nat]
Sized(t, c) == c \in Nat \ {0} /\ t.slot \in [0..(c - 1) -> Slots]
Taken(t) == {i \in DOMAIN t.slot : slot_occupied(t, i)}

\* The search for k comes to slot i, past slots that have all been used.
Met(t, k, i) ==
    \E n \in 1..Cap(t) :
      /\ Probe(t, k)[n] = i
      /\ \A m \in 1..(n - 1) : t.slot[Probe(t, k)[m]] # FreeSlot

Placed(t) == \A i \in Taken(t) : Met(t, t.slot[i].key, i)
Unique(t) == \A i, j \in Taken(t) : t.slot[i].key = t.slot[j].key => i = j
WellFormed(t) == /\ t \in Tables
                 /\ Placed(t) /\ Unique(t) /\ t.count = Cardinality(Taken(t))

\* The entries of t are those of the map m.
Stores(t, m) ==
    /\ \A i \in Taken(t) : m[t.slot[i].key] = t.slot[i].val
    /\ \A k \in HtKeys : m[k] # Absent => \E i \in Taken(t) : t.slot[i].key = k

Represents(t, m) == WellFormed(t) /\ m \in Maps /\ Stores(t, m)

Hashed == hash \in [HtKeys -> Nat]

-----------------------------------------------------------------------------
LEMMA SlotValues ==
  /\ FreeSlot \in Slots /\ Tombstone \in Slots /\ FreeSlot # Tombstone
  /\ \A k, v : Entry(k, v).kind = "entry" /\ Entry(k, v).key = k /\ Entry(k, v).val = v
               /\ Entry(k, v) # FreeSlot
  /\ \A k \in HtKeys, v \in HtVals : Entry(k, v) \in Slots
  /\ FreeSlot.kind # "entry" /\ Tombstone.kind # "entry"
  /\ \A s \in Slots : s.kind = "entry" =>
       s \in Entries /\ s.key \in HtKeys /\ s.val \in HtVals /\ s.val # Absent
<1>1. FreeSlot.kind = "free" /\ Tombstone.kind = "tombstone"  BY DEF FreeSlot, Tombstone
<1>2. \A k, v : Entry(k, v).kind = "entry" /\ Entry(k, v).key = k /\ Entry(k, v).val = v
  BY DEF Entry
<1>3. \A k, v : Entry(k, v) # FreeSlot  BY <1>1, <1>2
<1>4. FreeSlot # Tombstone  BY <1>1
<1>5. ASSUME NEW s \in Slots, s.kind = "entry"
      PROVE  s \in Entries /\ s.key \in HtKeys /\ s.val \in HtVals /\ s.val # Absent
  <2>1. s \in Entries  BY <1>1, <1>5 DEF Slots
  <2>2. PICK k \in HtKeys, v \in HtVals : s = Entry(k, v)  BY <2>1 DEF Entries
  <2>3. s.key = k /\ s.val = v  BY <1>2, <2>2
  <2>4. v # Absent  BY HashTableAssumption DEF Absent
  <2> QED  BY <2>1, <2>3, <2>4
<1> QED  BY <1>1, <1>2, <1>3, <1>4, <1>5 DEF Slots, Entries

LEMMA TableSize ==
  ASSUME NEW t \in Tables
  PROVE  \E c \in Nat \ {0} : Sized(t, c)
BY DEF Tables, Sized

LEMMA RecordIsTable ==
  ASSUME NEW f, NEW n \in Nat, NEW c \in Nat \ {0}, f \in [0..(c - 1) -> Slots]
  PROVE  [slot |-> f, count |-> n] \in Tables
BY DEF Tables

LEMMA CapIs ==
  ASSUME NEW t, NEW c, Sized(t, c)
  PROVE  /\ c \in Nat \ {0} /\ Cap(t) = c /\ DOMAIN t.slot = 0..(c - 1)
         /\ t.slot \in [0..(c - 1) -> Slots]
         /\ \A i \in 0..(c - 1) : t.slot[i] \in Slots
<1>1. c \in Nat \ {0} /\ t.slot \in [0..(c - 1) -> Slots] /\ DOMAIN t.slot = 0..(c - 1)
  BY DEF Sized
<1>2. c - 1 \in Int /\ 0 \in Int /\ ~(0 > c - 1) /\ (c - 1) - 0 + 1 = c  BY <1>1
<1>3. Cardinality(0..(c - 1)) = c  BY <1>2, FS_Interval
<1> QED  BY <1>1, <1>3 DEF Cap

\* The slots in use are some of the slots, and each has an entry.
LEMMA TakenAre ==
  ASSUME NEW t, NEW c, Sized(t, c)
  PROVE  /\ Taken(t) \in SUBSET (0..(c - 1)) /\ IsFiniteSet(Taken(t))
         /\ Cardinality(Taken(t)) \in Nat /\ Cardinality(Taken(t)) <= c
         /\ Cardinality(Taken(t)) < c => Vacant(t) # {}
         /\ Vacant(t) = (0..(c - 1)) \ Taken(t)
         /\ \A i \in Taken(t) : /\ t.slot[i] \in Entries /\ t.slot[i].key \in HtKeys
                                /\ t.slot[i].val \in HtVals /\ t.slot[i].val # Absent
                                /\ t.slot[i] # FreeSlot
<1>1. c \in Nat \ {0} /\ DOMAIN t.slot = 0..(c - 1) /\ \A i \in 0..(c - 1) : t.slot[i] \in Slots
  BY CapIs
<1>2. Taken(t) \in SUBSET (0..(c - 1)) /\ Vacant(t) = (0..(c - 1)) \ Taken(t)
  BY <1>1 DEF Taken, Vacant
<1>3. IsFiniteSet(0..(c - 1)) /\ Cardinality(0..(c - 1)) = c
  <2>1. c - 1 \in Int /\ 0 \in Int /\ ~(0 > c - 1) /\ (c - 1) - 0 + 1 = c  BY <1>1
  <2> QED  BY <2>1, FS_Interval
<1>4. IsFiniteSet(Taken(t)) /\ Cardinality(Taken(t)) <= c
  <2>1. IsFiniteSet(Taken(t)) /\ Cardinality(Taken(t)) <= Cardinality(0..(c - 1))
    BY <1>2, <1>3, FS_Subset
  <2> QED  BY <2>1, <1>3
<1>5. Cardinality(Taken(t)) \in Nat  BY <1>4, FS_CardinalityType
<1>6. Cardinality(Taken(t)) < c => Vacant(t) # {}
  <2>1. Vacant(t) = {} => Taken(t) = 0..(c - 1)  BY <1>2
  <2> QED  BY <2>1, <1>1, <1>3
<1>7. ASSUME NEW i \in Taken(t)
      PROVE  /\ t.slot[i] \in Entries /\ t.slot[i].key \in HtKeys
             /\ t.slot[i].val \in HtVals /\ t.slot[i].val # Absent /\ t.slot[i] # FreeSlot
  <2>1. t.slot[i] \in Slots /\ t.slot[i].kind = "entry"  BY <1>1, <1>2, <1>7 DEF Taken, slot_occupied
  <2> QED  BY <2>1, SlotValues
<1> QED  BY <1>2, <1>4, <1>5, <1>6, <1>7

\* Adding a multiple of c and reducing modulo c.
LEMMA ModIs ==
  ASSUME NEW c \in Nat \ {0}, NEW q \in Nat, NEW i \in 0..(c - 1)
  PROVE  (c * q + i) % c = i
OBVIOUS

\* Every slot is probed.
LEMMA ProbeReaches ==
  ASSUME NEW t, NEW c \in Nat \ {0}, Cap(t) = c, NEW h \in Nat, NEW k, hash[k] = h
  PROVE  /\ \A n \in 1..c : Probe(t, k)[n] = (h + n - 1) % c /\ Probe(t, k)[n] \in 0..(c - 1)
         /\ \A i \in 0..(c - 1) : \E n \in 1..c : Probe(t, k)[n] = i
<1>1. \A n \in 1..c : Probe(t, k)[n] = (h + n - 1) % c  BY DEF Probe
<1>2. \A n \in 1..c : (h + n - 1) % c \in 0..(c - 1)  OBVIOUS
<1>3. ASSUME NEW i \in 0..(c - 1) PROVE \E n \in 1..c : (h + n - 1) % c = i
  <2> DEFINE r == h % c
             q == h \div c
  <2>1. r \in 0..(c - 1) /\ q \in Nat /\ h = c * q + r  OBVIOUS
  <2> HIDE DEF r, q
  <2>2. CASE i >= r
    <3>1. i - r + 1 \in 1..c /\ h + (i - r + 1) - 1 = c * q + i  BY <2>1, <2>2
    <3>2. (c * q + i) % c = i  BY <2>1, ModIs
    <3> QED  BY <3>1, <3>2
  <2>3. CASE i < r
    <3>1. i - r + c + 1 \in 1..c  BY <2>1, <2>3
    <3>2. c * (q + 1) = c * q + c /\ q + 1 \in Nat /\ c * q \in Nat  BY <2>1
    <3>3. h + (i - r + c + 1) - 1 = c * (q + 1) + i  BY <2>1, <3>2
    <3>4. (c * (q + 1) + i) % c = i  BY <3>2, ModIs
    <3> QED  BY <3>1, <3>3, <3>4
  <2>4. i >= r \/ i < r  BY <2>1
  <2> QED  BY <2>2, <2>3, <2>4
<1>4. \A n \in 1..c : Probe(t, k)[n] = (h + n - 1) % c /\ Probe(t, k)[n] \in 0..(c - 1)
  BY <1>1, <1>2
<1>5. ASSUME NEW i \in 0..(c - 1) PROVE \E n \in 1..c : Probe(t, k)[n] = i
  <2>1. PICK n \in 1..c : (h + n - 1) % c = i  BY <1>3
  <2>2. Probe(t, k)[n] = (h + n - 1) % c  BY <1>1
  <2> QED  BY <2>1, <2>2
<1> QED  BY <1>4, <1>5

\* A search ends at the first of the slots that end it.
LEMMA FirstProbeIs ==
  ASSUME Hashed, NEW t, NEW c, Sized(t, c), NEW k \in HtKeys, NEW slots \in SUBSET (0..(c - 1))
  PROVE  /\ slots = {} => FirstProbe(t, k, slots) = -1
         /\ slots # {} =>
              \E n \in 1..c : /\ FirstProbe(t, k, slots) = Probe(t, k)[n]
                              /\ Probe(t, k)[n] \in slots
                              /\ \A m \in 1..(n - 1) : Probe(t, k)[m] \notin slots
<1>1. Cap(t) = c /\ c \in Nat \ {0}  BY CapIs
<1>2. \A i \in 0..(c - 1) : \E n \in 1..c : Probe(t, k)[n] = i
  BY <1>1, ProbeReaches DEF Hashed
<1> DEFINE hits == {n \in 1..c : Probe(t, k)[n] \in slots}
<1>3. FirstProbe(t, k, slots) =
        IF hits = {} THEN -1 ELSE Probe(t, k)[CHOOSE n \in hits : \A m \in hits : n <= m]
  BY <1>1 DEF FirstProbe
<1>4. CASE slots = {}
  <2>1. hits = {}  BY <1>4
  <2> QED  BY <1>3, <1>4, <2>1
<1>5. CASE slots # {}
  <2>1. hits # {} /\ hits \subseteq Nat
    <3>1. PICK i \in slots : i \in 0..(c - 1)  BY <1>5
    <3>2. PICK n \in 1..c : Probe(t, k)[n] = i  BY <1>2, <3>1
    <3>3. n \in hits  BY <3>1, <3>2
    <3>4. \A n_1 \in 1..c : n_1 \in Nat  BY <1>1
    <3> QED  BY <3>3, <3>4
  <2> HIDE DEF hits
  <2> DEFINE n == CHOOSE a \in hits : \A m \in hits : a <= m
  <2>2. \E a \in hits : \A m \in hits : a <= m  BY <2>1, LeastNat
  <2>3. n \in hits /\ \A m \in hits : n <= m  BY <2>2
  <2>4. FirstProbe(t, k, slots) = Probe(t, k)[n]  BY <1>3, <2>1
  <2> HIDE DEF n
  <2>5. n \in 1..c /\ Probe(t, k)[n] \in slots  BY <2>3 DEF hits
  <2>6. ASSUME NEW m \in 1..(n - 1) PROVE Probe(t, k)[m] \notin slots
    <3>1. m \in 1..c /\ ~(n <= m)  BY <2>5, <1>1
    <3>2. m \notin hits  BY <2>3, <3>1
    <3> QED  BY <3>1, <3>2 DEF hits
  <2> QED  BY <1>5, <2>4, <2>5, <2>6
<1> QED  BY <1>4, <1>5

\* The search for a key finds the slot that has it, past what was deleted.
LEMMA FindEntry ==
  ASSUME Hashed, NEW t, WellFormed(t), NEW k \in HtKeys
  PROVE  /\ \A i \in Taken(t) : t.slot[i].key = k => find_entry(t, k) = i
         /\ (\A i \in Taken(t) : t.slot[i].key # k) => find_entry(t, k) = -1
<1>1. PICK c \in Nat \ {0} : Sized(t, c)  BY TableSize DEF WellFormed
<1>2. DOMAIN t.slot = 0..(c - 1) /\ Cap(t) = c  BY <1>1, CapIs
<1> DEFINE ends == {j \in DOMAIN t.slot : EndsProbe(t, j) \/ Holds(t, j, k)}
           at == FirstProbe(t, k, ends)
<1>3. find_entry(t, k) = IF at # -1 /\ Holds(t, at, k) THEN at ELSE -1  BY DEF find_entry
<1>4. ends \in SUBSET (0..(c - 1))  BY <1>2
<1>5. /\ ends = {} => at = -1
      /\ ends # {} => \E n \in 1..c : /\ at = Probe(t, k)[n] /\ Probe(t, k)[n] \in ends
                                      /\ \A m \in 1..(n - 1) : Probe(t, k)[m] \notin ends
  <2> HIDE DEF ends
  <2> QED  BY <1>1, <1>4, FirstProbeIs
<1>6. ASSUME NEW i \in Taken(t), t.slot[i].key = k PROVE find_entry(t, k) = i
  <2>1. PICK n \in 1..c : /\ Probe(t, k)[n] = i
                          /\ \A m \in 1..(n - 1) : t.slot[Probe(t, k)[m]] # FreeSlot
    BY <1>2, <1>6 DEF WellFormed, Placed, Met
  <2>2. i \in ends /\ i \in 0..(c - 1)  BY <1>2, <1>6 DEF Taken, Holds
  <2>3. PICK q \in 1..c : /\ at = Probe(t, k)[q] /\ at \in ends
                          /\ \A m \in 1..(q - 1) : Probe(t, k)[m] \notin ends
    BY <2>2, <1>5
  <2>4. q <= n  
    <3> SUFFICES ASSUME n < q PROVE FALSE  OBVIOUS
    <3>1. n \in 1..(q - 1)  OBVIOUS
    <3> QED  BY <3>1, <2>1, <2>2, <2>3
  <2>5. Holds(t, at, k)
    <3>1. CASE q = n  BY <3>1, <1>6, <2>1, <2>3 DEF Holds, Taken
    <3>2. CASE q # n
      <4>1. q \in 1..(n - 1)  BY <3>2, <2>4
      <4>2. t.slot[at] # FreeSlot  BY <4>1, <2>1, <2>3
      <4> QED  BY <4>2, <2>3 DEF EndsProbe
    <3> QED  BY <3>1, <3>2
  <2>6. at \in Taken(t) /\ t.slot[at].key = k  BY <2>3, <2>5 DEF Taken, Holds
  <2> HIDE DEF at
  <2>7. at = i  BY <1>6, <2>6 DEF WellFormed, Unique
  <2>8. at # -1  BY <2>2, <2>7
  <2> QED  BY <1>3, <2>5, <2>7, <2>8
<1>7. ASSUME \A i \in Taken(t) : t.slot[i].key # k PROVE find_entry(t, k) = -1
  <2>1. CASE ends = {}  BY <2>1, <1>3, <1>5
  <2>2. CASE ends # {}
    <3>1. at \in DOMAIN t.slot  BY <2>2, <1>5
    <3> HIDE DEF at
    <3>2. ~Holds(t, at, k)  BY <3>1, <1>7 DEF Holds, Taken
    <3> QED  BY <1>3, <3>2
  <2> QED  BY <2>1, <2>2
<1> QED  BY <1>6, <1>7

LEMMA GetIs ==
  ASSUME Hashed, NEW t, NEW m, Represents(t, m), NEW k \in HtKeys
  PROVE  ch_hashtable_get(t, k) = m[k]
<1>1. WellFormed(t) /\ Stores(t, m)  BY DEF Represents
<1>2. PICK c \in Nat \ {0} : Sized(t, c)  BY <1>1, TableSize DEF WellFormed
<1>3. CASE \E i \in Taken(t) : t.slot[i].key = k
  <2>1. PICK i \in Taken(t) : t.slot[i].key = k  BY <1>3
  <2>2. find_entry(t, k) = i  BY <1>1, <2>1, FindEntry
  <2>3. i # -1  BY <1>2, TakenAre
  <2>4. t.slot[i].val = m[k]  BY <1>1, <2>1 DEF Stores
  <2> QED  BY <2>2, <2>3, <2>4 DEF ch_hashtable_get
<1>4. CASE ~\E i \in Taken(t) : t.slot[i].key = k
  <2>1. find_entry(t, k) = -1  BY <1>1, <1>4, FindEntry
  <2>2. m[k] = Absent  BY <1>1, <1>4 DEF Stores
  <2> QED  BY <2>1, <2>2 DEF ch_hashtable_get
<1> QED  BY <1>3, <1>4

-----------------------------------------------------------------------------
(* What a change of one slot does                                              *)

\* A search that came by a slot still does when no used slot becomes free.
LEMMA StillMet ==
  ASSUME NEW t, NEW u, NEW c \in Nat \ {0}, Cap(t) = c, Cap(u) = c, NEW k, NEW i, Met(t, k, i),
         \A n \in 1..c : t.slot[Probe(t, k)[n]] # FreeSlot => u.slot[Probe(t, k)[n]] # FreeSlot
  PROVE  Met(u, k, i)
<1>1. PICK n \in 1..c : /\ Probe(t, k)[n] = i
                        /\ \A m \in 1..(n - 1) : t.slot[Probe(t, k)[m]] # FreeSlot
  BY DEF Met
<1>2. Probe(u, k) = Probe(t, k)  BY DEF Probe
<1>3. ASSUME NEW m \in 1..(n - 1) PROVE u.slot[Probe(u, k)[m]] # FreeSlot
  <2>1. m \in 1..c  BY <1>1
  <2> QED  BY <1>1, <1>2, <2>1
<1> QED  BY <1>1, <1>2, <1>3 DEF Met

\* Where an entry goes that the table does not have: the first slot on the way
\* that has none.
LEMMA InsertSlot ==
  ASSUME Hashed, NEW t, NEW c, Sized(t, c), Vacant(t) # {}, NEW k \in HtKeys
  PROVE  /\ FirstProbe(t, k, Vacant(t)) \in Vacant(t)
         /\ Met(t, k, FirstProbe(t, k, Vacant(t)))
<1>1. c \in Nat \ {0} /\ Cap(t) = c /\ DOMAIN t.slot = 0..(c - 1)  BY CapIs
<1>2. Vacant(t) \in SUBSET (0..(c - 1)) /\ Vacant(t) = (0..(c - 1)) \ Taken(t)  BY TakenAre
<1>3. PICK n \in 1..c : /\ FirstProbe(t, k, Vacant(t)) = Probe(t, k)[n]
                        /\ Probe(t, k)[n] \in Vacant(t)
                        /\ \A m \in 1..(n - 1) : Probe(t, k)[m] \notin Vacant(t)
  BY <1>2, FirstProbeIs
<1>4. ASSUME NEW m \in 1..(n - 1) PROVE t.slot[Probe(t, k)[m]] # FreeSlot
  <2>1. m \in 1..c  BY <1>1, <1>3
  <2>2. Probe(t, k)[m] \in 0..(c - 1)  BY <1>1, <2>1, ProbeReaches DEF Hashed
  <2>3. Probe(t, k)[m] \in Taken(t)  BY <1>2, <1>3, <2>2
  <2> QED  BY <2>3, TakenAre
<1> QED  BY <1>1, <1>3, <1>4 DEF Met

\* An entry in a slot that had none, or had one with its key.
LEMMA PutAt ==
  ASSUME Hashed, NEW t, NEW m, Represents(t, m), NEW c, Sized(t, c),
         NEW i \in 0..(c - 1), NEW k \in HtKeys, NEW v \in HtVals,
         \/ i \in Taken(t) /\ t.slot[i].key = k
         \/ /\ i \in Vacant(t) /\ Met(t, k, i)
            /\ \A j \in Taken(t) : t.slot[j].key # k
  PROVE  /\ Represents(PutEntry(t, i, k, v), [m EXCEPT ![k] = v])
         /\ Sized(PutEntry(t, i, k, v), c)
<1> DEFINE u == PutEntry(t, i, k, v)
           e == Entry(k, v)
           mm == [m EXCEPT ![k] = v]
<1>0. /\ WellFormed(t) /\ Stores(t, m) /\ m \in Maps
      /\ Placed(t) /\ Unique(t) /\ t.count = Cardinality(Taken(t))
  BY DEF Represents, WellFormed
<1>1. /\ c \in Nat \ {0} /\ Cap(t) = c /\ DOMAIN t.slot = 0..(c - 1)
      /\ t.slot \in [0..(c - 1) -> Slots]
  BY CapIs
<1>14. u = [slot |-> [t.slot EXCEPT ![i] = e],
             count |-> IF Holds(t, i, k) THEN t.count ELSE t.count + 1]
  BY DEF PutEntry
<1>2. u.slot = [t.slot EXCEPT ![i] = e] /\ u.count = IF Holds(t, i, k) THEN t.count ELSE t.count + 1
  BY DEF PutEntry
<1>3. e \in Slots /\ e.kind = "entry" /\ e.key = k /\ e.val = v /\ e # FreeSlot  BY SlotValues
<1> HIDE DEF u, e
<1>4. /\ u.slot \in [0..(c - 1) -> Slots] /\ DOMAIN u.slot = 0..(c - 1)
      /\ u.slot[i] = e /\ \A j \in 0..(c - 1) : j # i => u.slot[j] = t.slot[j]
  BY <1>1, <1>2, <1>3
<1>5. Sized(u, c)  BY <1>1, <1>4 DEF Sized
<1>6. Cap(u) = c  BY <1>5, CapIs
<1>7. Taken(u) = Taken(t) \cup {i}  BY <1>1, <1>3, <1>4 DEF Taken, slot_occupied
<1>8. \A j \in Taken(t) : j # i => u.slot[j] = t.slot[j] /\ t.slot[j].key # k
  <2>1. \A j \in Taken(t) : j \in 0..(c - 1)  BY TakenAre
  <2> QED  BY <2>1, <1>0, <1>4, TakenAre DEF Unique, Vacant, Taken
<1>9. Placed(u)
  <2> SUFFICES ASSUME NEW j \in Taken(u) PROVE Met(u, u.slot[j].key, j)  BY DEF Placed
  <2>1. Met(t, u.slot[j].key, j)
    <3>1. CASE j = i
      <4>1. u.slot[j].key = k  BY <3>1, <1>3, <1>4
      <4> QED  BY <3>1, <4>1, <1>0 DEF Placed
    <3>2. CASE j # i  BY <3>2, <1>7, <1>8, <1>0 DEF Placed
    <3> QED  BY <3>1, <3>2
  <2>2. u.slot[j].key \in HtKeys  BY <1>5, TakenAre
  <2>3. \A n \in 1..c : Probe(t, u.slot[j].key)[n] \in 0..(c - 1)
    BY <1>1, <2>2, ProbeReaches DEF Hashed
  <2>4. \A n \in 1..c : t.slot[Probe(t, u.slot[j].key)[n]] # FreeSlot
                         => u.slot[Probe(t, u.slot[j].key)[n]] # FreeSlot
    BY <2>3, <1>3, <1>4
  <2> QED  BY <2>1, <2>4, <1>1, <1>6, StillMet
<1>10. Unique(u)
  <2> SUFFICES ASSUME NEW j \in Taken(u), NEW l \in Taken(u), u.slot[j].key = u.slot[l].key
               PROVE  j = l
    BY DEF Unique
  <2>1. CASE j = i /\ l # i  BY <2>1, <1>3, <1>4, <1>7, <1>8
  <2>2. CASE j # i /\ l = i  BY <2>2, <1>3, <1>4, <1>7, <1>8
  <2>3. CASE j # i /\ l # i  BY <2>3, <1>0, <1>7, <1>8 DEF Unique
  <2> QED  BY <2>1, <2>2, <2>3
<1>11. u.count = Cardinality(Taken(u))
  <2>1. IsFiniteSet(Taken(t))  BY TakenAre
  <2>2. Cardinality(Taken(t) \cup {i}) = IF i \in Taken(t) THEN Cardinality(Taken(t))
                                         ELSE Cardinality(Taken(t)) + 1
    BY <2>1, FS_AddElement
  <2>3. Holds(t, i, k) <=> i \in Taken(t)  BY <1>1, TakenAre DEF Holds, Taken, Vacant
  <2> QED  BY <2>2, <2>3, <1>0, <1>2, <1>7
<1>12. mm \in Maps /\ mm[k] = v /\ \A l \in HtKeys : l # k => mm[l] = m[l]
  BY <1>0 DEF Maps
<1> HIDE DEF mm
<1>13. Stores(u, mm)
  <2>1. ASSUME NEW j \in Taken(u) PROVE mm[u.slot[j].key] = u.slot[j].val
    <3>1. CASE j = i  BY <3>1, <1>3, <1>4, <1>12
    <3>2. CASE j # i
      <4>1. j \in Taken(t) /\ u.slot[j] = t.slot[j] /\ t.slot[j].key # k  BY <3>2, <1>7, <1>8
      <4>2. t.slot[j].key \in HtKeys  BY <4>1, TakenAre
      <4> QED  BY <4>1, <4>2, <1>0, <1>12 DEF Stores
    <3> QED  BY <3>1, <3>2
  <2>2. ASSUME NEW l \in HtKeys, mm[l] # Absent PROVE \E j \in Taken(u) : u.slot[j].key = l
    <3>1. CASE l = k  BY <3>1, <1>3, <1>4, <1>7
    <3>2. CASE l # k
      <4>1. PICK j \in Taken(t) : t.slot[j].key = l  BY <3>2, <2>2, <1>0, <1>12 DEF Stores
      <4>2. j # i  BY <4>1, <3>2 DEF Vacant, Taken
      <4> QED  BY <4>1, <4>2, <1>7, <1>8
    <3> QED  BY <3>1, <3>2
  <2> QED  BY <2>1, <2>2 DEF Stores
<1>15. u \in Tables
  <2>1. u.count \in Nat
    <3>1. Sized(u, c)  BY <1>5
    <3> QED  BY <3>1, <1>11, TakenAre
  <2>2. u = [slot |-> u.slot, count |-> u.count]  BY <1>14
  <2>3. [slot |-> u.slot, count |-> u.count] \in Tables  BY <2>1, <1>1, <1>4, RecordIsTable
  <2> QED  BY <2>2, <2>3
<1> QED  BY <1>5, <1>9, <1>10, <1>11, <1>12, <1>13, <1>15 DEF Represents, WellFormed, u, mm

-----------------------------------------------------------------------------
(* Loops over the slots of a table and over a list of entries                  *)

\* es has the entries in the slots K of t, each once, and no key twice.
Lists(es, t, K) ==
    /\ es \in Seq(Entries) /\ Len(es) = Cardinality(K)
    /\ \A j \in 1..Len(es) : \E i \in K : es[j] = t.slot[i]
    /\ \A i \in K : \E j \in 1..Len(es) : es[j] = t.slot[i]
    /\ \A j, l \in 1..Len(es) : es[j].key = es[l].key => j = l

LEMMA ListsNone == ASSUME NEW t PROVE Lists(<<>>, t, {})
<1>1. <<>> \in Seq(Entries) /\ Len(<<>>) = 0 /\ 1..0 = {}  OBVIOUS
<1>2. Cardinality({}) = 0  BY FS_EmptySet
<1> QED  BY <1>1, <1>2 DEF Lists

LEMMA ListsMore ==
  ASSUME NEW t, NEW c, Sized(t, c), Unique(t), NEW K \in SUBSET Taken(t), NEW es, Lists(es, t, K),
         NEW i \in Taken(t), i \notin K
  PROVE  Lists(Append(es, t.slot[i]), t, K \cup {i})
<1> DEFINE e == t.slot[i]
           fs == Append(es, e)
           n == Len(es)
<1>1. /\ es \in Seq(Entries) /\ n = Cardinality(K)
      /\ \A j \in 1..n : \E l \in K : es[j] = t.slot[l]
      /\ \A l \in K : \E j \in 1..n : es[j] = t.slot[l]
      /\ \A j, l \in 1..n : es[j].key = es[l].key => j = l
  BY DEF Lists
<1>2. e \in Entries  BY TakenAre
<1>3. /\ n \in Nat /\ fs \in Seq(Entries) /\ Len(fs) = n + 1 /\ fs[n + 1] = e
      /\ \A j \in 1..n : fs[j] = es[j]
  BY <1>1, <1>2
<1>4. IsFiniteSet(K)
  <2>1. IsFiniteSet(Taken(t))  BY TakenAre
  <2> QED  BY <2>1, FS_Subset
<1>5. Cardinality(K \cup {i}) = n + 1  BY <1>1, <1>4, FS_AddElement
<1>6. \A l \in K : t.slot[l].key # e.key  BY DEF Unique
<1> HIDE DEF fs, e, n
<1>7. \A j \in 1..(n + 1) : j \in 1..n \/ j = n + 1  BY <1>3
<1>8. n + 1 \in 1..(n + 1) /\ \A j \in 1..n : j \in 1..(n + 1)  BY <1>3
<1>9. \A j \in 1..(n + 1) : \E l \in K \cup {i} : fs[j] = t.slot[l]
  <2> TAKE j \in 1..(n + 1)
  <2>1. CASE j \in 1..n
    <3>1. PICK l \in K : es[j] = t.slot[l]  BY <1>1, <2>1
    <3> QED  BY <3>1, <2>1, <1>3
  <2>2. CASE j = n + 1  BY <2>2, <1>3 DEF e
  <2> QED  BY <2>1, <2>2, <1>7
<1>10. \A l \in K \cup {i} : \E j \in 1..(n + 1) : fs[j] = t.slot[l]
  <2> TAKE l \in K \cup {i}
  <2>1. CASE l = i  BY <2>1, <1>3, <1>8 DEF e
  <2>2. CASE l \in K
    <3>1. PICK j \in 1..n : es[j] = t.slot[l]  BY <1>1, <2>2
    <3> QED  BY <3>1, <1>3, <1>8
  <2> QED  BY <2>1, <2>2
<1>11. \A j \in 1..n : fs[j].key # e.key
  <2> TAKE j \in 1..n
  <2>1. PICK l \in K : es[j] = t.slot[l]  BY <1>1
  <2> QED  BY <2>1, <1>3, <1>6
<1>12. \A j, l \in 1..(n + 1) : fs[j].key = fs[l].key => j = l
  <2> SUFFICES ASSUME NEW j \in 1..(n + 1), NEW l \in 1..(n + 1), fs[j].key = fs[l].key PROVE j = l
    OBVIOUS
  <2>1. CASE j \in 1..n /\ l \in 1..n  BY <2>1, <1>1, <1>3
  <2>2. CASE j \in 1..n /\ l = n + 1  BY <2>2, <1>3, <1>11
  <2>3. CASE j = n + 1 /\ l \in 1..n  BY <2>3, <1>3, <1>11
  <2>4. CASE j = n + 1 /\ l = n + 1  BY <2>4
  <2> QED  BY <2>1, <2>2, <2>3, <2>4, <1>7
<1>13. Lists(fs, t, K \cup {i})  BY <1>3, <1>5, <1>9, <1>10, <1>12 DEF Lists
<1> QED  BY <1>13 DEF fs, e

\* The loop over the slots meets every entry once.
LEMMA EntriesListed ==
  ASSUME NEW t, NEW c, Sized(t, c), Unique(t)
  PROVE  Lists(HtEntries(t), t, Taken(t))
<1>1. c \in Nat \ {0} /\ Cap(t) = c  BY CapIs
<1>2. Taken(t) \in SUBSET (0..(c - 1)) /\ \A i \in Taken(t) : t.slot[i] \in Entries  BY TakenAre
<1> DEFINE S == Seq(Entries)
           After(s, n) == IF n - 1 \in Taken(t) THEN Append(s, t.slot[n - 1]) ELSE s
           step == [x \in S \X (1..c) |-> After(x[1], x[2])]
           J == [n \in 0..c |-> S]
           Is(f) == f = [n \in 0..c |-> IF n = 0 THEN <<>>
                                        ELSE IF slot_occupied(t, n - 1)
                                             THEN Append(f[n - 1], t.slot[n - 1]) ELSE f[n - 1]]
<1>3. \A n \in 1..c : slot_occupied(t, n - 1) <=> n - 1 \in Taken(t)
  <2>1. DOMAIN t.slot = 0..(c - 1)  BY CapIs
  <2> TAKE n \in 1..c
  <2>2. n - 1 \in 0..(c - 1)  BY <1>1
  <2> QED  BY <2>1, <2>2 DEF Taken
<1>4. \A s \in S, n \in 1..c : After(s, n) \in S  BY <1>2
<1>6. \A s \in S, n \in 1..c : step[<<s, n>>] = After(s, n)  OBVIOUS
<1> HIDE DEF step
<1>7. <<>> \in S /\ c \in Nat  BY <1>1
<1>8. PICK g : g \in Rounds(J, c, step, <<>>)
  <2>1. /\ <<>> \in J[0]
        /\ \A n \in 1..c : \A x \in J[n - 1] : step[<<x, n>>] \in J[n]
    <3>1. 0 \in 0..c /\ \A n \in 1..c : n \in 0..c /\ n - 1 \in 0..c  BY <1>7
    <3>2. \A n \in 0..c : J[n] = S  OBVIOUS
    <3> HIDE DEF J, S
    <3> QED  BY <3>1, <3>2, <1>4, <1>6, <1>7
  <2> HIDE DEF J
  <2> QED  BY <1>7, <2>1, LoopExists
<1>8a. /\ g[0] = <<>> /\ \A n \in 1..c : g[n] = step[<<g[n - 1], n>>]
       /\ \A n \in 0..c : g[n] \in S
       /\ g = [n \in 0..c |-> g[n]]
  BY <1>8 DEF Rounds
<1>9. Is(g)
  <2>1. \A n \in 0..c : g[n] = IF n = 0 THEN <<>>
                               ELSE IF slot_occupied(t, n - 1)
                                    THEN Append(g[n - 1], t.slot[n - 1]) ELSE g[n - 1]
    <3> TAKE n \in 0..c
    <3>1. CASE n = 0  BY <3>1, <1>8a
    <3>2. CASE n # 0
      <4>1. n \in 1..c /\ n - 1 \in 0..c  BY <3>2, <1>1
      <4>2. g[n] = After(g[n - 1], n)  BY <4>1, <1>6, <1>8a
      <4> QED  BY <3>2, <4>1, <4>2, <1>3
    <3> QED  BY <3>1, <3>2
  <2>2. g = [n \in 0..c |-> g[n]]  BY <1>8a
  <2> QED  BY <2>1, <2>2
<1> HIDE DEF Is
<1> DEFINE G == CHOOSE f : Is(f)
<1>10. Is(G)  BY <1>9
<1>11. HtEntries(t) = G[c]  BY <1>1 DEF HtEntries, Is
<1> HIDE DEF G
<1>12. G[0] = <<>> /\ \A n \in 1..c : G[n] = After(G[n - 1], n)
  <2>1. \A n \in 0..c : G[n] = IF n = 0 THEN <<>>
                               ELSE IF slot_occupied(t, n - 1)
                                    THEN Append(G[n - 1], t.slot[n - 1]) ELSE G[n - 1]
    BY <1>10 DEF Is
  <2>2. \A n \in 1..c : n # 0 /\ n \in 0..c  BY <1>1
  <2>3. 0 \in 0..c  BY <1>1
  <2> QED  BY <2>1, <2>2, <2>3, <1>3
<1> DEFINE K(n) == {i \in Taken(t) : i < n}
           T == {n \in 0..c : Lists(G[n], t, K(n))}
<1>13. 0 \in T
  <2>1. K(0) = {}  BY <1>2
  <2>2. Lists(<<>>, t, {})  BY ListsNone
  <2>3. Lists(G[0], t, K(0))  BY <2>1, <2>2, <1>12
  <2>4. 0 \in 0..c  BY <1>1
  <2> QED  BY <2>3, <2>4
<1>14. ASSUME NEW n \in 1..c, n - 1 \in T PROVE n \in T
  <2>1. Lists(G[n - 1], t, K(n - 1)) /\ K(n - 1) \in SUBSET Taken(t)  BY <1>14
  <2>2. CASE n - 1 \in Taken(t)
    <3>1. K(n) = K(n - 1) \cup {n - 1} /\ n - 1 \notin K(n - 1)  BY <2>2, <1>1, <1>2
    <3>2. Lists(Append(G[n - 1], t.slot[n - 1]), t, K(n - 1) \cup {n - 1})
      <4> HIDE DEF K
      <4> QED  BY <2>1, <2>2, <3>1, ListsMore
    <3>3. G[n] = Append(G[n - 1], t.slot[n - 1])  BY <2>2, <1>12
    <3>4. Lists(G[n], t, K(n))  BY <3>1, <3>2, <3>3
    <3> QED  BY <3>4
  <2>3. CASE n - 1 \notin Taken(t)
    <3>1. K(n) = K(n - 1)  BY <2>3, <1>1, <1>2
    <3>2. G[n] = G[n - 1]  BY <2>3, <1>12
    <3>3. Lists(G[n], t, K(n))  BY <3>1, <3>2, <2>1
    <3> QED  BY <3>3
  <2> QED  BY <2>2, <2>3
<1> HIDE DEF T
<1>15. c \in T
  <2>1. \A n \in 0..c : n \in T  BY <1>7, <1>13, <1>14, InductionTo
  <2> QED  BY <2>1, <1>7
<1>16. K(c) = Taken(t)  BY <1>1, <1>2
<1>17. Lists(G[c], t, K(c))  BY <1>15 DEF T
<1> QED  BY <1>11, <1>16, <1>17

\* mm is m with the first n entries of l stored over it.
Over(mm, m, l, n) ==
    /\ mm \in Maps
    /\ \A j \in 1..n : mm[l[j].key] = l[j].val
    /\ \A k \in HtKeys : (\A j \in 1..n : l[j].key # k) => mm[k] = m[k]

\* No key occurs twice.
Apart(l) == l \in Seq(Entries) /\ \A i, j \in 1..Len(l) : l[i].key = l[j].key => i = j

NoMap == [k \in HtKeys |-> Absent]

LEMMA EntryValues ==
  ASSUME NEW e \in Entries
  PROVE  /\ e.key \in HtKeys /\ e.val \in HtVals /\ e.val # Absent /\ e = Entry(e.key, e.val)
<1>1. PICK k \in HtKeys, v \in HtVals : e = Entry(k, v)  BY DEF Entries
<1>2. e.key = k /\ e.val = v  BY <1>1, SlotValues
<1>3. v # Absent  BY HashTableAssumption DEF Absent
<1> QED  BY <1>1, <1>2, <1>3

LEMMA OverNone == ASSUME NEW m \in Maps, NEW l PROVE Over(m, m, l, 0)
<1>1. 1..0 = {}  OBVIOUS
<1> QED  BY <1>1 DEF Over

LEMMA OverMore ==
  ASSUME NEW l, Apart(l), NEW n \in 1..Len(l), NEW m, NEW mm, Over(mm, m, l, n - 1)
  PROVE  /\ Over([mm EXCEPT ![l[n].key] = l[n].val], m, l, n)
         /\ mm[l[n].key] = m[l[n].key]
<1> DEFINE k == l[n].key
           v == l[n].val
           mn == [mm EXCEPT ![k] = v]
<1>1. l \in Seq(Entries) /\ Len(l) \in Nat /\ \A j \in 1..Len(l) : l[j] \in Entries  BY DEF Apart
<1>2. k \in HtKeys /\ v \in HtVals  BY <1>1, EntryValues
<1>3. \A j \in 1..(n - 1) : j \in 1..Len(l) /\ j # n  BY <1>1
<1>4. \A j \in 1..(n - 1) : l[j].key # k  BY <1>3 DEF Apart
<1>5. mm[k] = m[k]  BY <1>2, <1>4 DEF Over
<1>6. /\ mm \in Maps /\ \A j \in 1..(n - 1) : mm[l[j].key] = l[j].val
      /\ \A q \in HtKeys : (\A j \in 1..(n - 1) : l[j].key # q) => mm[q] = m[q]
  BY DEF Over
<1>7. mn \in Maps /\ mn[k] = v /\ \A q \in HtKeys : q # k => mn[q] = mm[q]
  BY <1>2, <1>6 DEF Maps
<1>8. \A j \in 1..n : j \in 1..(n - 1) \/ j = n  BY <1>1
<1>9. n \in 1..n /\ \A j \in 1..(n - 1) : j \in 1..n  BY <1>1
<1>10. \A j \in 1..(n - 1) : l[j].key \in HtKeys  BY <1>1, <1>3, EntryValues
<1>11. \A j \in 1..n : mn[l[j].key] = l[j].val
  <2> HIDE DEF mn
  <2> TAKE j \in 1..n
  <2>1. CASE j = n  BY <2>1, <1>7
  <2>2. CASE j \in 1..(n - 1)  BY <2>2, <1>4, <1>6, <1>7, <1>10
  <2> QED  BY <2>1, <2>2, <1>8
<1> HIDE DEF mn, k, v
<1>12. ASSUME NEW q \in HtKeys, \A j \in 1..n : l[j].key # q PROVE mn[q] = m[q]
  <2>1. q # k  BY <1>9, <1>12 DEF k
  <2>2. \A j \in 1..(n - 1) : l[j].key # q  BY <1>9, <1>12
  <2> QED  BY <2>1, <2>2, <1>6, <1>7
<1>13. Over(mn, m, l, n)  BY <1>7, <1>11, <1>12 DEF Over
<1> QED  BY <1>5, <1>13 DEF mn, k, v

\* All entries of a table over another map.
LEMMA OverAll ==
  ASSUME NEW t, NEW m, Represents(t, m), NEW es, Lists(es, t, Taken(t)),
         NEW b \in Maps, NEW mm, Over(mm, b, es, Len(es))
  PROVE  mm = [k \in HtKeys |-> IF m[k] # Absent THEN m[k] ELSE b[k]]
<1>1. WellFormed(t) /\ Stores(t, m) /\ m \in Maps  BY DEF Represents
<1>2. PICK c \in Nat \ {0} : Sized(t, c)  BY <1>1, TableSize DEF WellFormed
<1>3. ASSUME NEW k \in HtKeys PROVE mm[k] = IF m[k] # Absent THEN m[k] ELSE b[k]
  <2>1. CASE \E i \in Taken(t) : t.slot[i].key = k
    <3>1. PICK i \in Taken(t) : t.slot[i].key = k  BY <2>1
    <3>2. PICK j \in 1..Len(es) : es[j] = t.slot[i]  BY DEF Lists
    <3>3. mm[k] = t.slot[i].val  BY <3>1, <3>2 DEF Over
    <3>4. m[k] = t.slot[i].val  BY <3>1, <1>1 DEF Stores
    <3>5. t.slot[i].val # Absent  BY <1>2, TakenAre
    <3> QED  BY <3>3, <3>4, <3>5
  <2>2. CASE ~\E i \in Taken(t) : t.slot[i].key = k
    <3>1. m[k] = Absent  BY <2>2, <1>1 DEF Stores
    <3>2. \A j \in 1..Len(es) : es[j].key # k  BY <2>2 DEF Lists
    <3> QED  BY <3>1, <3>2 DEF Over
  <2> QED  BY <2>1, <2>2
<1>4. mm = [k \in HtKeys |-> mm[k]]  BY DEF Over, Maps
<1> QED  BY <1>3, <1>4

LEMMA EntriesOf ==
  ASSUME NEW t, NEW m, Represents(t, m)
  PROVE  /\ Lists(HtEntries(t), t, Taken(t)) /\ Apart(HtEntries(t))
         /\ Len(HtEntries(t)) = t.count /\ t.count \in Nat
<1>1. WellFormed(t) /\ t \in Tables /\ Unique(t) /\ t.count = Cardinality(Taken(t))
  BY DEF Represents, WellFormed
<1>2. PICK c \in Nat \ {0} : Sized(t, c)  BY <1>1, TableSize
<1>3. Lists(HtEntries(t), t, Taken(t))  BY <1>1, <1>2, EntriesListed
<1>4. t.count \in Nat  BY <1>1, <1>2, TakenAre
<1>5. Apart(HtEntries(t)) /\ Len(HtEntries(t)) = Cardinality(Taken(t))
  BY <1>3 DEF Lists, Apart
<1> QED  BY <1>1, <1>3, <1>4, <1>5

LEMMA EmptyIs ==
  ASSUME NEW c \in Nat \ {0}
  PROVE  /\ Represents(EmptyTable(c), NoMap) /\ Sized(EmptyTable(c), c)
         /\ EmptyTable(c).count = 0 /\ NoMap \in Maps
<1> DEFINE f == [i \in 0..(c - 1) |-> FreeSlot]
           t == EmptyTable(c)
<1>1. t = [slot |-> f, count |-> 0]  BY DEF EmptyTable
<1>2. f \in [0..(c - 1) -> Slots]  BY SlotValues
<1>3. t \in Tables  BY <1>1, <1>2, RecordIsTable
<1>4. t.slot = f /\ t.count = 0 /\ DOMAIN t.slot = 0..(c - 1)  BY <1>1
<1>5. \A i \in DOMAIN t.slot : t.slot[i] = FreeSlot  BY <1>4
<1> HIDE DEF t, f
<1>6. Taken(t) = {}  BY <1>5, SlotValues DEF Taken, slot_occupied
<1>7. Cardinality({}) = 0  BY FS_EmptySet
<1>8. WellFormed(t)  BY <1>3, <1>4, <1>6, <1>7 DEF WellFormed, Placed, Unique
<1>9. NoMap \in Maps /\ \A k \in HtKeys : NoMap[k] = Absent  BY DEF Maps, NoMap
<1>10. Stores(t, NoMap)  BY <1>6, <1>9 DEF Stores
<1>11. Sized(t, c)  BY <1>2, <1>4 DEF Sized
<1>12. Represents(t, NoMap)  BY <1>8, <1>9, <1>10 DEF Represents
<1> QED  BY <1>4, <1>9, <1>11, <1>12 DEF t

-----------------------------------------------------------------------------
(* The operations                                                              *)

\* insert_entry_no_resize of an entry whose key the table does not have.
LEMMA Inserts ==
  ASSUME Hashed, NEW t, NEW m, Represents(t, m), NEW c, Sized(t, c), t.count < c,
         NEW e \in Entries, m[e.key] = Absent
  PROVE  /\ Represents(insert_entry_no_resize(t, e), [m EXCEPT ![e.key] = e.val])
         /\ Sized(insert_entry_no_resize(t, e), c)
         /\ insert_entry_no_resize(t, e).count = t.count + 1
<1> DEFINE k == e.key
           i == FirstProbe(t, k, Vacant(t))
<1>1. WellFormed(t) /\ Stores(t, m) /\ t.count = Cardinality(Taken(t))
  BY DEF Represents, WellFormed
<1>2. k \in HtKeys /\ e.val \in HtVals /\ e = Entry(k, e.val)  BY EntryValues
<1>3. Vacant(t) # {}  BY <1>1, TakenAre
<1>4. i \in Vacant(t) /\ Met(t, k, i)  BY <1>2, <1>3, InsertSlot
<1>5. i \in 0..(c - 1) /\ i \notin Taken(t)  BY <1>4, TakenAre
<1> HIDE DEF i
<1>6. \A j \in Taken(t) : t.slot[j].key # k  BY <1>1, TakenAre DEF Stores
<1>7. ~Holds(t, i, k)  BY <1>5, CapIs DEF Holds, Taken
<1>8. insert_entry_no_resize(t, e) = PutEntry(t, i, k, e.val)
  BY <1>2, <1>7 DEF insert_entry_no_resize, PutEntry, i
<1>9. PutEntry(t, i, k, e.val).count = t.count + 1  BY <1>7 DEF PutEntry
<1>10. /\ Represents(PutEntry(t, i, k, e.val), [m EXCEPT ![k] = e.val])
       /\ Sized(PutEntry(t, i, k, e.val), c)
  <2> HIDE DEF k
  <2> QED  BY <1>2, <1>4, <1>5, <1>6, PutAt
<1> QED  BY <1>8, <1>9, <1>10

\* A rehash to at least as many slots as there are entries keeps the map.
LEMMA Rehashes ==
  ASSUME Hashed, NEW t, NEW m, Represents(t, m), NEW target \in Nat, t.count <= target
  PROVE  /\ Represents(rehash_table(t, target), m)
         /\ \E c \in Nat \ {0} : target <= c /\ Sized(rehash_table(t, target), c)
         /\ rehash_table(t, target).count = t.count
<1> DEFINE es == HtEntries(t)
           N == Len(es)
           c == IF target < MinCap THEN MinCap ELSE target
<1>1. Lists(es, t, Taken(t)) /\ Apart(es) /\ N = t.count /\ N \in Nat /\ es \in Seq(Entries)
  BY EntriesOf DEF Apart
<1>2. c \in Nat \ {0} /\ target <= c /\ N <= c
  <2>1. MinCap \in Nat \ {0}  BY HashTableAssumption
  <2>2. N <= target  BY <1>1
  <2> HIDE DEF N
  <2>3. CASE target < MinCap  BY <2>1, <2>2, <2>3, <1>1
  <2>4. CASE ~(target < MinCap)  BY <2>1, <2>2, <2>4, <1>1
  <2> QED  BY <2>3, <2>4
<1> DEFINE s == EmptyTable(c)
           Body(u, n) == insert_entry_no_resize(u, es[n])
           Fits(u, n) == /\ Sized(u, c) /\ u.count = n
                         /\ \E mm \in Maps : Over(mm, NoMap, es, n) /\ Represents(u, mm)
           J == [n \in 0..N |-> {u \in Tables : Fits(u, n)}]
           step == [x \in Tables \X (1..N) |-> Body(x[1], x[2])]
           Is(f) == f = [n \in 0..N |-> IF n = 0 THEN s ELSE Body(f[n - 1], n)]
<1> HIDE DEF c
<1>3. s \in J[0]
  <2>1. Represents(s, NoMap) /\ Sized(s, c) /\ s.count = 0 /\ NoMap \in Maps  BY <1>2, EmptyIs
  <2>2. Over(NoMap, NoMap, es, 0)  BY <2>1, OverNone
  <2>3. s \in Tables  BY <2>1 DEF Represents, WellFormed
  <2> HIDE DEF s, es
  <2>4. Fits(s, 0)  BY <2>1, <2>2
  <2> HIDE DEF Fits
  <2>5. 0 \in 0..N  BY <1>1
  <2> QED  BY <2>3, <2>4, <2>5
<1>4. ASSUME NEW n \in 1..N, NEW u, Fits(u, n - 1) PROVE Body(u, n) \in Tables /\ Fits(Body(u, n), n)
  <2>1. PICK mm \in Maps : Over(mm, NoMap, es, n - 1) /\ Represents(u, mm)  BY <1>4
  <2>2. n - 1 < c /\ u.count = n - 1 /\ Sized(u, c)  BY <1>1, <1>2, <1>4
  <2>3. es[n] \in Entries  BY <1>1
  <2>3a. Apart(es) /\ n \in 1..Len(es) /\ Over(mm, NoMap, es, n - 1)  BY <1>1, <2>1
  <2> HIDE DEF es
  <2>4. /\ Over([mm EXCEPT ![es[n].key] = es[n].val], NoMap, es, n)
        /\ mm[es[n].key] = NoMap[es[n].key]
    BY <2>3a, OverMore, SMTT(30)
  <2>5. Over([mm EXCEPT ![es[n].key] = es[n].val], NoMap, es, n)  BY <2>4
  <2>6. NoMap[es[n].key] = Absent  BY <2>3, EntryValues DEF NoMap
  <2>7. /\ Represents(Body(u, n), [mm EXCEPT ![es[n].key] = es[n].val])
        /\ Sized(Body(u, n), c) /\ Body(u, n).count = u.count + 1
    BY <2>1, <2>2, <2>3, <2>4, <2>6, Inserts
  <2>8. Body(u, n) \in Tables  BY <2>7 DEF Represents, WellFormed
  <2> HIDE DEF Body
  <2>9. u.count + 1 = n  BY <2>2
  <2>10. [mm EXCEPT ![es[n].key] = es[n].val] \in Maps  BY <2>5 DEF Over
  <2> QED  BY <2>5, <2>7, <2>8, <2>9, <2>10
<1> HIDE DEF Fits, Body
<1>5. ASSUME NEW n \in 1..N, NEW x \in J[n - 1] PROVE x \in Tables /\ Body(x, n) \in J[n]
  <2>1. n \in 0..N /\ n - 1 \in 0..N  BY <1>1
  <2>2. x \in Tables /\ Fits(x, n - 1)  BY <2>1, <1>5
  <2>3. Body(x, n) \in Tables /\ Fits(Body(x, n), n)  BY <2>2, <1>4
  <2> QED  BY <2>1, <2>2, <2>3
<1>6. \A n \in 1..N : \A x \in Tables : step[<<x, n>>] = Body(x, n)  OBVIOUS
<1>7. N \in Nat /\ 0 \in 0..N /\ \A n \in 1..N : n \in 0..N /\ n - 1 \in 0..N /\ n # 0  BY <1>1
<1> HIDE DEF step, J, s, N
<1>8. \A n \in 1..N : \A x \in J[n - 1] : step[<<x, n>>] \in J[n]  BY <1>5, <1>6
<1>9. PICK g : g \in Rounds(J, N, step, s)  BY <1>3, <1>7, <1>8, LoopExists
<1>10. /\ g[0] = s /\ \A n \in 1..N : g[n] = step[<<g[n - 1], n>>]
       /\ \A n \in 0..N : g[n] \in J[n]
       /\ g = [n \in 0..N |-> g[n]]
  BY <1>9 DEF Rounds
<1>11. \A n \in 1..N : g[n] = Body(g[n - 1], n)  BY <1>5, <1>6, <1>7, <1>10
<1>12. Is(g)
  <2>1. \A n \in 0..N : g[n] = IF n = 0 THEN s ELSE Body(g[n - 1], n)
    <3> TAKE n \in 0..N
    <3>1. CASE n = 0  BY <3>1, <1>10
    <3>2. CASE n # 0
      <4>1. n \in 1..N  BY <3>2, <1>7
      <4> QED  BY <3>2, <4>1, <1>11
    <3> QED  BY <3>1, <3>2
  <2> QED  BY <2>1, <1>10
<1> HIDE DEF Is
<1> DEFINE G == CHOOSE f : Is(f)
<1>13. Is(G)  BY <1>12
<1>14. rehash_table(t, target) = G[N]  BY DEF rehash_table, Is, Body, s, c, N
<1> HIDE DEF G
<1>15. \A n \in 0..N : G[n] = IF n = 0 THEN s ELSE Body(G[n - 1], n)  BY <1>13 DEF Is
<1> DEFINE T == {n \in 0..N : G[n] \in J[n]}
<1>16. 0 \in T  BY <1>3, <1>7, <1>15
<1>17. ASSUME NEW n \in 1..N, n - 1 \in T PROVE n \in T
  <2>1. G[n] = Body(G[n - 1], n)  BY <1>7, <1>15
  <2> QED  BY <2>1, <1>5, <1>7, <1>17
<1> HIDE DEF T
<1>18. N \in T
  <2>1. \A n \in 0..N : n \in T  BY <1>7, <1>16, <1>17, InductionTo
  <2> QED  BY <2>1, <1>7
<1>19. G[N] \in Tables /\ Fits(G[N], N)
  <2>1. G[N] \in J[N] /\ N \in 0..N  BY <1>18, <1>7 DEF T
  <2> QED  BY <2>1 DEF J
<1>20. PICK mm \in Maps : Over(mm, NoMap, es, N) /\ Represents(G[N], mm)  BY <1>19 DEF Fits
<1>21. mm = m
  <2>1. NoMap \in Maps /\ \A k \in HtKeys : NoMap[k] = Absent  BY DEF Maps, NoMap
  <2>2. mm = [k \in HtKeys |-> IF m[k] # Absent THEN m[k] ELSE NoMap[k]]
    BY <1>1, <1>20, <2>1, OverAll DEF N
  <2>3. m = [k \in HtKeys |-> m[k]]  BY DEF Represents, Maps
  <2> QED  BY <2>1, <2>2, <2>3
<1>22. Sized(G[N], c) /\ G[N].count = N  BY <1>19 DEF Fits
<1>23. N = t.count  BY <1>1 DEF N
<1> QED  BY <1>2, <1>14, <1>20, <1>21, <1>22, <1>23

\* maybe_grow keeps the map and leaves a slot for one more entry.
LEMMA GrowthLeavesRoom ==
  ASSUME Hashed, NEW t, NEW m, Represents(t, m)
  PROVE  /\ Represents(maybe_grow(t), m)
         /\ \E c \in Nat \ {0} : Sized(maybe_grow(t), c) /\ maybe_grow(t).count < c
<1>1. WellFormed(t) /\ t \in Tables /\ t.count = Cardinality(Taken(t))
  BY DEF Represents, WellFormed
<1>2. PICK c \in Nat \ {0} : Sized(t, c)  BY <1>1, TableSize
<1>3. Cap(t) = c /\ t.count \in Nat /\ t.count <= c  BY <1>1, <1>2, CapIs, TakenAre
<1>4. CASE t.count + 1 > (c * 3) \div 4
  <2>1. maybe_grow(t) = rehash_table(t, c * 2)  BY <1>3, <1>4 DEF maybe_grow
  <2>2. c * 2 \in Nat /\ t.count <= c * 2 /\ t.count < c * 2  BY <1>3
  <2> DEFINE d == c * 2
  <2>3. d \in Nat /\ t.count <= d /\ t.count < d  BY <2>2
  <2> HIDE DEF d
  <2>4. /\ Represents(rehash_table(t, d), m)
        /\ \E b \in Nat \ {0} : d <= b /\ Sized(rehash_table(t, d), b)
        /\ rehash_table(t, d).count = t.count
    BY <2>3, Rehashes
  <2>5. PICK b \in Nat \ {0} : d <= b /\ Sized(rehash_table(t, d), b)  BY <2>4
  <2>6. rehash_table(t, d).count < b  BY <2>3, <2>4, <2>5, <1>3
  <2> QED  BY <2>1, <2>4, <2>5, <2>6 DEF d
<1>5. CASE ~(t.count + 1 > (c * 3) \div 4)
  <2>1. maybe_grow(t) = t  BY <1>3, <1>5 DEF maybe_grow
  <2>2. (c * 3) \div 4 <= c  OBVIOUS
  <2>3. t.count < c  BY <2>2, <1>3, <1>5
  <2> QED  BY <2>1, <2>3, <1>2
<1> QED  BY <1>4, <1>5

LEMMA Sets ==
  ASSUME Hashed, NEW t, NEW m, Represents(t, m), NEW k \in HtKeys, NEW v \in HtVals
  PROVE  Represents(ch_hashtable_set(t, k, v), [m EXCEPT ![k] = v])
<1> DEFINE u == maybe_grow(t)
           i == find_insert_slot(u, k)
<1>1. Represents(u, m) /\ \E c \in Nat \ {0} : Sized(u, c) /\ u.count < c  BY GrowthLeavesRoom
<1>2. PICK c \in Nat \ {0} : Sized(u, c) /\ u.count < c  BY <1>1
<1> HIDE DEF u
<1>3. WellFormed(u) /\ u.count = Cardinality(Taken(u))  BY <1>1 DEF Represents, WellFormed
<1>4. Vacant(u) # {}  BY <1>2, <1>3, TakenAre
<1>5. /\ i \in 0..(c - 1)
      /\ \/ i \in Taken(u) /\ u.slot[i].key = k
         \/ /\ i \in Vacant(u) /\ Met(u, k, i)
            /\ \A j \in Taken(u) : u.slot[j].key # k
  <2>1. CASE \E j \in Taken(u) : u.slot[j].key = k
    <3>1. PICK j \in Taken(u) : u.slot[j].key = k  BY <2>1
    <3>2. find_entry(u, k) = j  BY <1>3, <3>1, FindEntry
    <3>3. j \in 0..(c - 1) /\ j # -1  BY <1>2, TakenAre
    <3>4. i = j  BY <3>2, <3>3 DEF find_insert_slot
    <3> QED  BY <3>1, <3>3, <3>4
  <2>2. CASE \A j \in Taken(u) : u.slot[j].key # k
    <3>1. find_entry(u, k) = -1  BY <1>3, <2>2, FindEntry
    <3>2. i = FirstProbe(u, k, Vacant(u))  BY <3>1 DEF find_insert_slot
    <3>3. i \in Vacant(u) /\ Met(u, k, i)  BY <1>2, <1>4, <3>2, InsertSlot
    <3>4. i \in 0..(c - 1)  BY <1>2, <3>3, TakenAre
    <3> QED  BY <3>3, <3>4, <2>2
  <2> QED  BY <2>1, <2>2
<1>6. i # -1  BY <1>5
<1>7. ch_hashtable_set(t, k, v) = PutEntry(u, i, k, v)
  BY <1>6 DEF ch_hashtable_set, PutGrown, u
<1> HIDE DEF i
<1>8. Represents(PutEntry(u, i, k, v), [m EXCEPT ![k] = v])
  BY <1>1, <1>2, <1>5, PutAt
<1> QED  BY <1>7, <1>8

LEMMA Deletes ==
  ASSUME Hashed, NEW t, NEW m, Represents(t, m), NEW k \in HtKeys
  PROVE  Represents(ch_hashtable_delete(t, k), [m EXCEPT ![k] = Absent])
<1>1. /\ WellFormed(t) /\ Stores(t, m) /\ m \in Maps /\ t \in Tables
      /\ Placed(t) /\ Unique(t) /\ t.count = Cardinality(Taken(t))
  BY DEF Represents, WellFormed
<1>2. PICK c \in Nat \ {0} : Sized(t, c)  BY <1>1, TableSize
<1> DEFINE mm == [m EXCEPT ![k] = Absent]
<1>3. mm \in Maps /\ mm[k] = Absent /\ \A l \in HtKeys : l # k => mm[l] = m[l]
  BY <1>1 DEF Maps
<1>4. CASE \A j \in Taken(t) : t.slot[j].key # k
  <2>1. find_entry(t, k) = -1  BY <1>1, <1>4, FindEntry
  <2>2. ch_hashtable_delete(t, k) = t  BY <2>1 DEF ch_hashtable_delete
  <2>3. m[k] = Absent  BY <1>1, <1>4 DEF Stores
  <2>4. mm = m  BY <1>1, <2>3 DEF Maps
  <2> QED  BY <2>2, <2>4
<1>5. CASE \E j \in Taken(t) : t.slot[j].key = k
  <2>1. PICK i \in Taken(t) : t.slot[i].key = k  BY <1>5
  <2>2. find_entry(t, k) = i  BY <1>1, <2>1, FindEntry
  <2>3. /\ c \in Nat \ {0} /\ Cap(t) = c /\ DOMAIN t.slot = 0..(c - 1)
        /\ t.slot \in [0..(c - 1) -> Slots]
    BY <1>2, CapIs
  <2>4. i \in 0..(c - 1) /\ i # -1 /\ IsFiniteSet(Taken(t)) /\ Cardinality(Taken(t)) \in Nat
    BY <1>2, TakenAre
  <2> DEFINE u == ch_hashtable_delete(t, k)
             f == [t.slot EXCEPT ![i] = Tombstone]
             n == IF t.count > 0 THEN t.count - 1 ELSE 0
  <2>5. u = [slot |-> f, count |-> n]  BY <2>2, <2>4 DEF ch_hashtable_delete
  <2>6. f \in [0..(c - 1) -> Slots]  BY <2>3, SlotValues
  <2>7. n \in Nat /\ n = Cardinality(Taken(t)) - 1
    <3>1. Cardinality(Taken(t)) # 0
      <4>1. Taken(t) # {}  BY <2>1
      <4> QED  BY <4>1, <2>4, FS_EmptySet
    <3> QED  BY <3>1, <2>4, <1>1
  <2>8. u.slot = f /\ u.count = n  BY <2>5
  <2>9. f[i] = Tombstone /\ \A j \in 0..(c - 1) : j # i => f[j] = t.slot[j]  BY <2>3, <2>4
  <2> HIDE DEF f, n
  <2>10. u \in Tables  BY <2>5, <2>6, <2>7, RecordIsTable
  <2> HIDE DEF u
  <2>11. Sized(u, c)  BY <2>6, <2>8 DEF Sized
  <2>12. Cap(u) = c /\ DOMAIN u.slot = 0..(c - 1)  BY <2>11, CapIs
  <2>13. Taken(u) = Taken(t) \ {i}
    BY <2>3, <2>8, <2>9, <2>12, SlotValues DEF Taken, slot_occupied
  <2>14. \A j \in Taken(u) : j \in Taken(t) /\ j # i /\ u.slot[j] = t.slot[j]
    BY <2>8, <2>9, <2>13, <1>2, TakenAre
  <2>15. Placed(u)
    <3> SUFFICES ASSUME NEW j \in Taken(u) PROVE Met(u, u.slot[j].key, j)  BY DEF Placed
    <3>1. Met(t, u.slot[j].key, j)  BY <2>14, <1>1 DEF Placed
    <3>2. u.slot[j].key \in HtKeys  BY <2>11, TakenAre
    <3>3. \A l \in 1..c : Probe(t, u.slot[j].key)[l] \in 0..(c - 1)
      BY <2>3, <3>2, ProbeReaches DEF Hashed
    <3>4. \A l \in 1..c : t.slot[Probe(t, u.slot[j].key)[l]] # FreeSlot
                           => u.slot[Probe(t, u.slot[j].key)[l]] # FreeSlot
      BY <3>3, <2>8, <2>9, SlotValues
    <3> QED  BY <3>1, <3>4, <2>3, <2>12, StillMet
  <2>16. Unique(u)  BY <2>14, <1>1 DEF Unique
  <2>17. u.count = Cardinality(Taken(u))
    <3>1. Cardinality(Taken(t) \ {i}) = Cardinality(Taken(t)) - 1  BY <2>1, <2>4, FS_RemoveElement
    <3> QED  BY <3>1, <2>7, <2>8, <2>13
  <2> HIDE DEF mm
  <2>18. Stores(u, mm)
    <3>1. ASSUME NEW j \in Taken(u) PROVE mm[u.slot[j].key] = u.slot[j].val
      <4>1. j \in Taken(t) /\ j # i /\ u.slot[j] = t.slot[j]  BY <2>14
      <4>2. t.slot[j].key \in HtKeys /\ t.slot[j].key # k
        BY <4>1, <2>1, <1>1, <1>2, TakenAre DEF Unique
      <4> QED  BY <4>1, <4>2, <1>1, <1>3 DEF Stores
    <3>2. ASSUME NEW l \in HtKeys, mm[l] # Absent PROVE \E j \in Taken(u) : u.slot[j].key = l
      <4>1. l # k /\ m[l] # Absent  BY <3>2, <1>3
      <4>2. PICK j \in Taken(t) : t.slot[j].key = l  BY <4>1, <1>1 DEF Stores
      <4>3. j \in Taken(u)  BY <4>1, <4>2, <2>1, <2>13
      <4> QED  BY <4>2, <4>3, <2>14
    <3> QED  BY <3>1, <3>2 DEF Stores
  <2>19. Represents(u, mm)  BY <2>10, <2>15, <2>16, <2>17, <2>18, <1>3 DEF Represents, WellFormed
  <2> QED  BY <2>19 DEF u, mm
<1> QED  BY <1>4, <1>5

-----------------------------------------------------------------------------
(* Tables made from the entries of others                                      *)

\* The rounds of storing the entries of l into t one by one.
SetRounds(t, l) ==
    {g \in [0..Len(l) -> Tables] :
       /\ g[0] = t
       /\ \A n \in 1..Len(l) : g[n] = ch_hashtable_set(g[n - 1], l[n].key, l[n].val)}

\* The table after n of them.
Filled(u, m, l, n) == \E mm \in Maps : Over(mm, m, l, n) /\ Represents(u, mm)

LEMMA SetsAll ==
  ASSUME Hashed, NEW t, NEW m, Represents(t, m), NEW l, Apart(l)
  PROVE  \E g \in SetRounds(t, l) : \A n \in 0..Len(l) : Filled(g[n], m, l, n)
<1> DEFINE N == Len(l)
           Body(u, n) == ch_hashtable_set(u, l[n].key, l[n].val)
           J == [n \in 0..N |-> {u \in Tables : Filled(u, m, l, n)}]
           step == [x \in Tables \X (1..N) |-> Body(x[1], x[2])]
<1>1. N \in Nat /\ l \in Seq(Entries)  BY DEF Apart
<1>2. t \in Tables /\ m \in Maps  BY DEF Represents, WellFormed
<1>3. t \in J[0]
  <2>1. Over(m, m, l, 0)  BY <1>2, OverNone
  <2>2. Filled(t, m, l, 0)  BY <2>1, <1>2 DEF Filled
  <2>3. 0 \in 0..N  BY <1>1
  <2> QED  BY <1>2, <2>2, <2>3
<1>4. ASSUME NEW n \in 1..N, NEW u, Filled(u, m, l, n - 1)
      PROVE  Body(u, n) \in Tables /\ Filled(Body(u, n), m, l, n)
  <2>1. PICK mm \in Maps : Over(mm, m, l, n - 1) /\ Represents(u, mm)  BY <1>4 DEF Filled
  <2>2. l[n] \in Entries  BY <1>1
  <2>3. l[n].key \in HtKeys /\ l[n].val \in HtVals  BY <2>2, EntryValues
  <2> DEFINE mn == [mm EXCEPT ![l[n].key] = l[n].val]
  <2>4. Over(mn, m, l, n) /\ mm[l[n].key] = m[l[n].key]  BY <2>1, OverMore
  <2>5. Represents(Body(u, n), mn)  BY <2>1, <2>3, Sets
  <2> HIDE DEF Body, mn
  <2>6. mn \in Maps  BY <2>4 DEF Over
  <2>7. Body(u, n) \in Tables  BY <2>5 DEF Represents, WellFormed
  <2> QED  BY <2>4, <2>5, <2>6, <2>7 DEF Filled
<1> HIDE DEF Body
<1>5. ASSUME NEW n \in 1..N, NEW x \in J[n - 1] PROVE x \in Tables /\ Body(x, n) \in J[n]
  <2>1. n \in 0..N /\ n - 1 \in 0..N  BY <1>1
  <2>2. x \in Tables /\ Filled(x, m, l, n - 1)  BY <2>1, <1>5
  <2>3. Body(x, n) \in Tables /\ Filled(Body(x, n), m, l, n)  BY <2>2, <1>4
  <2> QED  BY <2>1, <2>2, <2>3
<1>6. \A n \in 1..N : \A x \in Tables : step[<<x, n>>] = Body(x, n)  OBVIOUS
<1>7. N \in Nat /\ 0 \in 0..N /\ \A n \in 1..N : n \in 0..N /\ n - 1 \in 0..N  BY <1>1
<1>8. \A n \in 0..N : \A u \in J[n] : u \in Tables /\ Filled(u, m, l, n)  OBVIOUS
<1> HIDE DEF step, J, N
<1>9. \A n \in 1..N : \A x \in J[n - 1] : step[<<x, n>>] \in J[n]  BY <1>5, <1>6
<1>10. PICK g : g \in Rounds(J, N, step, t)  BY <1>3, <1>7, <1>9, LoopExists
<1>11. /\ g[0] = t /\ \A n \in 1..N : g[n] = step[<<g[n - 1], n>>]
       /\ \A n \in 0..N : g[n] \in J[n]
       /\ g = [n \in 0..N |-> g[n]]
  BY <1>10 DEF Rounds
<1>12. \A n \in 0..N : g[n] \in Tables /\ Filled(g[n], m, l, n)  BY <1>8, <1>11
<1>13. g \in [0..N -> Tables]  BY <1>11, <1>12
<1>14. \A n \in 1..N : g[n] = Body(g[n - 1], n)  BY <1>5, <1>6, <1>7, <1>11
<1>15. g \in SetRounds(t, l)  BY <1>11, <1>13, <1>14 DEF SetRounds, Body, N
<1> QED  BY <1>12, <1>15 DEF N

LEMMA Refills ==
  ASSUME Hashed, NEW t, NEW m, Represents(t, m), NEW l, Apart(l)
  PROVE  Filled(Refill(t, l), m, l, Len(l))
<1> DEFINE N == Len(l)
           Body(u, n) == ch_hashtable_set(u, l[n].key, l[n].val)
           Is(f) == f = [n \in 0..N |-> IF n = 0 THEN t ELSE Body(f[n - 1], n)]
           G == CHOOSE f : Is(f)
<1>1. PICK g \in SetRounds(t, l) : \A n \in 0..N : Filled(g[n], m, l, n)  BY SetsAll
<1>2. N \in Nat  BY DEF Apart
<1>3. /\ g \in [0..N -> Tables] /\ g[0] = t
      /\ \A n \in 1..N : g[n] = Body(g[n - 1], n)
  BY <1>1 DEF SetRounds
<1> HIDE DEF N, Body
<1>4. \A n \in 1..N : n \in 0..N /\ n - 1 \in 0..N /\ n # 0  BY <1>2
<1>5. \A n \in 0..N : n = 0 \/ n \in 1..N  BY <1>2
<1>6. Is(g)
  <2>1. \A n \in 0..N : g[n] = IF n = 0 THEN t ELSE Body(g[n - 1], n)  BY <1>3, <1>4, <1>5
  <2> QED  BY <2>1, <1>3
<1> HIDE DEF Is
<1>7. Is(G)  BY <1>6
<1>8. Refill(t, l) = G[N]  BY DEF Refill, Is, Body, N
<1> HIDE DEF G
<1>9. \A n \in 0..N : G[n] = IF n = 0 THEN t ELSE Body(G[n - 1], n)  BY <1>7 DEF Is
<1> DEFINE T == {n \in 0..N : G[n] = g[n]}
<1>10. 0 \in T
  <2>1. 0 \in 0..N  BY <1>2
  <2> QED  BY <2>1, <1>3, <1>9
<1>11. \A n \in 1..N : n - 1 \in T => n \in T  BY <1>3, <1>4, <1>9
<1> HIDE DEF T
<1>12. N \in T
  <2>1. \A n \in 0..N : n \in T  BY <1>2, <1>10, <1>11, InductionTo
  <2> QED  BY <2>1, <1>2
<1>13. G[N] = g[N]  BY <1>12 DEF T
<1>14. N \in 0..N  BY <1>2
<1>15. Filled(g[N], m, l, N)  BY <1>1, <1>14
<1> QED  BY <1>8, <1>13, <1>15 DEF N

\* alist->hash-table of entries with different keys stores them all.
LEMMA FromAlist ==
  ASSUME Hashed, NEW l, Apart(l)
  PROVE  Filled(prim_alist_to_hash_table(l), NoMap, l, Len(l))
<1> DEFINE N == Len(l)
           t == EmptyTable(MinCap)
           Set1(u, n) == ch_hashtable_set(u, l[n].key, l[n].val)
           Body(u, n) == IF ch_hashtable_get(u, l[n].key) # Absent THEN u ELSE Set1(u, n)
           Is(f) == f = [n \in 0..N |-> IF n = 0 THEN t ELSE Body(f[n - 1], n)]
           G == CHOOSE f : Is(f)
<1>0. MinCap \in Nat \ {0}  BY HashTableAssumption
<1>1. Represents(t, NoMap)  BY <1>0, EmptyIs
<1> HIDE DEF t
<1>2. PICK g \in SetRounds(t, l) : \A n \in 0..N : Filled(g[n], NoMap, l, n)  BY <1>1, SetsAll
<1>3. N \in Nat /\ l \in Seq(Entries)  BY DEF Apart
<1>4. g \in [0..N -> Tables] /\ g[0] = t /\ \A n \in 1..N : g[n] = Set1(g[n - 1], n)
  BY <1>2 DEF SetRounds
<1> HIDE DEF Set1
<1>5. ASSUME NEW n \in 1..N PROVE g[n] = Body(g[n - 1], n)
  <2>1. n - 1 \in 0..N  BY <1>3
  <2>2. PICK mm \in Maps : Over(mm, NoMap, l, n - 1) /\ Represents(g[n - 1], mm)
    BY <2>1, <1>2 DEF Filled
  <2>3. l[n] \in Entries  BY <1>3
  <2>4. l[n].key \in HtKeys  BY <2>3, EntryValues
  <2>5. mm[l[n].key] = NoMap[l[n].key]
    <3> DEFINE b == NoMap
    <3>1. n \in 1..Len(l) /\ Over(mm, b, l, n - 1)  BY <2>2
    <3> HIDE DEF b
    <3>2. /\ Over([mm EXCEPT ![l[n].key] = l[n].val], b, l, n)
          /\ mm[l[n].key] = b[l[n].key]
      BY <3>1, OverMore
    <3> QED  BY <3>2 DEF b
  <2>6. ch_hashtable_get(g[n - 1], l[n].key) = mm[l[n].key]  BY <2>2, <2>4, GetIs
  <2>7. ch_hashtable_get(g[n - 1], l[n].key) = Absent  BY <2>4, <2>5, <2>6 DEF NoMap
  <2> QED  BY <2>7, <1>4
<1>6. \A n \in 1..N : n \in 0..N /\ n - 1 \in 0..N /\ n # 0  BY <1>3
<1>7. \A n \in 0..N : n = 0 \/ n \in 1..N  BY <1>3
<1> HIDE DEF N, Body
<1>8. Is(g)
  <2>1. \A n \in 0..N : g[n] = IF n = 0 THEN t ELSE Body(g[n - 1], n)  BY <1>4, <1>5, <1>6, <1>7
  <2> QED  BY <2>1, <1>4
<1> HIDE DEF Is
<1>9. Is(G)  BY <1>8
<1>10. prim_alist_to_hash_table(l) = G[N]
  BY DEF prim_alist_to_hash_table, Is, Body, Set1, N, t
<1> HIDE DEF G
<1>11. \A n \in 0..N : G[n] = IF n = 0 THEN t ELSE Body(G[n - 1], n)  BY <1>9 DEF Is
<1> DEFINE T == {n \in 0..N : G[n] = g[n]}
<1>12. 0 \in T
  <2>1. 0 \in 0..N  BY <1>3
  <2> QED  BY <2>1, <1>4, <1>11
<1>13. \A n \in 1..N : n - 1 \in T => n \in T  BY <1>5, <1>6, <1>11
<1> HIDE DEF T
<1>14. N \in T
  <2>1. \A n \in 0..N : n \in T  BY <1>3, <1>12, <1>13, InductionTo
  <2> QED  BY <2>1, <1>3
<1>15. G[N] = g[N]  BY <1>14 DEF T
<1>16. N \in 0..N  BY <1>3
<1>17. Filled(g[N], NoMap, l, N)  BY <1>2, <1>16
<1> QED  BY <1>10, <1>15, <1>17 DEF N

\* The other order of a list lists the same.
LEMMA ReverseLists ==
  ASSUME NEW t, NEW K, NEW es, Lists(es, t, K)
  PROVE  Lists(Reverse(es), t, K) /\ Len(Reverse(es)) = Len(es)
<1> DEFINE n == Len(es)
           fs == Reverse(es)
<1>1. /\ es \in Seq(Entries) /\ n = Cardinality(K) /\ n \in Nat
      /\ \A j \in 1..n : \E i \in K : es[j] = t.slot[i]
      /\ \A i \in K : \E j \in 1..n : es[j] = t.slot[i]
      /\ \A j, l \in 1..n : es[j].key = es[l].key => j = l
  BY DEF Lists
<1>2. fs = [i \in 1..n |-> es[(n - i) + 1]]  BY DEF Reverse
<1> HIDE DEF n, fs
<1>3. \A i \in 1..n : (n - i) + 1 \in 1..n  BY <1>1
<1>4. \A i \in 1..n : es[i] \in Entries  BY <1>1 DEF n
<1>5. \A i \in 1..n : es[(n - i) + 1] \in Entries  BY <1>3, <1>4
<1>6. fs \in [1..n -> Entries]  BY <1>2, <1>5
<1>7. fs \in Seq(Entries) /\ Len(fs) = n
  <2>1. n \in Nat  BY <1>1
  <2> QED  BY <2>1, <1>6
<1>8. \A i \in 1..n : fs[i] = es[(n - i) + 1]  BY <1>2
<1>9. \A j \in 1..n : \E i \in K : fs[j] = t.slot[i]
  <2> TAKE j \in 1..n
  <2>1. PICK q \in 1..n : q = (n - j) + 1  BY <1>3
  <2>2. PICK i \in K : es[q] = t.slot[i]  BY <1>1
  <2> QED  BY <2>1, <2>2, <1>8
<1>10. \A i \in K : \E j \in 1..n : fs[j] = t.slot[i]
  <2> TAKE i \in K
  <2>1. PICK j \in 1..n : es[j] = t.slot[i]  BY <1>1
  <2>2. (n - j) + 1 \in 1..n  BY <1>3
  <2>3. n \in Nat /\ j \in Int  BY <1>1
  <2>4. (n - ((n - j) + 1)) + 1 = j  BY <2>3
  <2> QED  BY <2>1, <2>2, <2>4, <1>8
<1>11. \A j, l \in 1..n : fs[j].key = fs[l].key => j = l
  <2> SUFFICES ASSUME NEW j \in 1..n, NEW l \in 1..n, fs[j].key = fs[l].key PROVE j = l
    OBVIOUS
  <2>1. PICK p \in 1..n : p = (n - j) + 1  BY <1>3
  <2>2. PICK q \in 1..n : q = (n - l) + 1  BY <1>3
  <2>3. fs[j] = es[p] /\ fs[l] = es[q]  BY <2>1, <2>2, <1>8
  <2>4. p = q  BY <2>3, <1>1
  <2>5. n \in Nat  BY <1>1
  <2> QED  BY <2>1, <2>2, <2>4, <2>5
<1>12. Lists(fs, t, K)  BY <1>1, <1>7, <1>9, <1>10, <1>11 DEF Lists
<1> QED  BY <1>7, <1>12 DEF fs, n

\* One entry for every key the map has.
LEMMA CountIs ==
  ASSUME NEW t, NEW m, Represents(t, m)
  PROVE  t.count = Cardinality({k \in HtKeys : m[k] # Absent})
<1> DEFINE K == {k \in HtKeys : m[k] # Absent}
           f == [i \in Taken(t) |-> t.slot[i].key]
<1>1. /\ t \in Tables /\ Unique(t) /\ t.count = Cardinality(Taken(t)) /\ Stores(t, m)
  BY DEF Represents, WellFormed
<1>2. PICK c \in Nat \ {0} : Sized(t, c)  BY <1>1, TableSize
<1>3. /\ IsFiniteSet(Taken(t))
      /\ \A i \in Taken(t) : t.slot[i].key \in HtKeys /\ t.slot[i].val # Absent
  BY <1>2, TakenAre
<1>4. \A i \in Taken(t) : m[t.slot[i].key] = t.slot[i].val  BY <1>1 DEF Stores
<1>5. \A i \in Taken(t) : t.slot[i].key \in K  BY <1>3, <1>4
<1>6. \A k \in K : \E i \in Taken(t) : t.slot[i].key = k  BY <1>1 DEF Stores
<1>7. \A i, j \in Taken(t) : t.slot[i].key = t.slot[j].key => i = j  BY <1>1 DEF Unique
<1> HIDE DEF K
<1>8. f \in [Taken(t) -> K] /\ \A i \in Taken(t) : f[i] = t.slot[i].key  BY <1>5
<1> HIDE DEF f
<1>9. f \in Bijection(Taken(t), K)
  BY <1>6, <1>7, <1>8 DEF Bijection, Injection, Surjection, IsInjective
<1>10. Cardinality(K) = Cardinality(Taken(t))  BY <1>3, <1>9, FS_Bijection DEF ExistsBijection
<1> QED  BY <1>1, <1>10 DEF K

\* What represents a map behaves as one.
LEMMA RepresentsIsMap ==
  ASSUME Hashed, NEW t, NEW m, Represents(t, m)
  PROVE  IsMap(t, m)
<1> DEFINE es == HtEntries(t)
           l == prim_hash_table_to_alist(t)
<1>1. Gets(t, m)  BY GetIs DEF Gets
<1>2. /\ Lists(es, t, Taken(t)) /\ Apart(es) /\ Len(es) = t.count /\ t.count \in Nat
  BY EntriesOf
<1>3. t.count = Cardinality({k \in HtKeys : m[k] # Absent})  BY CountIs
<1>4. SubSeq(es, 1, t.count) = es
  <2>1. es \in Seq(Entries)  BY <1>2 DEF Apart
  <2> HIDE DEF es
  <2> QED  BY <2>1, <1>2
<1>5. l = Reverse(es)  BY <1>4 DEF prim_hash_table_to_alist, snapshot_entries
<1> HIDE DEF l, es
<1>6. Lists(l, t, Taken(t))  BY <1>2, <1>5, ReverseLists
<1>7. Apart(l)  BY <1>6 DEF Lists, Apart
<1> DEFINE u == prim_alist_to_hash_table(l)
<1>8. Filled(u, NoMap, l, Len(l))  BY <1>7, FromAlist
<1> HIDE DEF u
<1>9. PICK mm \in Maps : Over(mm, NoMap, l, Len(l)) /\ Represents(u, mm)  BY <1>8 DEF Filled
<1>10. mm = m
  <2>1. NoMap \in Maps /\ \A k \in HtKeys : NoMap[k] = Absent  BY DEF Maps, NoMap
  <2>2. mm = [k \in HtKeys |-> IF m[k] # Absent THEN m[k] ELSE NoMap[k]]
    BY <1>6, <1>9, <2>1, OverAll
  <2>3. m = [k \in HtKeys |-> m[k]]  BY DEF Represents, Maps
  <2> QED  BY <2>1, <2>2, <2>3
<1>11. Gets(u, m)  BY <1>9, <1>10, GetIs DEF Gets
<1> QED  BY <1>1, <1>2, <1>3, <1>11 DEF IsMap, es, u, l

-----------------------------------------------------------------------------
(* The inductive invariant                                                     *)

HtInv ==
    /\ Hashed /\ update \in HtKeys \cup {NoKey}
    /\ promise = [ht |-> promise.ht, other |-> promise.other]
    /\ Represents(ht, promise.ht) /\ Represents(other, promise.other)

LEMMA HtInvIsMap == HtInv => HashTableIsMap
BY RepresentsIsMap DEF HtInv, HashTableIsMap

LEMMA HtInvInit == HtInit => HtInv
<1> SUFFICES ASSUME HtInit PROVE HtInv  OBVIOUS
<1>1. MinCap \in Nat \ {0} /\ Hashes \subseteq Nat  BY HashTableAssumption
<1>2. Represents(EmptyTable(MinCap), NoMap)  BY <1>1, EmptyIs
<1>3. ht = EmptyTable(MinCap) /\ other = EmptyTable(MinCap)  BY DEF HtInit
<1>4. promise = [ht |-> NoMap, other |-> NoMap]  BY DEF HtInit, NoMap
<1>5. hash \in [HtKeys -> Nat]  BY <1>1 DEF HtInit
<1>6. update = NoKey  BY DEF HtInit
<1>7. promise.ht = NoMap /\ promise.other = NoMap  BY <1>4
<1> QED  BY <1>2, <1>3, <1>4, <1>5, <1>6, <1>7 DEF HtInv, Hashed

\* While the hashes of the keys stay, tables are searched alike.
LEMMA SearchedAlike ==
  ASSUME hash' = hash
  PROVE  /\ Represents(ht', promise'.ht) => Represents(ht, promise.ht)'
         /\ Represents(other', promise'.other) => Represents(other, promise.other)'
<1>1. \A k, i : Met(ht', k, i) => Met(ht, k, i)'  BY DEF Met, Probe, Cap
<1>2. Placed(ht') => Placed(ht)'  BY <1>1 DEF Placed, Taken, slot_occupied
<1>3. WellFormed(ht') => WellFormed(ht)'  BY <1>2 DEF WellFormed, Unique, Taken, slot_occupied
<1>4. Represents(ht', promise'.ht) => Represents(ht, promise.ht)'
  BY <1>3 DEF Represents, Stores, Taken, slot_occupied
<1>5. \A k, i : Met(other', k, i) => Met(other, k, i)'  BY DEF Met, Probe, Cap
<1>6. Placed(other') => Placed(other)'  BY <1>5 DEF Placed, Taken, slot_occupied
<1>7. WellFormed(other') => WellFormed(other)'  BY <1>6 DEF WellFormed, Unique, Taken, slot_occupied
<1>8. Represents(other', promise'.other) => Represents(other, promise.other)'
  BY <1>7 DEF Represents, Stores, Taken, slot_occupied
<1> QED  BY <1>4, <1>8

LEMMA HtInvNext == HtInv /\ [HtNext]_htVars => HtInv'
<1> SUFFICES ASSUME HtInv, [HtNext]_htVars PROVE HtInv'  OBVIOUS
<1>0. /\ Hashed /\ update \in HtKeys \cup {NoKey}
      /\ promise = [ht |-> promise.ht, other |-> promise.other]
      /\ Represents(ht, promise.ht) /\ Represents(other, promise.other)
      /\ promise.ht \in Maps /\ promise.other \in Maps
  BY DEF HtInv, Represents
<1>1. ASSUME hash' = hash, update' \in HtKeys \cup {NoKey},
             NEW m, NEW mm, promise' = [ht |-> m, other |-> mm],
             Represents(ht', m), Represents(other', mm)
      PROVE  HtInv'
  <2>1. promise'.ht = m /\ promise'.other = mm  BY <1>1
  <2>2. Represents(ht, promise.ht)'  BY <1>1, <2>1, SearchedAlike
  <2>3. Represents(other, promise.other)'  BY <1>1, <2>1, SearchedAlike
  <2>4. promise' = [ht |-> promise'.ht, other |-> promise'.other]  BY <1>1
  <2>5. Hashed'  BY <1>0, <1>1 DEF Hashed
  <2> QED  BY <1>1, <2>2, <2>3, <2>4, <2>5 DEF HtInv
<1>2. UNCHANGED ht => Represents(ht', promise.ht)  BY <1>0
<1>3. UNCHANGED other => Represents(other', promise.other)  BY <1>0
<1>4. promise' = promise => promise' = [ht |-> promise.ht, other |-> promise.other]  BY <1>0
<1>5. CASE UNCHANGED htVars
  <2>1. /\ hash' = hash /\ update' = update /\ promise' = promise
        /\ UNCHANGED ht /\ UNCHANGED other
    BY <1>5 DEF htVars
  <2> QED  BY <2>1, <1>0, <1>1, <1>2, <1>3, <1>4
<1>6. ASSUME NEW k \in HtKeys, NEW v \in HtVals, prim_hash_table_set(k, v) PROVE HtInv'
  <2> DEFINE m == [promise.ht EXCEPT ![k] = v]
  <2>1. /\ ht' = ch_hashtable_set(ht, k, v) /\ promise' = [promise EXCEPT !.ht[k] = v]
        /\ UNCHANGED other /\ hash' = hash /\ update' = update
    BY <1>6 DEF prim_hash_table_set
  <2>2. promise' = [ht |-> m, other |-> promise.other]  BY <2>1, <1>0
  <2>3. Represents(ht', m)  BY <2>1, <1>0, Sets
  <2> HIDE DEF m
  <2> QED  BY <2>1, <2>2, <2>3, <1>0, <1>1, <1>3
<1>7. ASSUME NEW k \in HtKeys, prim_hash_table_delete(k) PROVE HtInv'
  <2> DEFINE m == [promise.ht EXCEPT ![k] = Absent]
  <2>1. /\ ht' = ch_hashtable_delete(ht, k) /\ promise' = [promise EXCEPT !.ht[k] = Absent]
        /\ UNCHANGED other /\ hash' = hash /\ update' = update
    BY <1>7 DEF prim_hash_table_delete
  <2>2. promise' = [ht |-> m, other |-> promise.other]  BY <2>1, <1>0
  <2>3. Represents(ht', m)  BY <2>1, <1>0, Deletes
  <2> HIDE DEF m
  <2> QED  BY <2>1, <2>2, <2>3, <1>0, <1>1, <1>3
<1>8. ASSUME NEW k \in HtKeys, prim_hash_table_update_bang(k) PROVE HtInv'
  <2>1. /\ hash' = hash /\ update' = k /\ promise' = promise
        /\ UNCHANGED ht /\ UNCHANGED other
    BY <1>8 DEF prim_hash_table_update_bang
  <2> QED  BY <2>1, <1>1, <1>2, <1>3, <1>4
<1>9. ASSUME NEW v \in HtVals, UpdateReturns(v) PROVE HtInv'
  <2> DEFINE m == [promise.ht EXCEPT ![update] = v]
  <2>1. /\ ht' = ch_hashtable_set(ht, update, v) /\ promise' = [promise EXCEPT !.ht[update] = v]
        /\ UNCHANGED other /\ hash' = hash /\ update' = NoKey /\ update # NoKey
    BY <1>9 DEF UpdateReturns
  <2>2. promise' = [ht |-> m, other |-> promise.other]  BY <2>1, <1>0
  <2>3. update \in HtKeys  BY <2>1, <1>0
  <2>4. Represents(ht', m)  BY <2>1, <2>3, <1>0, Sets
  <2> HIDE DEF m
  <2> QED  BY <2>1, <2>2, <2>4, <1>0, <1>1, <1>3
<1>10. CASE prim_hash_table_walk \/ WalkCall
  <2>1. /\ hash' = hash /\ update' = update /\ promise' = promise
        /\ UNCHANGED ht /\ UNCHANGED other
    BY <1>10 DEF prim_hash_table_walk, WalkCall
  <2> QED  BY <2>1, <1>0, <1>1, <1>2, <1>3, <1>4
<1>11. CASE prim_hash_table_copy
  <2> DEFINE es == HtEntries(ht)
             t == EmptyTable(Cap(ht))
  <2>1. /\ other' = Refill(t, es) /\ promise' = [promise EXCEPT !.other = promise.ht]
        /\ UNCHANGED ht /\ hash' = hash /\ update' = update
    BY <1>11 DEF prim_hash_table_copy
  <2>2. promise' = [ht |-> promise.ht, other |-> promise.ht]  BY <2>1, <1>0
  <2>3. Lists(es, ht, Taken(ht)) /\ Apart(es)  BY <1>0, EntriesOf
  <2>4. Represents(t, NoMap) /\ NoMap \in Maps
    <3>1. PICK c \in Nat \ {0} : Sized(ht, c)  BY <1>0, TableSize DEF Represents, WellFormed
    <3>2. Cap(ht) = c  BY <3>1, CapIs
    <3> QED  BY <3>2, EmptyIs
  <2> HIDE DEF es, t
  <2>5. Filled(Refill(t, es), NoMap, es, Len(es))  BY <1>0, <2>3, <2>4, Refills
  <2>6. PICK mm \in Maps : Over(mm, NoMap, es, Len(es)) /\ Represents(Refill(t, es), mm)
    BY <2>5 DEF Filled
  <2>7. mm = promise.ht
    <3>1. \A k \in HtKeys : NoMap[k] = Absent  BY DEF NoMap
    <3>2. mm = [k \in HtKeys |-> IF promise.ht[k] # Absent THEN promise.ht[k] ELSE NoMap[k]]
      BY <1>0, <2>3, <2>4, <2>6, OverAll
    <3>3. promise.ht = [k \in HtKeys |-> promise.ht[k]]  BY <1>0 DEF Maps
    <3> QED  BY <3>1, <3>2, <3>3
  <2>8. Represents(other', promise.ht)  BY <2>1, <2>6, <2>7
  <2> QED  BY <2>1, <2>2, <2>8, <1>0, <1>1, <1>2
<1>12. CASE prim_hash_table_merge_bang
  <2> DEFINE es == HtEntries(other)
             m == [k \in HtKeys |->
                     IF promise.other[k] # Absent THEN promise.other[k] ELSE promise.ht[k]]
  <2>1. /\ ht' = Refill(ht, es) /\ promise' = [promise EXCEPT !.ht = m]
        /\ UNCHANGED other /\ hash' = hash /\ update' = update
    BY <1>12 DEF prim_hash_table_merge_bang
  <2> HIDE DEF m
  <2>2. promise' = [ht |-> m, other |-> promise.other]  BY <2>1, <1>0
  <2>3. Lists(es, other, Taken(other)) /\ Apart(es)  BY <1>0, EntriesOf
  <2> HIDE DEF es
  <2>4. Filled(Refill(ht, es), promise.ht, es, Len(es))  BY <1>0, <2>3, Refills
  <2>5. PICK mm \in Maps : Over(mm, promise.ht, es, Len(es)) /\ Represents(Refill(ht, es), mm)
    BY <2>4 DEF Filled
  <2>6. mm = m  BY <1>0, <2>3, <2>5, OverAll DEF m
  <2>7. Represents(ht', m)  BY <2>1, <2>5, <2>6
  <2> QED  BY <2>1, <2>2, <2>7, <1>0, <1>1, <1>3
<1> QED  BY <1>5, <1>6, <1>7, <1>8, <1>9, <1>10, <1>11, <1>12 DEF HtNext

\* A hash table is the map the program stored in it: for any keys, values, hash
\* function and number of operations, through collisions, tombstones, rehashing,
\* copies, merges and callbacks that change the table under a running primitive,
\* every key gives its last value, the count is the number of keys, and the
\* table's alist makes an equal table (hashtable.c and prim_hashtable.c).
THEOREM HashTablesAreMaps == HtSpec => []HashTableIsMap
<1>1. HtInv /\ [HtNext]_htVars => HtInv'  BY HtInvNext
<1> QED  BY <1>1, HtInvInit, HtInvIsMap, PTL DEF HtSpec
=============================================================================
