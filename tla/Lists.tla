------------------------------- MODULE Lists -------------------------------
(* The list primitives (src/src/prim_list.c, src/src/prim_srfi1.c) on every   *)
(* shape a chain of pairs can have: ended by the empty list, by an atom, or   *)
(* by one of its own pairs.  Each loop is the loop of the code over the pairs *)
(* it follows; one that never ends has the outcome Loops.  Callbacks answer   *)
(* true or false or raise.                                                    *)
EXTENDS Integers, Sequences, SequencesExt, FiniteSets

CONSTANTS MaxLen,      \* bound: pairs of the first list
          MaxLen2,     \* bound: pairs of the second list
          LengthLimit, \* pairs after which list_length gives up: 1000000
          MapLimit,    \* elements of the native map: 64
          ApplyLimit,  \* CH_APPLY_MAX_ARGS: 256
          PendingLimit, \* CH_VM_MAX_PENDING_ARGS, of a call in tail position: 64
          ElemLimit    \* SRFI1_MAX_ELEMS: 4096

ASSUME ListsAssumption ==
    /\ MaxLen \in Nat /\ MaxLen2 \in 0..MaxLen /\ LengthLimit \in Nat
    /\ MapLimit \in Nat /\ ElemLimit \in Nat /\ ApplyLimit \in Nat /\ PendingLimit \in Nat

VARIABLE lists \* the arguments: two lists and a predicate

\* 0 as an element of an association list is an entry that is not a pair; 1
\* and 2 are entries whose key is 1 or 2.
Items == 0..2

\* A chain: its items, and what the last cdr holds: Nil, Atom or a pair.
Nil == 0
Atom == -1
ChainsOf(n) == {[items |-> s, end |-> e] : s \in [1..n -> Items], e \in Atom..n}
Chains(n) == UNION {ChainsOf(i) : i \in 0..n}
Empty == [items |-> <<>>, end |-> Nil]

Preds == [Items -> {"t", "f", "raise"}]

AllTrue == [i \in Items |-> "t"]

\* No call is under way.
NoLists == [idle |-> TRUE]

ListsInit ==
    lists \in [xs : Chains(MaxLen), ys : Chains(MaxLen2), pred : {AllTrue}]
              \cup [xs : Chains(MaxLen), ys : {Empty}, pred : Preds]

-----------------------------------------------------------------------------
(* Pairs and loops                                                            *)

Start(l) == IF l.items = <<>> THEN l.end ELSE 1
IsCons(p) == p > 0
Car(l, p) == l.items[p]
Cdr(l, p) == IF p < Len(l.items) THEN p + 1 ELSE l.end
SubList(l, p) == IF p <= 0 THEN [items |-> <<>>, end |-> p]
              ELSE [items |-> SubSeq(l.items, p, Len(l.items)),
                    end |-> IF l.end >= p THEN l.end - p + 1 ELSE l.end]
ConsOn(x, l) == [items |-> <<x>> \o l.items, end |-> IF l.end > 0 THEN l.end + 1 ELSE l.end]
ListOf(s) == [items |-> s, end |-> Nil]

Val(v) == [st |-> "ok", v |-> v]
ListErr == [st |-> "error"]
Loops == [st |-> "loops"]
\* A write past the end of a C array: undefined, so no answer is promised.
Overrun == [st |-> "overrun"]

\* The C loop while (More(s)) s = Step(s); more turns than there are states of
\* the pointers means that it never ends.
Turns == 4 * MaxLen + 2
Loop(s0, More(_), Step(_)) ==
    FoldLeft(LAMBDA s, i : IF More(s) THEN Step(s) ELSE s, s0, [i \in 1..Turns |-> i])

\* The plain walk of most primitives: acc after each pair, then the last cdr.
Walk(l, acc0, F(_, _)) ==
    Loop([p |-> Start(l), acc |-> acc0],
         LAMBDA s : IsCons(s.p),
         LAMBDA s : [p |-> Cdr(l, s.p), acc |-> F(s.acc, Car(l, s.p))])

\* The same with a callback that may raise: acc.st stops the walk.
CallWalk(l, acc0, F(_, _)) ==
    Loop([p |-> Start(l), acc |-> acc0],
         LAMBDA s : IsCons(s.p) /\ s.acc.st = "go",
         LAMBDA s : [p |-> Cdr(l, s.p), acc |-> F(s.acc, Car(l, s.p))])
Going(v) == [st |-> "go", v |-> v]

\* One more element in the array of the SRFI 1 procedures, if it has room.
FilteredList(a, x) == IF Len(a.v) >= ElemLimit THEN ListErr ELSE Going(Append(a.v, x))

ListEnded(w, Result(_)) == IF IsCons(w.p) THEN Loops ELSE Result(w)

-----------------------------------------------------------------------------
(* prim_list.c                                                                *)

list_length(l) ==
    Loop([p |-> Start(l), n |-> 0],
         LAMBDA s : IsCons(s.p) /\ s.n <= LengthLimit,
         LAMBDA s : [p |-> Cdr(l, s.p), n |-> s.n + 1])

prim_length(l) ==
    LET r == list_length(l)
    IN IF r.n > LengthLimit \/ r.p # Nil THEN ListErr ELSE Val(r.n)

prim_list_p(l) == LET r == list_length(l) IN r.n <= LengthLimit /\ r.p = Nil

prim_append(l, m) ==
    LET rev == Walk(l, <<>>, LAMBDA a, x : <<x>> \o a)
    IN ListEnded(rev, LAMBDA w : IF w.p # Nil THEN ListErr
                             ELSE Val(FoldLeft(LAMBDA r, x : ConsOn(x, r), m, w.acc)))

prim_reverse(l) ==
    ListEnded(Walk(l, Empty, LAMBDA a, x : ConsOn(x, a)),
          LAMBDA w : IF w.p # Nil THEN ListErr ELSE Val(w.acc))

Steps(l, k) == FoldLeft(LAMBDA p, i : IF IsCons(p) THEN Cdr(l, p) ELSE Atom - 1,
                        Start(l), [i \in 1..k |-> i])
Short(p) == p = Atom - 1

prim_list_tail(l, k) == LET p == Steps(l, k) IN IF Short(p) THEN ListErr ELSE Val(SubList(l, p))
prim_list_ref(l, k) == LET p == Steps(l, k) IN IF IsCons(p) THEN Val(Car(l, p)) ELSE ListErr

\* The pair list-set! changes.
prim_list_set(l, k) ==
    LET w == Loop([p |-> Start(l), i |-> 0],
                  LAMBDA s : IsCons(s.p) /\ s.i < k,
                  LAMBDA s : [p |-> Cdr(l, s.p), i |-> s.i + 1])
    IN IF IsCons(w.p) THEN Val(w.p) ELSE ListErr

\* Slip: the tortoise moves with the hare.
Hare_Slow(l, s) == [s EXCEPT !.p = Cdr(l, s.p), !.slow = Cdr(l, @), !.turn = ~@]

\* The hare moves; on every second turn the tortoise follows.
Hare(l, s) == [s EXCEPT !.p = Cdr(l, s.p), !.turn = ~@,
                        !.slow = IF s.turn THEN Cdr(l, @) ELSE @]
Met(s, t) == s.turn /\ IsCons(t.p) /\ t.p = t.slow

\* A walk guarded against cycles, ending where Stop(x) holds of an element.
Guarded(l, acc0, F(_, _), Stop(_)) ==
    Loop([p |-> Start(l), slow |-> Start(l), turn |-> FALSE, acc |-> acc0, st |-> "go"],
         LAMBDA s : IsCons(s.p) /\ s.st = "go",
         LAMBDA s : IF Stop(Car(l, s.p)) THEN [s EXCEPT !.st = "found"]
                    ELSE LET t == Hare(l, s)
                         IN [t EXCEPT !.acc = F(s.acc, Car(l, s.p)),
                                      !.st = IF Met(s, t) THEN "circular" ELSE "go"])

Search(w, Found(_)) ==
    CASE w.st = "circular" -> ListErr
      [] w.st = "found" -> Found(w.p)
      [] w.st = "go" /\ IsCons(w.p) -> Loops
      [] OTHER -> Val(Nil)

prim_list_copy(l) ==
    LET w == Guarded(l, <<>>, LAMBDA a, x : Append(a, x), LAMBDA x : FALSE)
    IN CASE w.st = "circular" -> ListErr
         [] IsCons(w.p) -> Loops
         [] OTHER -> Val([items |-> w.acc, end |-> w.p])

mem_common(l, x) ==
    Search(Guarded(l, 0, LAMBDA a, y : a, LAMBDA y : y = x), LAMBDA p : Val(SubList(l, p)))

ass_common(l, key) ==
    Search(Guarded(l, 0, LAMBDA a, y : a, LAMBDA y : y # 0 /\ y = key), LAMBDA p : Val(p))

prim_make_list(k, x) == FoldLeft(LAMBDA l, i : ConsOn(x, l), Empty, [i \in 1..k |-> i])

\* What the lists, looked at in order, say before a round of callbacks.
Round(ls, ps) ==
    LET stop == {i \in DOMAIN ls : ~IsCons(ps[i])}
    IN IF stop = {} THEN "go"
       ELSE IF ps[CHOOSE i \in stop : \A j \in stop : i <= j] = Nil THEN "done" ELSE "error"

\* Rounds of callbacks over several lists; each round's arguments are recorded.
Rounds2(ls, Check(_, _), limit) ==
    Loop([ps |-> [i \in DOMAIN ls |-> Start(ls[i])], calls |-> <<>>],
         LAMBDA s : Check(ls, s.ps) = "go" /\ Len(s.calls) < limit,
         LAMBDA s : [ps |-> [i \in DOMAIN ls |-> Cdr(ls[i], s.ps[i])],
                     calls |-> Append(s.calls, [i \in DOMAIN ls |-> Car(ls[i], s.ps[i])])])

prim_for_each(ls) ==
    LET r == Rounds2(ls, Round, Turns)
    IN CASE Round(ls, r.ps) = "go" -> Loops
         [] Round(ls, r.ps) = "error" -> ListErr
         [] OTHER -> Val(r.calls)

\* The native map, used until the Scheme one is installed.
prim_map(ls) ==
    LET r == Rounds2(ls, Round, MapLimit)
    IN IF Round(ls, r.ps) = "done" THEN Val(r.calls) ELSE ListErr

\* The Scheme map: results consed up and reversed.
map_src(ls) ==
    LET r == prim_for_each(ls)
    IN IF r.st = "ok"
       THEN prim_reverse(FoldLeft(LAMBDA l, x : ConsOn(x, l), Empty, r.v)) ELSE r

\* The arguments, flattened into an array, stop a circular list.
prim_apply(l, tail) ==
    LET w == CallWalk(l, Going(<<>>), LAMBDA a, x : IF Len(a.v) >= ApplyLimit THEN ListErr
                                                   ELSE Going(Append(a.v, x)))
    IN IF w.acc.st # "go" \/ w.p # Nil THEN ListErr
       ELSE IF tail /\ Len(w.acc.v) > PendingLimit THEN ListErr ELSE Val(w.acc.v)

-----------------------------------------------------------------------------
(* prim_srfi1.c                                                               *)

build_list(s, tail) == FoldRight(LAMBDA x, l : ConsOn(x, l), s, tail)

member_by_pred(x, l) ==
    LET w == Loop([p |-> Start(l), found |-> FALSE],
                  LAMBDA s : IsCons(s.p) /\ ~s.found,
                  LAMBDA s : IF Car(l, s.p) = x THEN [s EXCEPT !.found = TRUE]
                             ELSE [s EXCEPT !.p = Cdr(l, s.p)])
    IN CASE w.found -> Val(TRUE)
         [] IsCons(w.p) -> Loops
         [] OTHER -> IF w.p = Nil THEN Val(FALSE) ELSE ListErr

\* Every element of l is one of m.
Covers(l, m) ==
    LET w == CallWalk(l, Going(TRUE),
               LAMBDA a, x : LET r == member_by_pred(x, m)
                             IN IF r.st # "ok" THEN r
                                ELSE IF r.v THEN a ELSE Val(FALSE))
    IN CASE w.acc.st # "go" -> w.acc
         [] IsCons(w.p) -> Loops
         [] OTHER -> IF w.p = Nil THEN Val(TRUE) ELSE ListErr

prim_lset_eq(l, m) ==
    LET r == Covers(l, m) IN IF r # Val(TRUE) THEN r ELSE Covers(m, l)

prim_iota(k, start, step) ==
    IF k > ElemLimit THEN ListErr
    ELSE Val(build_list([i \in 1..k |-> start + (i - 1) * step], Empty))

nth_elem(l, k) == prim_list_ref(l, k)

\* Fast and slow pointers; the list is circular when they meet.
prim_proper_list_p(l) ==
    LET w == Loop([fast |-> Start(l), slow |-> Start(l), met |-> FALSE],
                  LAMBDA s : IsCons(s.fast) /\ ~s.met,
                  LAMBDA s : LET f == Cdr(l, s.fast)
                             IN IF ~IsCons(f) THEN [s EXCEPT !.fast = f, !.slow = f]
                                ELSE [fast |-> Cdr(l, f), slow |-> Cdr(l, s.slow),
                                      met |-> Cdr(l, s.slow) = Cdr(l, f)])
    IN ~w.met /\ IF IsCons(w.fast) THEN FALSE ELSE w.slow = Nil

prim_dotted_list_p(l) ==
    IF Start(l) = Nil THEN Val(FALSE)
    ELSE ListEnded(Walk(l, 0, LAMBDA a, x : a), LAMBDA w : Val(w.p # Nil))

prim_cons_star(s, tail) == build_list(s, tail)

\* No bound on the array: the element after its last one is written as soon
\* as the list has it, before a list too short for k is noticed.
prim_take(l, k) ==
    IF k > ElemLimit /\ ~Short(Steps(l, ElemLimit + 1)) THEN Overrun
    ELSE IF Short(Steps(l, k)) THEN ListErr
    ELSE Val(build_list([i \in 1..k |-> Car(l, Steps(l, i - 1))], Empty))

prim_drop(l, k) == prim_list_tail(l, k)

\* The lead pointer starts k pairs ahead of the lag pointer.
LeadLag(l, k) ==
    Loop([lead |-> Steps(l, k), lag |-> Start(l), items |-> <<>>],
         LAMBDA s : IsCons(s.lead),
         LAMBDA s : [lead |-> Cdr(l, s.lead), lag |-> Cdr(l, s.lag),
                     items |-> Append(s.items, Car(l, s.lag))])

prim_take_right(l, k) ==
    IF Short(Steps(l, k)) THEN ListErr
    ELSE LET w == LeadLag(l, k) IN IF IsCons(w.lead) THEN Loops ELSE Val(SubList(l, w.lag))

prim_drop_right(l, k) ==
    IF Short(Steps(l, k)) THEN ListErr
    ELSE LET w == LeadLag(l, k)
         IN IF Len(w.items) > ElemLimit THEN ListErr ELSE Val(build_list(w.items, Empty))

\* The folds and any, every stop at the first list that is not a pair,
\* whatever it ends with.  The accumulator conses the arguments.
Pairs(ls, ps) == IF \E i \in DOMAIN ls : ~IsCons(ps[i]) THEN "done" ELSE "go"

prim_fold(ls) ==
    LET r == Rounds2(ls, Pairs, Turns)
    IN IF Pairs(ls, r.ps) = "go" THEN Loops
       ELSE Val(FoldLeft(LAMBDA acc, c : <<c>> \o acc, <<>>, r.calls))

\* The rows are gathered first and folded from the last.
prim_fold_right(ls) ==
    LET r == Rounds2(ls, Pairs, Turns)
    IN IF Pairs(ls, r.ps) = "go" THEN Loops
       ELSE Val(FoldRight(LAMBDA c, acc : <<c>> \o acc, r.calls, <<>>))

Filtered(l, pred, keep) ==
    LET w == CallWalk(l, Going(<<>>),
               LAMBDA a, x : CASE pred[x] = "raise" -> ListErr
                               [] pred[x] = keep -> FilteredList(a, x)
                               [] OTHER -> a)
    IN CASE w.acc.st # "go" -> ListErr
         [] IsCons(w.p) -> Loops
         [] OTHER -> IF w.p = Nil THEN Val(build_list(w.acc.v, Empty)) ELSE ListErr

prim_filter(l, pred) == Filtered(l, pred, "t")
prim_remove(l, pred) == Filtered(l, pred, "f")

\* The first element whose callback does not answer no; or none.
FirstCall(l, pred, no) ==
    LET w == CallWalk(l, Going(0),
               LAMBDA a, x : CASE pred[x] = "raise" -> ListErr
                               [] pred[x] = no -> a
                               [] OTHER -> Val(x))
    IN CASE w.acc.st # "go" -> w.acc
         [] IsCons(w.p) -> Loops
         [] OTHER -> [st |-> "none"]

prim_find(l, pred) == FirstCall(l, pred, "f")
prim_any(l, pred) == FirstCall(l, pred, "f").st
prim_every(l, pred) == LET s == FirstCall(l, pred, "t").st
                       IN CASE s = "none" -> "ok" [] s = "ok" -> "none" [] OTHER -> s

prim_list_tabulate(k, F(_)) ==
    IF k > ElemLimit THEN ListErr ELSE Val(build_list([i \in 1..k |-> F(i - 1)], Empty))

prim_length_plus(l) == ListEnded(Walk(l, 0, LAMBDA n, x : n + 1), LAMBDA w : Val(w.acc))

\* unfold with stop at, map and successor on numbers; a full array ends it.
prim_unfold(seed, stop) ==
    LET w == Loop([x |-> seed, items |-> <<>>],
                  LAMBDA s : s.x # stop /\ Len(s.items) < ElemLimit,
                  LAMBDA s : [x |-> s.x + 1, items |-> Append(s.items, s.x)])
    IN build_list(w.items, Empty)

\* delete takes any chain; alist-delete wants pairs.
Deleted(l, F(_, _)) ==
    LET w == CallWalk(l, Going(<<>>), F)
    IN IF w.acc.st # "go" THEN ListErr
       ELSE ListEnded(w, LAMBDA u : Val(build_list(u.acc.v, Empty)))

prim_delete(l, x) == Deleted(l, LAMBDA a, y : IF y = x THEN a ELSE FilteredList(a, y))

prim_alist_delete(l, key) ==
    Deleted(l, LAMBDA a, y : IF y = 0 THEN ListErr ELSE IF y = key THEN a ELSE FilteredList(a, y))

prim_lset_adjoin(l, s) ==
    FoldLeft(LAMBDA r, x : IF r.st # "ok" THEN r
                           ELSE LET f == member_by_pred(x, r.v)
                                IN IF f.st # "ok" THEN f
                                   ELSE IF f.v THEN r ELSE Val(ConsOn(x, r.v)),
             Val(l), s)

prim_lset_union(l, m) ==
    LET w == CallWalk(m, Going(l),
               LAMBDA a, x : LET r == prim_lset_adjoin(a.v, <<x>>)
                             IN IF r.st = "ok" THEN Going(r.v) ELSE r)
    IN IF w.acc.st # "go" THEN w.acc ELSE ListEnded(w, LAMBDA u : Val(u.acc.v))

prim_append_reverse(l, m) ==
    ListEnded(Walk(l, m, LAMBDA a, x : ConsOn(x, a)), LAMBDA w : Val(w.acc))

-----------------------------------------------------------------------------
(* What the primitives promise.  The SRFI 1 procedures keep their elements    *)
(* in an array of ElemLimit: the promises are those of the lists that fit,    *)
(* and what each procedure does past them is said beside.                     *)

Proper(l) == l.end = Nil
Circular(l) == l.end > 0
Distinct(s) == Len(s) = Cardinality(Range(s))

\* The i-th element of a chain, cycles followed.
Nth(l, i) == LET n == Len(l.items) IN
    IF i <= n THEN l.items[i] ELSE l.items[l.end + ((i - l.end) % (n - l.end + 1))]
Has(l, i) == Circular(l) \/ i <= Len(l.items)

\* What an array of ElemLimit can give back.
WithinLimit(s) == IF Len(s) > ElemLimit THEN ListErr ELSE Val(ListOf(s))

\* Known divergence of proper-list?: on a proper list of two, four, ...
\* elements the hare falls off the end and the code looks at the tortoise, so
\* that the list is called improper.
HareFallsOff(l) == Proper(l) /\ l.items # <<>> /\ Len(l.items) % 2 = 0

\* No loop of a primitive that guards against cycles runs for ever: list?,
\* length, proper-list?, apply, list-copy, member and assoc answer on every
\* chain, and call exactly the circular ones circular, unless they find the
\* element; apply stops at the room it has for arguments.
GuardedTerminate ==
    LET l == lists.xs IN
    /\ prim_list_p(l) = Proper(l)
    /\ HareFallsOff(l) \/ prim_proper_list_p(l) = Proper(l)
    /\ prim_length(l) = IF Proper(l) THEN Val(Len(l.items)) ELSE ListErr
    /\ \A tail \in BOOLEAN : prim_apply(l, tail) =
         IF Proper(l) /\ Len(l.items) <= ApplyLimit /\ (tail => Len(l.items) <= PendingLimit)
         THEN Val(l.items) ELSE ListErr
    /\ prim_list_copy(l) = IF Circular(l) THEN ListErr ELSE Val(l)
    /\ \A x \in Items :
         /\ mem_common(l, x) =
              IF x \in Range(l.items) THEN Val(SubList(l, CHOOSE i \in DOMAIN l.items :
                    l.items[i] = x /\ \A j \in 1..(i - 1) : l.items[j] # x))
              ELSE IF Circular(l) THEN ListErr ELSE Val(Nil)
         /\ ass_common(l, x).st = IF x \notin Range(l.items) \ {0} /\ Circular(l)
                                  THEN "error" ELSE "ok"

\* Known divergence of take: past its array, which it does not check.
TakeOverruns(l, k) == k > ElemLimit /\ Has(l, ElemLimit + 1)

\* Slices by index: take and drop split a list, from the left on any chain and
\* from the right on any finite one, and the pieces append to the whole.
SlicesSplit ==
    LET l == lists.xs IN \A k \in 0..(MaxLen + 1) :
    /\ prim_take(l, k).st = CASE TakeOverruns(l, k) -> "overrun"
                               [] Has(l, k) \/ k = 0 -> "ok"
                               [] OTHER -> "error"
    /\ prim_take(l, k).st = "ok" =>
         /\ prim_take(l, k).v = ListOf([i \in 1..k |-> Nth(l, i)])
         /\ ~Circular(l) => prim_append(prim_take(l, k).v, prim_drop(l, k).v) = Val(l)
    /\ prim_list_ref(l, k) = IF Has(l, k + 1) THEN Val(Nth(l, k + 1)) ELSE ListErr
    /\ prim_list_set(l, k).st = prim_list_ref(l, k).st
    /\ ~Circular(l) =>
         /\ prim_take_right(l, k).st = IF k <= Len(l.items) THEN "ok" ELSE "error"
         /\ prim_drop_right(l, k).st =
              IF Len(l.items) - k \in 0..ElemLimit THEN "ok" ELSE "error"
         /\ prim_drop_right(l, k).st = "ok" =>
              prim_append(prim_drop_right(l, k).v, prim_take_right(l, k).v) = Val(l)

\* The builders give the same k numbers, as far as the array goes: past it two
\* refuse, and unfold ends before its seed says stop.
BuildersAgree == \A k \in 0..(MaxLen + 1) :
    LET first(n) == ListOf([i \in 1..n |-> i - 1])
    IN /\ prim_iota(k, 0, 1) = IF k <= ElemLimit THEN Val(first(k)) ELSE ListErr
       /\ prim_list_tabulate(k, LAMBDA i : i) = prim_iota(k, 0, 1)
       /\ prim_unfold(0, k) = first(IF k <= ElemLimit THEN k ELSE ElemLimit)

\* Filters, searches and deletions: what they keep, that a callback that raises
\* ends them, and that a circular list ends a deletion only by filling its
\* array, so that nothing does when the ring has nothing to keep.
CallsDecide ==
    LET l == lists.xs  p == lists.pred
        raises == \E x \in Range(l.items) : p[x] = "raise"
    IN /\ Proper(l) =>
            /\ prim_filter(l, p) = IF raises THEN ListErr
                 ELSE WithinLimit(SelectSeq(l.items, LAMBDA x : p[x] = "t"))
            /\ ~raises => prim_remove(l, p) =
                 WithinLimit(SelectSeq(l.items, LAMBDA x : p[x] # "t"))
            /\ prim_every(l, p) = "ok" <=> \A x \in Range(l.items) : p[x] = "t"
            /\ prim_any(l, p) = "none" <=> \A x \in Range(l.items) : p[x] = "f"
       /\ prim_find(l, p).st = "ok" => prim_find(l, p).v \in Range(l.items)
                                       /\ p[prim_find(l, p).v] = "t"
       /\ \A x \in Items :
            LET rest == SelectSeq(l.items, LAMBDA y : y # x)
                ring == {l.items[i] : i \in (IF Circular(l) THEN l.end ELSE 1)..Len(l.items)}
            IN /\ prim_delete(l, x) = CASE ~Circular(l) -> WithinLimit(rest)
                                         [] ring = {x} /\ Len(rest) <= ElemLimit -> Loops
                                         [] OTHER -> ListErr
               /\ ~Circular(l) => prim_alist_delete(l, x) =
                    IF 0 \in Range(l.items) THEN ListErr ELSE WithinLimit(rest)

\* Two lists at once: the shortest ends the rounds, for-each and map stop at
\* the same calls, the folds see them in opposite orders; set operations agree
\* with sets and add no duplicate.
TwoLists ==
    LET l == lists.xs  m == lists.ys
        n == IF Circular(l) THEN Len(m.items) ELSE IF Circular(m) THEN Len(l.items)
             ELSE IF Len(l.items) < Len(m.items) THEN Len(l.items) ELSE Len(m.items)
        rows == [i \in 1..n |-> <<Nth(l, i), Nth(m, i)>>]
        both == Circular(l) /\ Circular(m)
    IN /\ prim_fold_right(<<l, m>>) = IF both THEN Loops ELSE Val(rows)
       /\ prim_fold(<<l, m>>) = IF both THEN Loops ELSE Val(Reverse(rows))
       /\ Proper(l) /\ Proper(m) =>
            /\ prim_for_each(<<l, m>>) = Val(rows)
            /\ map_src(<<l, m>>) = Val(ListOf(rows))
            /\ n <= MapLimit => prim_map(<<l, m>>) = Val(rows)
            /\ prim_lset_eq(l, m) = Val(Range(l.items) = Range(m.items))
            /\ Range(prim_lset_union(l, m).v.items) = Range(l.items) \cup Range(m.items)
            /\ Distinct(l.items) => Distinct(prim_lset_union(l, m).v.items)
            /\ prim_append_reverse(prim_reverse(l).v, m) = prim_append(l, m)

\* The list primitives keep their promises on every chain of pairs, proper,
\* dotted or circular.
ListsKeepPromises == lists # NoLists =>
    /\ lists.ys = Empty => CallsDecide
    /\ lists.pred = AllTrue => TwoLists
    /\ lists.ys = Empty /\ lists.pred = AllTrue => GuardedTerminate /\ SlicesSplit /\ BuildersAgree
=============================================================================
