------------------------------ MODULE Vectors ------------------------------
(* Vectors and bytevectors (src/src/prim_vector.c, src/src/prim_bytevector.c, *)
(* src/src/prim_srfi133.c).  A vector is a sequence; indices count from 0 as  *)
(* in the code.  A primitive that mutates its argument gives the new contents *)
(* of it, a callback is a function from elements to "t", "f" or "raise".      *)
EXTENDS Integers, Sequences, SequencesExt

CONSTANTS MaxVec,    \* bound: elements of the first vector
          MaxVec2,   \* bound: elements of the second
          VecLimit,  \* longest vector make-vector makes: 1000000
          VecArgs,   \* vectors of the native map, seeds of an unfold: 64
          BangArgs,  \* vectors of vector-map!: 16
          ByteLimit  \* largest byte: 255

ASSUME VectorsAssumption ==
    /\ MaxVec \in Nat /\ MaxVec2 \in 0..MaxVec /\ VecLimit \in Nat
    /\ VecArgs \in Nat /\ BangArgs \in Nat /\ ByteLimit \in Nat

VARIABLE vecs \* the arguments: two vectors, a predicate, whether the first is a literal

VElems == 1..3
Vecs(n) == UNION {[1..k -> VElems] : k \in 0..n}
VOnes == [x \in VElems |-> IF x = 1 THEN "t" ELSE "f"]
\* No call is under way.
NoVectors == [idle |-> TRUE]

VectorsInit ==
    vecs \in [v : Vecs(MaxVec), w : Vecs(MaxVec2), pred : {VOnes}, immutable : BOOLEAN]
             \cup [v : Vecs(MaxVec), w : {<<>>}, pred : [VElems -> {"t", "f", "raise"}],
                   immutable : {FALSE}]

VOk(x) == [st |-> "ok", v |-> x]
VErr == [st |-> "error"]

VAt(v, i) == v[i + 1]
VPut(v, i, x) == [v EXCEPT ![i + 1] = x]
VSlice(v, start, end) == SubSeq(v, start + 1, end)

-----------------------------------------------------------------------------
(* prim_vector.c                                                              *)

ch_parse_optional_range(start, end, len) == start >= 0 /\ start <= end /\ end <= len

VRanged(v, start, end, R(_)) ==
    IF ch_parse_optional_range(start, end, Len(v)) THEN VOk(R(v)) ELSE VErr
VMutable(immutable, r) == IF immutable THEN VErr ELSE r

prim_vector_ref(v, i) == IF i < 0 \/ i >= Len(v) THEN VErr ELSE VOk(VAt(v, i))

prim_vector_set(v, i, x, immutable) ==
    VMutable(immutable, IF i < 0 \/ i >= Len(v) THEN VErr ELSE VOk(VPut(v, i, x)))

prim_vector_fill(v, x, start, end, immutable) ==
    VMutable(immutable, VRanged(v, start, end,
        LAMBDA u : [i \in DOMAIN u |-> IF i > start /\ i <= end THEN x ELSE u[i]]))

prim_vector_copy(v, start, end) == VRanged(v, start, end, LAMBDA u : VSlice(u, start, end))
prim_vector_append(us) == FoldLeft(LAMBDA a, u : a \o u, <<>>, us)
prim_make_vector(n, x) == IF n < 0 \/ n > VecLimit THEN VErr ELSE VOk([i \in 1..n |-> x])

\* Both directions build from one end: the list from its tail.
prim_vector_to_list(v, start, end) ==
    VRanged(v, start, end, LAMBDA u : FoldRight(LAMBDA x, l : <<x>> \o l,
                                                VSlice(u, start, end), <<>>))
prim_list_to_vector(l) == FoldLeft(LAMBDA v, x : Append(v, x), <<>>, l)
prim_vector(args) == FoldLeft(LAMBDA v, i : VPut(v, i - 1, args[i]),
                              [i \in DOMAIN args |-> 0], [i \in DOMAIN args |-> i])

\* Slip: always from the front.
Descends_Never(same, at, start) == FALSE

\* Which end an overlapping copy starts from.
Descends(same, at, start) == same /\ at > start

\* to and from are one vector when same: each step reads what the others wrote.
prim_vector_copy_bang(to, at, from, start, end, same, immutable) ==
    LET n == end - start
        order == IF Descends(same, at, start) THEN [i \in 1..n |-> n - i]
                                              ELSE [i \in 1..n |-> i - 1]
    IN VMutable(immutable,
        IF at < 0 \/ ~ch_parse_optional_range(start, end, Len(from))
           \/ at + n > Len(to) THEN VErr
        ELSE VOk(FoldLeft(LAMBDA u, i : VPut(u, at + i, VAt(IF same THEN u ELSE from, start + i)),
                          to, order)))

\* The rounds of vector-map and vector-for-each, to the shortest vector.
shortest(us) == CHOOSE n \in {Len(us[i]) : i \in DOMAIN us} : \A i \in DOMAIN us : n <= Len(us[i])
call_args(us, i) == [j \in DOMAIN us |-> VAt(us[j], i)]

\* One round: the callback gives its arguments back or raises.
VRound(s, args, i, p) ==
    IF s.st # "ok" THEN s
    ELSE IF p[args[1]] = "raise" THEN [s EXCEPT !.st = "error", !.calls = Append(@, args)]
    ELSE [s EXCEPT !.v = VPut(@, i, args), !.calls = Append(@, args)]
VRounds(us, p, v0, n) ==
    FoldLeft(LAMBDA s, i : VRound(s, call_args(us, i - 1), i - 1, p),
             [st |-> "ok", v |-> v0, calls |-> <<>>], [i \in 1..n |-> i])
VRefused == [st |-> "error", v |-> <<>>, calls |-> <<>>]

prim_vector_map(us, p) ==
    IF Len(us) > VecArgs THEN VRefused
    ELSE VRounds(us, p, [i \in 1..shortest(us) |-> 0], shortest(us))
prim_vector_for_each(us, p) == prim_vector_map(us, p).calls

\* The definitions in Scheme that replace the two at start-up.  Any number of
\* vectors will do, but the result is made by make-vector.
min_len(v, more) == FoldLeft(LAMBDA m, u : IF Len(u) < m THEN Len(u) ELSE m, Len(v), more)
vector_map_src(us, p) ==
    LET result == prim_make_vector(min_len(us[1], Tail(us)), 0)
    IN IF result.st # "ok" THEN VRefused ELSE VRounds(us, p, result.v, Len(result.v))
vector_for_each_src(us, p) ==
    LET n == min_len(us[1], Tail(us)) IN VRounds(us, p, [i \in 1..n |-> 0], n).calls

-----------------------------------------------------------------------------
(* prim_bytevector.c: elements above ByteLimit are not bytes.                 *)

parse_u8(x) == x >= 0 /\ x <= ByteLimit
Bytes(v) == \A i \in DOMAIN v : parse_u8(v[i])

prim_bytevector(args) == IF Bytes(args) THEN VOk(prim_vector(args)) ELSE VErr
prim_make_bytevector(n, x) == IF n >= 0 /\ parse_u8(x) THEN VOk([i \in 1..n |-> x]) ELSE VErr
prim_bytevector_u8_ref(b, i) == prim_vector_ref(b, i)
prim_bytevector_u8_set(b, i, x, immutable) ==
    VMutable(immutable, IF i < 0 \/ i >= Len(b) \/ ~parse_u8(x) THEN VErr ELSE VOk(VPut(b, i, x)))
prim_bytevector_copy(b, start, end) == VRanged(b, start, end, LAMBDA u : VSlice(u, start, end))

\* memmove: as if the source bytes were set aside first.
prim_bytevector_copy_bang(to, at, from, start, end, immutable) ==
    VMutable(immutable,
        IF at < 0 \/ ~ch_parse_optional_range(start, end, Len(from)) \/ at > Len(to)
           \/ end - start > Len(to) - at THEN VErr
        ELSE VOk([i \in DOMAIN to |-> IF i > at /\ i <= at + (end - start)
                                      THEN from[start + (i - at)] ELSE to[i]]))

prim_bytevector_append(bs) == prim_vector_append(bs)

\* One pass checks, the next one stores.
prim_list_to_bytevector(l, proper) ==
    IF Bytes(l) /\ proper THEN VOk(prim_list_to_vector(l)) ELSE VErr
prim_bytevector_to_list(b, start, end) == prim_vector_to_list(b, start, end)

-----------------------------------------------------------------------------
(* prim_srfi133.c                                                             *)

None == -1

\* A scan that calls the predicate on each element until Stop says so; the
\* scan ends with an error when the callback raises.
VScan(v, p, start, end, acc0, F(_, _, _), Stop(_)) ==
    FoldLeft(LAMBDA s, i :
               IF s.st # "ok" \/ Stop(s.v) THEN s
               ELSE IF p[VAt(v, i)] = "raise" THEN VErr
               ELSE VOk(F(s.v, i, p[VAt(v, i)] = "t")),
             VOk(acc0), [i \in 1..(end - start) |-> start + i - 1])

VPredicated(v, start, end, r) ==
    IF ch_parse_optional_range(start, end, Len(v)) THEN r ELSE VErr

prim_vector_index(v, p, start, end) ==
    VPredicated(v, start, end, VScan(v, p, start, end, None,
        LAMBDA a, i, m : IF m THEN i ELSE a, LAMBDA a : a # None))

\* A forward scan that remembers the last match.
prim_vector_index_right(v, p, start, end) ==
    VPredicated(v, start, end, VScan(v, p, start, end, None,
        LAMBDA a, i, m : IF m THEN i ELSE a, LAMBDA a : FALSE))

prim_vector_skip(v, p, start, end) ==
    VPredicated(v, start, end, VScan(v, p, start, end, None,
        LAMBDA a, i, m : IF m THEN a ELSE i, LAMBDA a : a # None))

\* vector-skip-right looks for the last match, not for the last that does not.
prim_vector_skip_right(v, p, start, end) == prim_vector_index_right(v, p, start, end)

prim_vector_count(v, p, start, end) ==
    VPredicated(v, start, end, VScan(v, p, start, end, 0,
        LAMBDA a, i, m : IF m THEN a + 1 ELSE a, LAMBDA a : FALSE))

\* Folds: an accumulator is the sequence of the elements it has met.
prim_vector_cumulate(v) ==
    FoldLeft(LAMBDA s, x : [acc |-> Append(s.acc, x), out |-> Append(s.out, Append(s.acc, x))],
             [acc |-> <<>>, out |-> <<>>], v).out
prim_vector_fold(v, start, end) ==
    VRanged(v, start, end, LAMBDA u : FoldLeft(LAMBDA a, x : Append(a, x), <<>>,
                                               VSlice(u, start, end)))
prim_vector_fold_right(v, start, end) ==
    VRanged(v, start, end, LAMBDA u : FoldRight(LAMBDA x, a : Append(a, x),
                                                VSlice(u, start, end), <<>>))

vswap(v, i, j) == VPut(VPut(v, i, VAt(v, j)), j, VAt(v, i))

\* lo and hi meet in the middle.
prim_vector_reverse_bang(v, start, end, immutable) ==
    VMutable(immutable, VRanged(v, start, end, LAMBDA u :
        FoldLeft(LAMBDA s, i : vswap(s, start + i - 1, end - i), u,
                 [i \in 1..((end - start) \div 2) |-> i])))

prim_vector_swap_bang(v, i, j, immutable) ==
    VMutable(immutable, IF i < 0 \/ j < 0 \/ i >= Len(v) \/ j >= Len(v) THEN VErr
                        ELSE VOk(vswap(v, i, j)))

prim_vector_reverse_copy(v, start, end) ==
    VRanged(v, start, end, LAMBDA u : [i \in 1..(end - start) |-> VAt(u, end - i)])

\* The step gives an element and the next seeds, or raises; here an element is
\* its index and the seed, a seed counts the calls, and call fail raises.
\* roots is what the call leaves on the root stack: every round pushes, either
\* end pops one round's worth.
apply_unfold_step(i, seed) == [elem |-> <<i, seed>>, seed |-> seed + 1]
Unfold(n, order, seeds, fail) ==
    LET end == FoldLeft(LAMBDA s, i :
                  LET step == apply_unfold_step(i, s.seed)
                  IN IF s.st # "ok" THEN s
                     ELSE IF s.seed = fail THEN [s EXCEPT !.st = "error"]
                     ELSE [st |-> "ok", out |-> VPut(s.out, i, step.elem), seed |-> step.seed,
                           roots |-> s.roots + 1 + seeds],
                  [st |-> "ok", out |-> [i \in 1..n |-> 0], seed |-> 0, roots |-> 1 + seeds],
                  order)
    IN IF seeds > VecArgs THEN [st |-> "error", out |-> <<>>, roots |-> 0]
       ELSE [st |-> end.st, out |-> end.out, roots |-> end.roots - (1 + seeds)]
prim_vector_unfold(n, seeds, fail) == Unfold(n, [i \in 1..n |-> i - 1], seeds, fail)
prim_vector_unfold_right(n, seeds, fail) == Unfold(n, [i \in 1..n |-> n - i], seeds, fail)

prim_vector_partition(v, p) ==
    LET s == VScan(v, p, 0, Len(v), [yes |-> <<>>, no |-> <<>>],
                   LAMBDA a, i, m : IF m THEN [a EXCEPT !.yes = Append(@, VAt(v, i))]
                                    ELSE [a EXCEPT !.no = Append(@, VAt(v, i))],
                   LAMBDA a : FALSE)
    IN IF s.st = "ok" THEN VOk([out |-> s.v.yes \o s.v.no, count |-> Len(s.v.yes)]) ELSE VErr

\* In place: a round that raises leaves the rounds before it in the vector.
prim_vector_map_bang(us, p, immutable) ==
    VMutable(immutable, IF Len(us) > BangArgs THEN VErr
                        ELSE VRounds(us, p, us[1], min_len(us[1], Tail(us))))

-----------------------------------------------------------------------------
(* Properties                                                                 *)

VIndices == 0..(MaxVec + 1)

\* Every copy moves the block as a whole: inside one vector, whatever the
\* overlap, vector-copy! ends as bytevector-copy!'s memmove does, and touches
\* nothing outside the block; an index out of range changes nothing.
CopiesMoveBlocks ==
    LET v == vecs.v  w == vecs.w IN \A at, s, e \in VIndices :
    /\ prim_vector_copy_bang(v, at, v, s, e, TRUE, vecs.immutable)
         = prim_bytevector_copy_bang(v, at, v, s, e, vecs.immutable)
    /\ prim_vector_copy_bang(v, at, w, s, e, FALSE, vecs.immutable)
         = prim_bytevector_copy_bang(v, at, w, s, e, vecs.immutable)
    /\ prim_vector_copy(v, s, e).st = "ok" /\ ~vecs.immutable /\ s <= Len(v) =>
         /\ prim_vector_copy_bang(v, s, prim_vector_copy(v, s, e).v, 0, e - s, FALSE, FALSE)
              = VOk(v)
         /\ prim_vector_reverse_bang(v, s, e, FALSE) =
              VOk(prim_vector_append(<<prim_vector_copy(v, 0, s).v,
                                       prim_vector_reverse_copy(v, s, e).v,
                                       prim_vector_copy(v, e, Len(v)).v>>))
         /\ prim_vector_fold(v, s, e) = prim_vector_to_list(v, s, e)
         /\ prim_vector_fold_right(v, s, e) = prim_vector_reverse_copy(v, s, e)
         /\ at \in s..(e - 1) => prim_vector_ref(prim_vector_copy(v, s, e).v, at - s)
                                   = prim_vector_ref(v, at)
    /\ at < Len(v) /\ s < Len(v) =>
         LET r == prim_vector_swap_bang(v, at, s, vecs.immutable) IN
         IF vecs.immutable THEN r = VErr
         ELSE prim_vector_swap_bang(r.v, at, s, FALSE) = VOk(v)

\* Known divergence of vector-skip-right: it looks for the last match, so it
\* keeps its promise only where there is nothing to find.
SkipsTheWrongWay(in) == in # {}

\* Searches agree with the set of matching positions, stop at the first one
\* and pass a raise on; a partition keeps every element and its order.
SearchesFind ==
    LET v == vecs.v  p == vecs.pred IN \A s, e \in VIndices :
    LET in == {i \in s..(e - 1) : i < Len(v)}
        hits == {i \in in : p[VAt(v, i)] = "t"}  misses == {i \in in : p[VAt(v, i)] = "f"}
        raises == in \ (hits \cup misses)
        least(S) == CHOOSE i \in S : \A j \in S : i <= j
    IN s <= e /\ e <= Len(v) =>
       /\ prim_vector_index(v, p, s, e) =
            IF hits = {} /\ raises = {} THEN VOk(None)
            ELSE IF least(hits \cup raises) \in hits THEN VOk(least(hits)) ELSE VErr
       /\ prim_vector_skip(v, p, s, e) =
            IF misses = {} /\ raises = {} THEN VOk(None)
            ELSE IF least(misses \cup raises) \in misses THEN VOk(least(misses)) ELSE VErr
       /\ raises = {} =>
            /\ prim_vector_index_right(v, p, s, e).v =
                 IF hits = {} THEN None ELSE CHOOSE i \in hits : \A j \in hits : j <= i
            /\ SkipsTheWrongWay(in) \/ prim_vector_skip_right(v, p, s, e) = VOk(None)
            /\ prim_vector_count(v, p, s, e).v = Len(SelectSeq(VSlice(v, s, e), LAMBDA x : p[x] = "t"))
            /\ s = 0 /\ e = Len(v) =>
                 prim_vector_partition(v, p) =
                    VOk([out |-> SelectSeq(v, LAMBDA x : p[x] = "t")
                                 \o SelectSeq(v, LAMBDA x : p[x] # "t"),
                         count |-> prim_vector_count(v, p, s, e).v])

\* The rounds of the maps: each vector-map calls with the rows of its vectors
\* until one raises.  The native one and the one in Scheme differ only where
\* one of them refuses to start: the first given more than VecArgs vectors, the
\* second when the result is longer than make-vector allows.  vector-map! puts
\* the rounds before the one that raised into its vector.
MapsAgree ==
    LET v == vecs.v  w == vecs.w  p == vecs.pred
    IN \A us \in {<<v>>, <<v, w>>, <<v, v>>, <<v, w, v>>, <<w, v, w, v>>} :
       LET n == shortest(us)
           rows == [i \in 1..n |-> [j \in DOMAIN us |-> us[j][i]]]
           raising == {i \in 1..n : p[us[1][i]] = "raise"}
           last == IF raising = {} THEN n ELSE CHOOSE i \in raising : \A j \in raising : i <= j
           done == IF raising = {} THEN n ELSE last - 1
           native == prim_vector_map(us, p)  scheme == vector_map_src(us, p)
           bang == prim_vector_map_bang(us, p, vecs.immutable)
       IN /\ \/ native = scheme
             \/ native = VRefused /\ Len(us) > VecArgs
             \/ scheme = VRefused /\ n > VecLimit
          /\ Len(us) <= VecArgs => prim_vector_for_each(us, p) = SubSeq(rows, 1, last)
          /\ native.st = "ok" => native.v = rows /\ raising = {}
          /\ vector_for_each_src(us, p) = SubSeq(rows, 1, last)
          /\ Len(us) <= BangArgs /\ ~vecs.immutable =>
               /\ bang.v = SubSeq(rows, 1, done) \o SubSeq(us[1], done + 1, Len(us[1]))
               /\ bang.st = IF raising = {} THEN "ok" ELSE "error"

\* Known divergence of the unfolds: each round's roots but one are left on the
\* root stack, as addresses of variables of a call that is over.
RootsLeft(rounds, seeds) == rounds * (1 + seeds)

\* The two unfolds give each place its element, in opposite orders of calls,
\* until one raises; but for what the rounds leave, the root stack is as before.
UnfoldsFill ==
    \A n \in 0..MaxVec, seeds \in 0..(VecArgs + 1), fail \in 0..(MaxVec + 1) :
    LET up == prim_vector_unfold(n, seeds, fail)
        down == prim_vector_unfold_right(n, seeds, fail)
        rounds == IF seeds > VecArgs THEN 0 ELSE IF fail < n THEN fail ELSE n
    IN /\ up.st = IF seeds <= VecArgs /\ fail >= n THEN "ok" ELSE "error"
       /\ down.st = up.st
       /\ up.roots = RootsLeft(rounds, seeds) /\ down.roots = up.roots
       /\ up.st = "ok" => \A i \in 1..n : up.out[i] = <<i - 1, i - 1>>
                                        /\ down.out[i] = <<i - 1, n - i>>

\* The vector primitives keep their promises: blocks move whole, searches
\* agree with sets, the maps make the same calls within their limits, the two
\* unfolds fill the same places, lists and vectors convert back.
VectorsKeepPromises == vecs # NoVectors =>
    LET v == vecs.v  w == vecs.w IN
    /\ vecs.pred = VOnes => CopiesMoveBlocks
    /\ w = <<>> /\ ~vecs.immutable => SearchesFind
    /\ MapsAgree
    /\ v = <<>> /\ w = <<>> => UnfoldsFill
    /\ prim_vector_cumulate(v) = [i \in DOMAIN v |-> prim_vector_fold(v, 0, i).v]
    /\ prim_list_to_vector(prim_vector_to_list(v, 0, Len(v)).v) = prim_vector(v)
    /\ Bytes(v) => prim_list_to_bytevector(prim_bytevector_to_list(v, 0, Len(v)).v, TRUE)
                     = prim_bytevector(v)
=============================================================================
