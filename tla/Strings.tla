------------------------------ MODULE Strings ------------------------------
(* The string primitives (src/src/prim_string.c, src/src/prim_srfi13.c,       *)
(* src/src/prim_utf8.c).  A string is its UTF-8 bytes, every index the        *)
(* programs use counts code points, and each primitive converts between the   *)
(* two.  Four characters stand for all: one to three bytes wide, cased and    *)
(* not, with case mappings that change the width.                             *)
EXTENDS Integers, Sequences, SequencesExt

CONSTANTS MaxChars,  \* bound: characters of the first string
          MaxChars2, \* bound: characters of the second
          SplitLimit \* parts of string-split: 512

ASSUME StringsAssumption ==
    MaxChars \in Nat /\ MaxChars2 \in 0..MaxChars /\ SplitLimit \in Nat

VARIABLE strs \* the arguments: two texts and a predicate on characters

\* 1 is white space; 2, 3 and 4 are letters: 3 is the upper case of 2; 4 is
\* what 3 becomes at the end of a word, and two characters in upper case.
Chars == 1..4
Cased == {2, 3, 4}
Space == 1

Texts(n) == UNION {[1..k -> Chars] : k \in 0..n}
\* No call is under way.
NoStrings == [idle |-> TRUE]

StringsInit ==
    strs \in [u : Texts(MaxChars), v : Texts(MaxChars2), pred : {{1, 2}}]
             \cup [u : Texts(MaxChars), v : {<<>>}, pred : SUBSET Chars]

-----------------------------------------------------------------------------
(* UTF-8: a lead byte says which character it is and how many bytes follow;   *)
(* 0 is any continuation byte.  Positions count from 0 as in the code.        *)

utf8_encode_codepoint(c) == <<c>> \o <<<<>>, <<0>>, <<0, 0>>, <<0>>>>[c]
Encode(t) == FlattenSeq([i \in DOMAIN t |-> utf8_encode_codepoint(t[i])])

Byte(b, pos) == b[pos + 1]
Slice(b, from, to) == SubSeq(b, from + 1, to)

utf8_decode_next(b, pos) ==
    LET c == Byte(b, pos)  next == pos + Len(utf8_encode_codepoint(c))
    IN [cp |-> c, next |-> next,
        ok |-> next <= Len(b) /\ \A i \in (pos + 1)..(next - 1) : Byte(b, i) = 0]

\* The loop over code points that most primitives share, up to index end.
Scan(b, end, acc0, F(_, _, _)) ==
    FoldLeft(LAMBDA s, i :
               IF s.pos < Len(b) /\ s.idx < end
               THEN LET d == utf8_decode_next(b, s.pos)
                    IN [pos |-> d.next, idx |-> s.idx + 1, acc |-> F(s.acc, s.idx, d.cp)]
               ELSE s,
             [pos |-> 0, idx |-> 0, acc |-> acc0], b)

All == 99
utf8_count_codepoints(b) == Scan(b, All, 0, LAMBDA a, i, c : a).idx

Nowhere == -1
utf8_offset_for_index(b, index) ==
    LET s == Scan(b, index, 0, LAMBDA a, i, c : a)
    IN IF s.idx = index THEN s.pos ELSE Nowhere

FoundAt(p, d) == [at |-> p, end |-> d.next, cp |-> d.cp]
FindAt(b, p) == IF p = Nowhere \/ p >= Len(b) THEN [at |-> Nowhere, end |-> Nowhere, cp |-> 0]
                ELSE FoundAt(p, utf8_decode_next(b, p))
ch_utf8_find_codepoint(b, index) == FindAt(b, utf8_offset_for_index(b, index))

\* Slip: the byte before, whatever it is.
find_prev_cp_start_Byte(b, end) == end - 1

\* Back over continuation bytes to the start of a code point.
find_prev_cp_start(b, end) ==
    CHOOSE p \in 0..(end - 1) : /\ p = 0 \/ Byte(b, p) # 0
                                /\ \A q \in (p + 1)..(end - 1) : Byte(b, q) = 0

parse_optional_range(start, end, len) == start <= end /\ end <= len

Ok(v) == [st |-> "ok", v |-> v]
Bad == [st |-> "error"]
Ranged(b, start, end, R(_)) ==
    IF parse_optional_range(start, end, utf8_count_codepoints(b))
    THEN Ok(R(<<utf8_offset_for_index(b, start), utf8_offset_for_index(b, end)>>)) ELSE Bad

-----------------------------------------------------------------------------
(* prim_string.c                                                              *)

prim_string_length(b) == utf8_count_codepoints(b)

prim_string_ref(b, k) ==
    LET f == ch_utf8_find_codepoint(b, k) IN IF f.at = Nowhere THEN Bad ELSE Ok(f.cp)

string_splice_bytes(b, from, to, rep) == Slice(b, 0, from) \o rep \o Slice(b, to, Len(b))

SetFound(b, f, c) ==
    IF f.at = Nowhere THEN Bad ELSE Ok(string_splice_bytes(b, f.at, f.end, utf8_encode_codepoint(c)))
prim_string_set(b, k, c) == SetFound(b, ch_utf8_find_codepoint(b, k), c)

prim_string(t) == FoldLeft(LAMBDA b, c : b \o utf8_encode_codepoint(c), <<>>, t)
prim_list_to_string(t) == prim_string(t)
prim_make_string(k, c) == FoldLeft(LAMBDA b, i : b \o utf8_encode_codepoint(c), <<>>,
                                   [i \in 1..k |-> i])
prim_string_append(bs) == FoldLeft(LAMBDA x, y : x \o y, <<>>, bs)

prim_substring(b, start, end) ==
    LET s == utf8_offset_for_index(b, start)  e == utf8_offset_for_index(b, end)
    IN IF end < start \/ s = Nowhere \/ e = Nowhere THEN Bad ELSE Ok(Slice(b, s, e))

prim_string_copy(b, start, end) ==
    Ranged(b, start, end, LAMBDA r : Slice(b, r[1], r[2]))

\* The source bytes are set aside first: to and from may be one string.
prim_string_copy_bang(to, at, from, start, end) ==
    IF ~parse_optional_range(start, end, utf8_count_codepoints(from))
       \/ at + (end - start) > utf8_count_codepoints(to) THEN Bad
    ELSE LET src == Slice(from, utf8_offset_for_index(from, start),
                                utf8_offset_for_index(from, end))
         IN Ok(string_splice_bytes(to, utf8_offset_for_index(to, at),
                                   utf8_offset_for_index(to, at + (end - start)), src))

prim_string_fill(b, c, start, end) ==
    Ranged(b, start, end,
           LAMBDA r : string_splice_bytes(b, r[1], r[2], prim_make_string(end - start, c)))

prim_string_to_list(b, start, end) ==
    Ranged(b, start, end,
           LAMBDA r : Scan(b, end, <<>>, LAMBDA a, i, c : IF i >= start THEN Append(a, c)
                                                        ELSE a).acc)

\* string->vector looks every index up from the start; vector->string and
\* utf8->string build the bytes again, string->utf8 takes a slice of them.
prim_string_to_vector(b, start, end) ==
    Ranged(b, start, end,
           LAMBDA r : [i \in 1..(end - start) |-> ch_utf8_find_codepoint(b, start + i - 1).cp])
prim_vector_to_string(t, start, end) ==
    IF parse_optional_range(start, end, Len(t)) THEN Ok(prim_string(Slice(t, start, end))) ELSE Bad
prim_string_to_utf8(b, start, end) ==
    Ranged(b, start, end, LAMBDA r : Slice(b, r[1], r[2]))
prim_utf8_to_string(b, start, end) ==
    IF parse_optional_range(start, end, Len(b)) THEN Ok(Slice(b, start, end)) ELSE Bad

\* string-map and string-for-each: the arguments of the calls, to the shortest.
string_map_calls(b1, b2) ==
    LET n1 == utf8_count_codepoints(b1)  n2 == utf8_count_codepoints(b2)
    IN [i \in 1..(IF n2 < n1 THEN n2 ELSE n1) |->
           <<ch_utf8_find_codepoint(b1, i - 1).cp, ch_utf8_find_codepoint(b2, i - 1).cp>>]

prim_string_map(b1, b2) ==
    FoldLeft(LAMBDA b, c : b \o utf8_encode_codepoint(c[1]), <<>>, string_map_calls(b1, b2))

string_cmp_utf8(a, b) ==
    LET w == FoldLeft(LAMBDA s, i :
                        IF s.ap < Len(a) /\ s.bp < Len(b) /\ s.r = 0
                        THEN LET x == utf8_decode_next(a, s.ap)  y == utf8_decode_next(b, s.bp)
                             IN IF x.cp < y.cp THEN [s EXCEPT !.r = -1]
                                ELSE IF x.cp > y.cp THEN [s EXCEPT !.r = 1]
                                ELSE [s EXCEPT !.ap = x.next, !.bp = y.next]
                        ELSE s, [ap |-> 0, bp |-> 0, r |-> 0], a)
    IN IF w.r # 0 THEN w.r ELSE IF w.ap < Len(a) THEN 1 ELSE IF w.bp < Len(b) THEN -1 ELSE 0

Up(c) == CASE c = 2 -> <<3>> [] c = 4 -> <<3, 3>> [] OTHER -> <<c>>
Down(c) == IF c = 3 THEN <<2>> ELSE <<c>>

\* append_case_codepoint and, for lower case, the rule of the final letter.
string_case_map(b, mode) ==
    Scan(b, All, [out |-> <<>>, prev |-> FALSE],
         LAMBDA a, i, c :
           LET next == ch_utf8_find_codepoint(b, i + 1).cp
               new == IF mode = "up" THEN Up(c)
                      ELSE IF c = 3 THEN IF a.prev /\ next \notin Cased THEN <<4>> ELSE <<2>>
                      ELSE Down(c)
           IN [out |-> a.out \o prim_string(new), prev |-> c \in Cased]).acc.out

-----------------------------------------------------------------------------
(* prim_srfi13.c                                                              *)

\* Byte positions at code point starts where pat matches.
prim_string_contains(b, start, end, pat) ==
    Ranged(b, start, end, LAMBDA r :
      IF pat = <<>> THEN start
      ELSE LET w == Scan(b, All, [hit |-> Nowhere, pos |-> 0],
                         LAMBDA a, i, c :
                           [pos |-> a.pos + Len(utf8_encode_codepoint(c)),
                            hit |-> IF a.hit = Nowhere /\ i >= start
                                       /\ a.pos + Len(pat) <= r[2]
                                       /\ Slice(b, a.pos, a.pos + Len(pat)) = pat
                                    THEN i ELSE a.hit])
           IN w.acc.hit)

prim_string_prefix_p(p, b) == Len(p) <= Len(b) /\ Slice(b, 0, Len(p)) = p
prim_string_suffix_p(p, b) == Len(p) <= Len(b) /\ Slice(b, Len(b) - Len(p), Len(b)) = p
prim_string_concatenate(bs) == prim_string_append(bs)

\* unfold appends encoded characters to the base; unfold-right gathers code
\* points and writes them from the last.  t is what the procedures yield.
prim_string_unfold(t, base) == base \o prim_string(t)
prim_string_unfold_right(t, base) ==
    FoldLeft(LAMBDA b, i : b \o utf8_encode_codepoint(t[Len(t) + 1 - i]), <<>>,
             [i \in DOMAIN t |-> i]) \o base
prim_string_tabulate(t) == prim_string(t)

FirstIndex(b, start, end, pred, want) ==
    Ranged(b, start, end, LAMBDA r : Scan(b, end, Nowhere, LAMBDA a, i, c :
        IF a = Nowhere /\ i >= start /\ (c \in pred) = want THEN i ELSE a).acc)
LastIndex(b, start, end, pred, want) ==
    Ranged(b, start, end, LAMBDA r : Scan(b, end, Nowhere, LAMBDA a, i, c :
        IF i >= start /\ (c \in pred) = want THEN i ELSE a).acc)

prim_string_index(b, start, end, pred) == FirstIndex(b, start, end, pred, TRUE)
prim_string_skip(b, start, end, pred) == FirstIndex(b, start, end, pred, FALSE)
string_index_right_impl(b, start, end, pred, skip) == LastIndex(b, start, end, pred, ~skip)
\* string-any and string-every stop at the character that decides.
prim_string_any(b, start, end, pred) == FirstIndex(b, start, end, pred, TRUE)
prim_string_every(b, start, end, pred) == FirstIndex(b, start, end, pred, FALSE)

prim_string_count(b, start, end, pred) ==
    Ranged(b, start, end, LAMBDA r : Scan(b, end, 0, LAMBDA a, i, c :
        IF i >= start /\ c \in pred THEN a + 1 ELSE a).acc)

string_filter_impl(b, start, end, pred, keep) ==
    Ranged(b, start, end, LAMBDA r : Scan(b, end, <<>>, LAMBDA a, i, c :
        IF i >= start /\ (c \in pred) = keep THEN a \o utf8_encode_codepoint(c) ELSE a).acc)

prim_string_take(b, k) ==
    LET e == utf8_offset_for_index(b, k) IN IF e = Nowhere THEN Bad ELSE Ok(Slice(b, 0, e))
prim_string_drop(b, k) ==
    LET s == utf8_offset_for_index(b, k) IN IF s = Nowhere THEN Bad ELSE Ok(Slice(b, s, Len(b)))

FromRight(b, k) == utf8_offset_for_index(b, utf8_count_codepoints(b) - k)
prim_string_take_right(b, k) ==
    IF k > utf8_count_codepoints(b) THEN Bad ELSE Ok(Slice(b, FromRight(b, k), Len(b)))
prim_string_drop_right(b, k) ==
    IF k > utf8_count_codepoints(b) THEN Bad ELSE Ok(Slice(b, 0, FromRight(b, k)))

\* The left end moves over code points, the right end back to their starts.
TrimLeft(b, pred) ==
    LET w == Scan(b, All, [pos |-> 0, go |-> TRUE], LAMBDA a, i, c :
               IF a.go /\ c \in pred THEN [a EXCEPT !.pos = @ + Len(utf8_encode_codepoint(c))]
               ELSE [a EXCEPT !.go = FALSE])
    IN w.acc.pos

TrimRight(b, start, pred) ==
    FoldLeft(LAMBDA end, i :
               IF end > start /\ Byte(b, find_prev_cp_start(b, end)) \in pred
               THEN find_prev_cp_start(b, end) ELSE end, Len(b), b)

string_trim_impl(b, pred, mode) ==
    LET s == IF mode \in {"left", "both"} THEN TrimLeft(b, pred) ELSE 0
        e == IF mode \in {"right", "both"} THEN TrimRight(b, s, pred) ELSE Len(b)
    IN Slice(b, s, e)

string_pad_impl(b, k, c, right) ==
    LET n == utf8_count_codepoints(b)
    IN IF n >= k
       THEN IF right THEN Slice(b, 0, utf8_offset_for_index(b, k))
            ELSE Slice(b, utf8_offset_for_index(b, n - k), Len(b))
       ELSE IF right THEN b \o prim_make_string(k - n, c) ELSE prim_make_string(k - n, c) \o b

prim_string_replace(b, b2, start, end) ==
    Ranged(b, start, end, LAMBDA r : Slice(b, 0, r[1]) \o b2 \o Slice(b, r[2], Len(b)))

titlecase_range(b) ==
    Scan(b, All, [out |-> <<>>, word |-> TRUE], LAMBDA a, i, c :
      LET new == IF c \notin Cased THEN c ELSE IF a.word THEN (IF c = 2 THEN 3 ELSE c)
                 ELSE Head(Down(c))
      IN [out |-> a.out \o utf8_encode_codepoint(new), word |-> c \notin Cased]).acc.out

prim_string_join(bs, delim, grammar) ==
    IF bs = <<>> THEN IF grammar = "strict-infix" THEN Bad ELSE Ok(<<>>)
    ELSE Ok(FoldLeft(LAMBDA out, i :
           out \o (IF grammar = "prefix" \/ (grammar # "suffix" /\ i > 1) THEN delim ELSE <<>>)
               \o bs[i] \o (IF grammar = "suffix" THEN delim ELSE <<>>),
           <<>>, [i \in DOMAIN bs |-> i]))

\* Occurrences of delim from the left; an empty one splits off characters from
\* the right end.
prim_string_split(b, delim) ==
    IF delim = <<>>
    THEN Ok(FoldLeft(LAMBDA s, i :
               IF s.pos = 0 THEN s
               ELSE LET p == find_prev_cp_start(b, s.pos)
                    IN [pos |-> p, out |-> <<Slice(b, p, s.pos)>> \o s.out],
             [pos |-> Len(b), out |-> <<>>], b).out)
    ELSE LET Found(scan) == {p \in scan..(Len(b) - Len(delim)) :
                               Slice(b, p, p + Len(delim)) = delim}
             Next1(s) == IF s.done THEN s
                         ELSE IF Found(s.scan) = {}
                         THEN [s EXCEPT !.out = Append(@, Slice(b, s.scan, Len(b))), !.done = TRUE]
                         ELSE LET p == CHOOSE p \in Found(s.scan) : \A q \in Found(s.scan) : p <= q
                              IN [s EXCEPT !.out = Append(@, Slice(b, s.scan, p)),
                                           !.scan = p + Len(delim)]
             w == FoldLeft(LAMBDA s, i : Next1(s), [scan |-> 0, out |-> <<>>, done |-> FALSE],
                           Append(b, 0))
         IN IF Len(w.out) > SplitLimit THEN Bad ELSE Ok(w.out)

-----------------------------------------------------------------------------
(* What the primitives promise, on texts as sequences of characters           *)

Sub(t, start, end) == SubSeq(t, start + 1, end)
Valid(t, start, end) == start <= end /\ end <= Len(t)
Encoded(t) == Ok(Encode(t))
Where(t, start, end, S) == {i \in start..(end - 1) : t[i + 1] \in S}
FirstOf(S) == IF S = {} THEN Nowhere ELSE CHOOSE i \in S : \A j \in S : i <= j
LastOf(S) == IF S = {} THEN Nowhere ELSE CHOOSE i \in S : \A j \in S : i >= j

IndexesAreCharacters ==
    LET t == strs.u  b == Encode(t)  n == Len(t)
    IN /\ prim_string_length(b) = n
       /\ \A k \in 0..(n + 1) :
            /\ prim_string_ref(b, k) = IF k < n THEN Ok(t[k + 1]) ELSE Bad
            /\ \A c \in Chars : prim_string_set(b, k, c) =
                 IF k < n THEN Encoded([t EXCEPT ![k + 1] = c]) ELSE Bad
            /\ prim_string_take(b, k) = IF k <= n THEN Encoded(Sub(t, 0, k)) ELSE Bad
            /\ prim_string_drop(b, k) = IF k <= n THEN Encoded(Sub(t, k, n)) ELSE Bad
            /\ prim_string_take_right(b, k) = IF k <= n THEN Encoded(Sub(t, n - k, n)) ELSE Bad
            /\ prim_string_drop_right(b, k) = IF k <= n THEN Encoded(Sub(t, 0, n - k)) ELSE Bad
            /\ \A r \in BOOLEAN : prim_string_length(string_pad_impl(b, k, 3, r)) = k
            /\ \A e \in 0..(n + 1) :
                 /\ prim_substring(b, k, e) = IF Valid(t, k, e) THEN Encoded(Sub(t, k, e)) ELSE Bad
                 /\ prim_string_copy(b, k, e) = prim_substring(b, k, e)
                 /\ Valid(t, k, e) =>
                      /\ prim_string_to_list(b, k, e) = Ok(Sub(t, k, e))
                      /\ prim_string_fill(b, 3, k, e) =
                           Encoded([i \in 1..n |-> IF i > k /\ i <= e THEN 3 ELSE t[i]])
                      /\ \A at \in 0..n : prim_string_copy_bang(b, at, b, k, e) =
                           IF at + (e - k) > n THEN Bad
                           ELSE Encoded([i \in 1..n |-> IF i > at /\ i <= at + (e - k)
                                                        THEN t[k + i - at] ELSE t[i]])
       /\ \A k, e \in 0..n : Valid(t, k, e) =>
            /\ prim_string_to_vector(b, k, e) = Ok(Sub(t, k, e))
            /\ prim_vector_to_string(t, k, e) = prim_string_to_utf8(b, k, e)
            /\ LET bytes == prim_string_to_utf8(b, k, e).v
               IN prim_utf8_to_string(bytes, 0, Len(bytes)) = prim_string_copy(b, k, e)
       /\ prim_string_length(string_case_map(b, "down")) = n
       /\ prim_string_length(titlecase_range(b)) = n

PredicatesSeeCharacters ==
    LET t == strs.u  b == Encode(t)  n == Len(t)  P == strs.pred
    IN /\ \A k, e \in 0..n : Valid(t, k, e) =>
            /\ prim_string_index(b, k, e, P) = Ok(FirstOf(Where(t, k, e, P)))
            /\ prim_string_skip(b, k, e, P) = Ok(FirstOf(Where(t, k, e, Chars \ P)))
            /\ string_index_right_impl(b, k, e, P, FALSE) = Ok(LastOf(Where(t, k, e, P)))
            /\ string_index_right_impl(b, k, e, P, TRUE) = Ok(LastOf(Where(t, k, e, Chars \ P)))
            /\ string_filter_impl(b, k, e, P, TRUE) =
                 Encoded(SelectSeq(Sub(t, k, e), LAMBDA c : c \in P))
            /\ prim_string_count(b, k, e, P) = Ok(Len(SelectSeq(Sub(t, k, e), LAMBDA c : c \in P)))
       /\ LET keep == Where(t, 0, n, Chars \ P)
          IN string_trim_impl(b, P, "both") =
               IF keep = {} THEN <<>> ELSE Encode(Sub(t, FirstOf(keep), LastOf(keep) + 1))

TextsCombine ==
    LET t == strs.u  b == Encode(t)  v == strs.v  d == Encode(v)  n == Len(t)
        at == {i \in 0..(n - Len(v)) : Sub(t, i, i + Len(v)) = v}
    IN /\ prim_string_contains(b, 0, n, d) = Ok(FirstOf(at))
       /\ prim_string_prefix_p(d, b) = (0 \in at)
       /\ prim_string_suffix_p(d, b) = (n - Len(v) \in at)
       /\ string_cmp_utf8(b, d) = 0 <=> t = v
       /\ string_cmp_utf8(b, d) = -string_cmp_utf8(d, b)
       /\ Len(v) > 0 /\ prim_string_split(b, d).st = "ok" =>
            prim_string_join(prim_string_split(b, d).v, d, "infix") = Ok(b)
       /\ Len(v) = 0 => prim_string_split(b, d) = Ok([i \in 1..n |-> Encode(<<t[i]>>)])
       /\ prim_string_map(b, d) = Encode(Sub(t, 0, IF n < Len(v) THEN n ELSE Len(v)))

\* Every string primitive works on characters, whatever their width in bytes:
\* it answers what the same operation on the sequence of characters answers,
\* and never cuts a character in two.
StringsAreTexts == strs # NoStrings =>
    /\ strs.v = <<>> => PredicatesSeeCharacters
    /\ strs.pred = {1, 2} => TextsCombine
    /\ strs.v = <<>> /\ strs.pred = {1, 2} => IndexesAreCharacters
=============================================================================
