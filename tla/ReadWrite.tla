----------------------------- MODULE ReadWrite ------------------------------
(* The printer (src/src/printer.c) and the reader (src/src/reader.c): what    *)
(* write and write-shared print of a datum that may share and be circular,    *)
(* and what read makes of a text that may arrive in two pieces.  A text is a  *)
(* sequence of characters, one string each; a character outside ASCII is its  *)
(* two bytes.                                                                 *)
EXTENDS ReadNumber

CONSTANTS MaxCells,      \* bound: pairs and vectors of a datum
          MaxName,       \* bound: characters of a symbol
          MaxPrintDepth, \* CH_MAX_PRINT_DEPTH: 1024
          MaxNesting,    \* CH_READER_MAX_NESTING_DEPTH: 1024
          MaxLabels,     \* CH_READER_MAX_LABELS: 256
          PatchDepth     \* CH_DATUM_PATCH_DEPTH: 1024

ASSUME ReadWriteAssumption ==
    /\ MaxCells \in Nat /\ MaxName \in Nat /\ MaxLabels \in Nat
    /\ MaxPrintDepth \in Nat /\ MaxNesting \in Nat /\ PatchDepth \in Nat

VARIABLE rw \* the datum to write, how, and what precedes it in the text

-----------------------------------------------------------------------------
(* Data: immediate values, and references to the cells of a heap              *)

NilV == [k |-> "nil"]
VoidV == [k |-> "void"]
UndefV == [k |-> "undef"]
BoolV(b) == [k |-> "bool", b |-> b]
SymV(s) == [k |-> "sym", s |-> s]
StrV(s) == [k |-> "str", s |-> s]
ChrV(c) == [k |-> "chr", c |-> c]
NumV(v) == [k |-> "num", v |-> v]
RefV(n) == [k |-> "ref", n |-> n]
PairC(a, d) == [k |-> "pair", items |-> <<a, d>>]
VecC(s) == [k |-> "vec", items |-> s]
BytesC(s) == [k |-> "bytes", items |-> s]

IsPairV(h, v) == v.k = "ref" /\ h[v.n].k = "pair"
IsVecV(h, v) == v.k = "ref" /\ h[v.n].k = "vec"
CarOf(h, v) == h[v.n].items[1]
CdrOf(h, v) == h[v.n].items[2]

\* The characters that escapes and hexadecimal spellings name.
CodeOf(c) == CASE c = "NUL" -> 0 [] c = "BEL" -> 7 [] c = "BS" -> 8 [] c = "\t" -> 9 [] c = "\n" -> 10
               [] c = "\r" -> 13 [] c = "ESC" -> 27 [] c = "DEL" -> 127 [] c = "e'" -> 233
Controls == {"NUL", "BEL", "BS", "\t", "\n", "\r", "ESC", "DEL"}
Coded == Controls \cup {"e'"}
CharOf(n) == CHOOSE c \in Coded : CodeOf(c) = n
BytesOf(c) == IF c = "e'" THEN <<"C3", "A9">> ELSE <<c>>

RECURSIVE DecimalText(_)
DecimalText(n) ==
    IF n < 10 THEN <<HexDigits[n + 1]>> ELSE DecimalText(n \div 10) \o <<HexDigits[(n % 10) + 1]>>

-----------------------------------------------------------------------------
(* Printing: which cells get a label                                          *)

contains_value(s, v) == \E i \in 1..Len(s) : s[i] = v
is_labelable(h, v) == IsPairV(h, v) \/ IsVecV(h, v)
shared_index(st, v) == IF contains_value(st.shared, v) THEN SelectInSeq(st.shared, LAMBDA x : x = v) ELSE 0
record_shared(st, v) ==
    IF shared_index(st, v) > 0 THEN st
    ELSE [st EXCEPT !.shared = Append(@, v), !.labels = Append(@, -1)]
get_or_assign_label(st, v) == [st EXCEPT !.labels[shared_index(st, v)] = st.next, !.next = @ + 1]
peek_label(st, v) == IF shared_index(st, v) = 0 THEN -1 ELSE st.labels[shared_index(st, v)]

\* write-shared: every cell that is referenced more than once.
RECURSIVE mark_shared(_, _, _)
mark_shared(h, v, st) ==
    IF ~is_labelable(h, v) \/ st.depth >= MaxPrintDepth THEN st
    ELSE IF contains_value(st.seen, v) THEN record_shared(st, v)
    ELSE [FoldLeft(LAMBDA s, x : mark_shared(h, x, s),
                   [st EXCEPT !.depth = @ + 1, !.seen = Append(@, v)], h[v.n].items)
          EXCEPT !.depth = st.depth]

\* Slip: a spine that was walked stays on the stack.
PopTo_Never(st, n) == st

\* The cells pushed after the first n are done, the last one first.
PopTo(st, n) == [st EXCEPT !.stack = SubSeq(@, 1, n),
                           !.done = @ \o Reverse(SubSeq(st.stack, n + 1, Len(st.stack)))]

\* write and display: only the cells that close a cycle.
RECURSIVE mark_cycles(_, _, _), MarkSpine(_, _, _)
mark_cycles(h, v, st) ==
    IF st.depth >= MaxPrintDepth \/ ~is_labelable(h, v) THEN st
    ELSE IF IsPairV(h, v) THEN PopTo(MarkSpine(h, v, st), Len(st.stack))
    ELSE IF contains_value(st.stack, v) THEN record_shared(st, v)
    ELSE IF contains_value(st.done, v) THEN st
    ELSE LET marked == FoldLeft(LAMBDA s, x : mark_cycles(h, x, s),
                                [st EXCEPT !.depth = @ + 1, !.stack = Append(@, v)], h[v.n].items)
         IN  [PopTo(marked, Len(st.stack)) EXCEPT !.depth = st.depth]
MarkSpine(h, cur, st) ==
    IF ~IsPairV(h, cur) THEN mark_cycles(h, cur, st)
    ELSE IF contains_value(st.stack, cur) THEN record_shared(st, cur)
    ELSE IF contains_value(st.done, cur) THEN st
    ELSE LET in == mark_cycles(h, CarOf(h, cur), [st EXCEPT !.depth = @ + 1, !.stack = Append(@, cur)])
         IN  MarkSpine(h, CdrOf(h, cur), [in EXCEPT !.depth = st.depth])

-----------------------------------------------------------------------------
(* Printing: atoms                                                            *)

Barred == Controls \cup {" ", "(", ")", "[", "]", "{", "}", "\"", ";", "|", "\\", "'",
           "backquote", ",", "#"}
StartsWith(s, t) == Len(s) >= Len(t) /\ SubSeq(s, 1, Len(t)) = t
symbol_needs_bars(s) ==
    LET C(i) == IF i <= Len(s) THEN s[i] ELSE ""
    IN  \/ s = <<>>
        \/ \E i \in 1..Len(s) : s[i] \in Barred
        \/ s = <<".">>
        \/ isdigit(C(1))
        \/ /\ C(1) \in Signs
           /\ \/ isdigit(C(2))
              \/ C(2) = "." /\ isdigit(C(3))
              \/ Len(s) = 2 /\ C(2) = "i"
              \/ StartsWith(TextFrom(s, 1), <<"i", "n", "f", ".", "0">>)
              \/ StartsWith(TextFrom(s, 1), <<"n", "a", "n", ".", "0">>)
        \/ C(1) = "." /\ isdigit(C(2))

HexText(n) == <<HexDigits[n \div 16 + 1], HexDigits[(n % 16) + 1]>>
print_symbol_write(s) ==
    LET Put(c) == CASE c \in {"|", "\\"} -> <<"\\", c>>
                    [] c \in Controls -> <<"\\", "x">> \o HexText(CodeOf(c)) \o <<";">>
                    [] OTHER -> <<c>>
    IN  IF symbol_needs_bars(s) THEN <<"|">> \o FlattenSeq([i \in 1..Len(s) |-> Put(s[i])]) \o <<"|">>
        ELSE s

print_string_write(s) ==
    LET Put(c) == CASE c \in {"\"", "\\"} -> <<"\\", c>>
                    [] c = "\n" -> <<"\\", "n">>
                    [] c = "\t" -> <<"\\", "t">>
                    [] c = "\r" -> <<"\\", "r">>
                    [] OTHER -> <<c>>
    IN  <<"\"">> \o FlattenSeq([i \in 1..Len(s) |-> Put(s[i])]) \o <<"\"">>

Spaced(texts) == FlattenSeq([i \in 1..Len(texts) |-> IF i = 1 THEN texts[i] ELSE <<" ">> \o texts[i]])

CharName(c) ==
    CASE c = "\n" -> <<"n", "e", "w", "l", "i", "n", "e">>
      [] c = " " -> <<"s", "p", "a", "c", "e">>
      [] c = "\t" -> <<"t", "a", "b">>
      [] c = "e'" -> <<"x", "E", "9">>
      [] OTHER -> <<c>>
NumText(v) ==
    (IF v.n < 0 THEN <<"-">> ELSE <<>>) \o DecimalText(AbsOf(v.n))
    \o (IF v.d = 1 THEN <<>> ELSE <<"/">> \o DecimalText(v.d))

print_value_atom(h, v, display) ==
    CASE v.k = "nil" -> <<"(", ")">>
      [] v.k = "bool" -> <<"#", IF v.b THEN "t" ELSE "f">>
      [] v.k = "chr" -> CASE ~display -> <<"#", "\\">> \o CharName(v.c)
                        [] v.c = "e'" -> <<"\\", "u", "0", "0", "E", "9">>
                        [] OTHER -> <<v.c>>
      [] v.k = "num" -> NumText(v.v)
      [] v.k = "sym" -> IF display THEN v.s ELSE print_symbol_write(v.s)
      [] v.k = "str" -> IF display THEN v.s ELSE print_string_write(v.s)
      [] v.k = "ref" -> <<"#", "u", "8", "(">>
                        \o Spaced([i \in 1..Len(h[v.n].items) |-> DecimalText(h[v.n].items[i])]) \o <<")">>

-----------------------------------------------------------------------------
(* Printing: cells                                                            *)

\* Without labels.  The text is only asked for when no cell is on a cycle.
RECURSIVE print_value_with_depth(_, _, _, _), SimpleRest(_, _, _, _)
print_list_simple(h, v, display, depth) ==
    <<"(">> \o print_value_with_depth(h, CarOf(h, v), display, depth + 1)
    \o SimpleRest(h, CdrOf(h, v), display, depth + 1) \o <<")">>
SimpleRest(h, v, display, depth) ==
    CASE IsPairV(h, v) -> <<" ">> \o print_value_with_depth(h, CarOf(h, v), display, depth)
                         \o SimpleRest(h, CdrOf(h, v), display, depth)
      [] v.k = "nil" -> <<>>
      [] OTHER -> <<" ", ".", " ">> \o print_value_with_depth(h, v, display, depth)
print_value_with_depth(h, v, display, depth) ==
    CASE depth >= MaxPrintDepth -> <<".", ".", ".">>
      [] IsPairV(h, v) -> print_list_simple(h, v, display, depth)
      [] IsVecV(h, v) ->
           <<"#", "(">> \o Spaced([i \in 1..Len(h[v.n].items) |->
                                     print_value_with_depth(h, h[v.n].items[i], display, depth + 1)])
           \o <<")">>
      [] OTHER -> print_value_atom(h, v, display)

\* With labels: st.out is the text so far.
Say(st, t) == [st EXCEPT !.out = @ \o t]
RECURSIVE print_value_shared(_, _, _, _), SharedRest(_, _, _, _)
print_list_shared(h, v, st, display) ==
    Say(SharedRest(h, CdrOf(h, v), print_value_shared(h, CarOf(h, v), Say(st, <<"(">>), display), display),
        <<")">>)
SharedRest(h, v, st, display) ==
    CASE v.k = "nil" -> st
      [] IsPairV(h, v) /\ shared_index(st, v) = 0 ->
           SharedRest(h, CdrOf(h, v), print_value_shared(h, CarOf(h, v), Say(st, <<" ">>), display), display)
      [] OTHER -> print_value_shared(h, v, Say(st, <<" ", ".", " ">>), display)
Elements(h, v, st, display) ==
    LET Elem(s, i) == print_value_shared(h, h[v.n].items[i], IF i = 1 THEN s ELSE Say(s, <<" ">>), display)
    IN  FoldLeftDomain(Elem, st, h[v.n].items)
PrintBody(h, v, st, display) ==
    CASE IsPairV(h, v) -> print_list_shared(h, v, st, display)
      [] IsVecV(h, v) -> Say(Elements(h, v, Say(st, <<"#", "(">>), display), <<")">>)
      [] OTHER -> Say(st, print_value_atom(h, v, display))
SayLabel(st, v) == Say(st, <<"#">> \o DecimalText(peek_label(st, v)) \o <<"=">>)
print_value_shared(h, v, st, display) ==
    CASE st.depth >= MaxPrintDepth -> Say(st, <<"#", "<", "d", "e", "e", "p", ">">>)
      [] is_labelable(h, v) /\ peek_label(st, v) >= 0 ->
           Say(st, <<"#">> \o DecimalText(peek_label(st, v)) \o <<"#">>)
      [] OTHER ->
           [PrintBody(h, v, [(IF is_labelable(h, v) /\ shared_index(st, v) > 0
                              THEN SayLabel(get_or_assign_label(st, v), v) ELSE st)
                             EXCEPT !.depth = st.depth + 1], display)
            EXCEPT !.depth = st.depth]

NothingMarked == [seen |-> <<>>, stack |-> <<>>, done |-> <<>>, shared |-> <<>>, labels |-> <<>>,
                  next |-> 0, depth |-> 0, out |-> <<>>]
PrintMarked(h, v, st, display) ==
    IF st.shared = <<>> THEN print_value_with_depth(h, v, display, 0)
    ELSE print_value_shared(h, v, [st EXCEPT !.depth = 0], display).out
ch_print_value_mode(h, v, mode) ==
    PrintMarked(h, v, CASE mode = "simple" -> NothingMarked
                        [] mode = "shared" -> mark_shared(h, v, NothingMarked)
                        [] OTHER -> mark_cycles(h, v, NothingMarked), mode = "display")

-----------------------------------------------------------------------------
(* Reading: characters                                                        *)

\* A reader: its text s, of which the first cut characters are in the buffer
\* until more is asked for; position, labels and the cells it has made; the
\* status and value of the last datum.
ReaderOn(s, cut) ==
    [s |-> s, cut |-> cut, p |-> 1, fold |-> FALSE, labels |-> <<>> \o [i \in 1..MaxLabels |-> UndefV],
     heap |-> <<>>, depth |-> 0, st |-> "ok", v |-> UndefV, buf |-> <<>>]

peek_n(r, n) == IF r.p + n <= Len(r.s) THEN r.s[r.p + n] ELSE ""
peek(r) == peek_n(r, 0)
advance(r, n) == [r EXCEPT !.p = IF @ + n <= Len(r.s) THEN @ + n ELSE Len(r.s) + 1]
fail(r) == [r EXCEPT !.st = "error"]
Give(r, v) == [r EXCEPT !.st = "ok", !.v = v]
Good(r) == r.st = "ok"

\* The characters in the buffer once n characters from the position have been
\* looked at: looking past the end refills it.
InBuffer(r, n) == IF r.p + n - 1 > r.cut THEN Len(r.s) ELSE r.cut

isspace(c) == c \in {" ", "\n", "\t", "\r"}
is_delim(c) == c = "" \/ isspace(c) \/ c \in {"(", ")", "\"", ";", "|", "'", "backquote", ",", "[", "]"}
Letters == {"a", "b", "c", "d", "e", "f", "g", "h", "i", "j", "k", "l", "m", "n", "o", "p", "q",
            "r", "s", "t", "u", "v", "w", "x", "y", "z", "A", "B", "E", "F", "I", "N", "T", "X"}
is_utf8_lead_byte(c) == c = "C3"
is_utf8_continuation_byte(c) == c = "A9"
is_ident_start(c) ==
    \/ c \in Letters \/ is_utf8_lead_byte(c)
    \/ c \in {"!", "$", "%", "&", "*", "/", ":", "<", "=", ">", "?", "^", "_", "~", "+", "-", ".", "@"}
is_ident_subsequent(c) == is_ident_start(c) \/ isdigit(c) \/ is_utf8_continuation_byte(c)

\* The first position from p on, up to the limit, whose character stops a token.
TokenEnd(r, p, limit, Stops(_)) ==
    LET at == {j \in p..limit : Stops(r.s[j])} IN IF at = {} THEN limit + 1 ELSE Min(at)
LineEnd(r) == [r EXCEPT !.p = TokenEnd(r, r.p, Len(r.s), LAMBDA c : c = "\n")]

RECURSIVE read_datum(_), skip_ws_and_comments(_), BlockEnd(_, _), SkipDatum(_), SkipRead(_)

\* The end of a nested block comment.
BlockEnd(r, depth) ==
    LET c == peek(r)
        n == peek_n(r, 1)
    IN  CASE depth = 0 -> r
          [] c = "" -> fail(r)
          [] c = "#" /\ n = "|" -> BlockEnd(advance(r, 2), depth + 1)
          [] c = "|" /\ n = "#" -> BlockEnd(advance(r, 2), depth - 1)
          [] OTHER -> BlockEnd(advance(r, 1), depth)

FoldCase == <<"#", "!", "f", "o", "l", "d", "-", "c", "a", "s", "e">>
NoFoldCase == <<"#", "!", "n", "o", "-", "f", "o", "l", "d", "-", "c", "a", "s", "e">>

\* After #; and the blanks that follow it; after its datum.
SkipDatum(r) ==
    CASE ~Good(r) -> r
      [] peek(r) = "." /\ is_delim(peek_n(r, 1)) -> fail(r)
      [] OTHER -> SkipRead(read_datum(r))
SkipRead(r) == IF Good(r) THEN skip_ws_and_comments(r) ELSE fail(r)
SkipBlock(r) == IF Good(r) THEN skip_ws_and_comments(r) ELSE r
\* A directive: the word from the position up to the position word.
Directive(r, word) ==
    CASE SubSeq(r.s, r.p, word - 1) = FoldCase -> [r EXCEPT !.p = word, !.fold = TRUE]
      [] SubSeq(r.s, r.p, word - 1) = NoFoldCase -> [r EXCEPT !.p = word, !.fold = FALSE]
      [] OTHER -> LineEnd(r)
SkipFrom(r, c, n) ==
    CASE c = ";" -> skip_ws_and_comments(LineEnd(r))
      [] isspace(c) -> skip_ws_and_comments(advance(r, 1))
      [] c = "#" /\ n = ";" -> SkipDatum(skip_ws_and_comments(advance(r, 2)))
      [] c = "#" /\ n = "|" -> SkipBlock(BlockEnd(advance(r, 2), 1))
      [] c = "#" /\ n = "!" -> skip_ws_and_comments(Directive(r, TokenEnd(r, r.p, Len(r.s), isspace)))
      [] OTHER -> [r EXCEPT !.st = "ok"]
skip_ws_and_comments(r) == SkipFrom(r, peek(r), peek_n(r, 1))

-----------------------------------------------------------------------------
(* Reading: strings and identifiers                                           *)

Put(r, s) == [r EXCEPT !.buf = @ \o s]
Escapes == {"a", "b", "t", "n", "r", "|", "\\", "\""}
Escape(e) == CASE e = "t" -> "\t" [] e = "n" -> "\n" [] e = "r" -> "\r"
               [] e = "a" -> "BEL" [] e = "b" -> "BS" [] OTHER -> e

\* \x...; : its digits end at j.
HexEscape(r, j) ==
    IF j > Len(r.s) \/ r.s[j] # ";" \/ j - r.p - 1 \notin 1..8 THEN fail(r)
    ELSE Put([r EXCEPT !.p = j + 1], BytesOf(CharOf(Numeral(SubSeq(r.s, r.p + 1, j - 1), 16))))

\* Blanks around a line end, which is at eol, stand for nothing.
BlanksEnd(r, p) == TokenEnd(r, p, Len(r.s), LAMBDA c : c \notin {" ", "\t"})
LineEscape(r, eol) ==
    IF eol > Len(r.s) \/ r.s[eol] \notin {"\n", "\r"} THEN fail(r)
    ELSE [r EXCEPT !.p = BlanksEnd(r, IF eol < Len(r.s) /\ r.s[eol] = "\r" /\ r.s[eol + 1] = "\n"
                                      THEN eol + 2 ELSE eol + 1)]

\* The escape after a backslash.
read_escape_into(r) ==
    CASE peek(r) = "" -> fail(r)
      [] peek(r) \in Escapes -> Put(advance(r, 1), <<Escape(peek(r))>>)
      [] peek(r) \in {"x", "X"} ->
           HexEscape(r, TokenEnd(r, r.p + 1, Len(r.s), LAMBDA c : hex_digit(c) < 0))
      [] isspace(peek(r)) -> LineEscape(r, BlanksEnd(r, r.p))
      [] OTHER -> fail(r)

RECURSIVE ReadUntil(_, _), AfterEscape(_, _)
ReadUntil(r, close) ==
    CASE peek(r) = "" -> fail(r)
      [] peek(r) = close -> advance(r, 1)
      [] peek(r) = "\\" -> AfterEscape(read_escape_into(advance(r, 1)), close)
      [] OTHER -> ReadUntil(Put(advance(r, 1), <<peek(r)>>), close)
AfterEscape(r, close) == IF Good(r) THEN ReadUntil(r, close) ELSE r

Lower(s) == [i \in 1..Len(s) |-> CASE s[i] = "A" -> "a" [] s[i] = "I" -> "i" [] s[i] = "N" -> "n"
                                   [] OTHER -> s[i]]
Folded(r, s) == IF r.fold THEN <<>> \o Lower(s) ELSE s

Quoted(r, close) == ReadUntil([advance(r, 1) EXCEPT !.buf = <<>>], close)
GiveString(r) == IF Good(r) THEN Give(r, StrV(r.buf)) ELSE r
GiveSymbol(r) == IF Good(r) THEN Give(r, SymV(Folded(r, r.buf))) ELSE r
read_string(r) == GiveString(Quoted(r, "\""))
read_delimited_identifier(r) == GiveSymbol(Quoted(r, "|"))

-----------------------------------------------------------------------------
(* Reading: atoms                                                             *)

bad_numeric_token(t) ==
    LET C(i) == IF i <= Len(t) THEN t[i] ELSE ""
    IN  \/ C(1) \in Signs /\ (isdigit(C(2)) \/ (C(2) = "." /\ isdigit(C(3))))
        \/ isdigit(C(1))
        \/ C(1) = "." /\ isdigit(C(2))
invalid_boolean_suffix(t) ==
    /\ Len(t) > 2 /\ t[1] = "#" /\ t[2] \in {"t", "T", "f", "F"}
    /\ t \notin {<<"#", "t", "r", "u", "e">>, <<"#", "f", "a", "l", "s", "e">>}

is_prefix_letter(c) == c \in {"b", "B", "o", "O", "d", "D", "x", "X", "e", "E", "i", "I"}
token_has_hex_prefix(t) ==
    \E n \in 1..Len(t) : /\ t[n] = "#" /\ n < Len(t) /\ t[n + 1] \in {"x", "X"} /\ n % 2 = 1
                         /\ \A j \in 1..(n - 1) : IF j % 2 = 1 THEN t[j] = "#" ELSE is_prefix_letter(t[j])
numeric_trailing_split_ok(t, v) == v.k = "exact" /\ v.d # 1 /\ token_has_hex_prefix(t)
number_token_char(c, first, before) ==
    \/ c = "#"
    \/ is_prefix_letter(c) /\ before = "#"
    \/ isdigit(c) \/ c \in {".", "/", "+", "-"}
    \/ ~first /\ c \in {"i", "I", "e", "E", "s", "S", "f", "F", "d", "D", "l", "L", "p", "P", "n", "N",
                        "a", "A", "b", "B", "c", "C", "_"}

\* The scan stops where the buffer ends: it does not refill it.
ScanStop(stop, limit) == IF stop = {} THEN limit + 1 ELSE Min(stop)
scan_number_token_end(r, peeked) ==
    ScanStop({j \in r.p..InBuffer(r, peeked) :
                ~number_token_char(r.s[j], j = r.p, IF j = r.p THEN "" ELSE r.s[j - 1])},
            InBuffer(r, peeked))

NamedChars == {[name |-> <<"n", "e", "w", "l", "i", "n", "e">>, c |-> "\n"],
               [name |-> <<"s", "p", "a", "c", "e">>, c |-> " "],
               [name |-> <<"t", "a", "b">>, c |-> "\t"],
               [name |-> <<"n", "u", "l", "l">>, c |-> "NUL"],
               [name |-> <<"a", "l", "a", "r", "m">>, c |-> "BEL"],
               [name |-> <<"b", "a", "c", "k", "s", "p", "a", "c", "e">>, c |-> "BS"],
               [name |-> <<"r", "e", "t", "u", "r", "n">>, c |-> "\r"],
               [name |-> <<"e", "s", "c", "a", "p", "e">>, c |-> "ESC"],
               [name |-> <<"d", "e", "l", "e", "t", "e">>, c |-> "DEL"]}
\* The character #\... names, n without the #\, or "" for none.
CharNamed(n) ==
    CASE Len(n) = 1 -> n[1]
      [] n[1] \in {"x", "X"} -> IF DigitsIn(TextFrom(n, 1), 16) THEN CharOf(Numeral(TextFrom(n, 1), 16)) ELSE ""
      [] \E x \in NamedChars : x.name = n -> (CHOOSE x \in NamedChars : x.name = n).c
      [] n = BytesOf("e'") -> "e'"
      [] OTHER -> ""
CharLiteral(r, c) == IF c = "" THEN fail(r) ELSE Give(r, ChrV(c))

\* Whether the characters at the position may start a number, and how far ahead
\* they were looked at.
maybe_number(c0, c1, c2) ==
    \/ c0 = "#" /\ c1 \notin {"\\", "t", "T", "f", "F"}
    \/ isdigit(c0) \/ (c0 = "." /\ isdigit(c1))
    \/ /\ c0 \in Signs
       /\ isdigit(c1) \/ (c1 = "." /\ isdigit(c2)) \/ c1 \in {"i", "I", "n", "N"}
Peeked(c0, c1) == IF c0 \in Signs /\ c1 = "." THEN 3 ELSE 2

AtomEnd(r, c0, c1, c2, number) ==
    CASE number -> scan_number_token_end(r, Peeked(c0, c1))
      [] c0 = "#" /\ c1 = "\\" ->
           CASE c2 \in Letters -> TokenEnd(r, r.p + 3, Len(r.s), is_delim)
             [] is_utf8_lead_byte(c2) -> r.p + 4
             [] c2 = "" -> r.p + 2
             [] OTHER -> r.p + 3
      [] OTHER -> TokenEnd(r, r.p, Len(r.s),
                           LAMBDA c : is_delim(c) \/ (is_ident_start(c0) /\ ~is_ident_subsequent(c)))

\* A token t that ends at the position of a: its number, whether it had to be
\* one, and whether the buffer holds what follows it.
NumberOrSymbol(a, t, num, number, inside) ==
    CASE IsNumber(num) ->
           IF inside /\ ~is_delim(peek(a)) /\ ~numeric_trailing_split_ok(t, num) THEN fail(a)
           ELSE Give(a, NumV(num))
      [] number \/ bad_numeric_token(t) -> fail(a)
      [] OTHER -> Give(a, SymV(Folded(a, t)))
AtomOf(a, t, number, inside) ==
    CASE t = <<>> -> fail(a)
      [] t \in {<<"#", "t">>, <<"#", "T">>, <<"#", "t", "r", "u", "e">>} -> Give(a, BoolV(TRUE))
      [] t \in {<<"#", "f">>, <<"#", "F">>, <<"#", "f", "a", "l", "s", "e">>} -> Give(a, BoolV(FALSE))
      [] Len(t) > 1 /\ t[1] = "#" /\ t[2] = "\\" ->
           CharLiteral(a, IF Len(t) = 2 THEN "" ELSE CharNamed(TextFrom(t, 2)))
      [] invalid_boolean_suffix(t) -> fail(a)
      [] OTHER -> NumberOrSymbol(a, t, try_parse_number(t), number, inside)
AtomTo(r, end, number, limit) ==
    AtomOf([r EXCEPT !.p = end], SubSeq(r.s, r.p, end - 1), number, end <= limit)
AtomFrom(r, c0, c1, c2, number) ==
    AtomTo(r, AtomEnd(r, c0, c1, c2, number), number,
           IF number THEN InBuffer(r, Peeked(c0, c1)) ELSE Len(r.s))
read_atom(r) ==
    AtomFrom(r, peek(r), peek_n(r, 1), peek_n(r, 2), maybe_number(peek(r), peek_n(r, 1), peek_n(r, 2)))

-----------------------------------------------------------------------------
(* Reading: cells                                                             *)

Alloc(r, cell) == Give([r EXCEPT !.heap = Append(@, cell)], RefV(Len(r.heap) + 1))
RECURSIVE Conses(_, _, _), ConsedOn(_, _)
\* The pairs of a list, made from the last one.
Conses(r, items, end) ==
    IF items = <<>> THEN Give(r, end) ELSE ConsedOn(Alloc(r, PairC(Last(items), end)), Front(items))
ConsedOn(r, items) == Conses(r, items, r.v)

RECURSIVE ListRest(_, _), VectorRest(_, _), BytesRest(_, _), ListItem(_, _), VectorItem(_, _)
\* The datum after a dot, v, has been read, and what is blank after it.
DottedEnd(r, items, v) ==
    CASE ~Good(r) -> r
      [] peek(r) # ")" \/ items = <<>> -> fail(r)
      [] OTHER -> Conses(advance(r, 1), items, v)
Dotted(r, items) == IF Good(r) THEN DottedEnd(skip_ws_and_comments(r), items, r.v) ELSE r
ListItem(r, items) == IF Good(r) THEN ListRest(skip_ws_and_comments(r), Append(items, r.v)) ELSE r
ListRest(r, items) ==
    CASE ~Good(r) -> r
      [] peek(r) = "" -> fail(r)
      [] peek(r) = ")" -> Conses(advance(r, 1), items, NilV)
      [] peek(r) = "." /\ is_delim(peek_n(r, 1)) -> Dotted(read_datum(advance(r, 1)), items)
      [] OTHER -> ListItem(read_datum(r), items)
read_list(r) == ListRest(skip_ws_and_comments(advance(r, 1)), <<>>)

VectorItem(r, items) == IF Good(r) THEN VectorRest(skip_ws_and_comments(r), Append(items, r.v)) ELSE r
VectorRest(r, items) ==
    CASE ~Good(r) -> r
      [] peek(r) = "" -> fail(r)
      [] peek(r) = ")" -> Alloc(advance(r, 1), VecC(items))
      [] OTHER -> VectorItem(read_datum(r), items)
read_vector(r) == VectorRest(skip_ws_and_comments(advance(r, 1)), <<>>)

\* The byte v has been read, up to end.
ByteItem(r, items, end, v) ==
    CASE end = r.p \/ v.k # "exact" -> fail(r)
      [] v.d # 1 \/ v.n \notin 0..255 -> fail(r)
      [] OTHER -> BytesRest(skip_ws_and_comments([r EXCEPT !.p = end]), Append(items, v.n))
ByteTo(r, items, end) == ByteItem(r, items, end, try_parse_number(SubSeq(r.s, r.p, end - 1)))
BytesRest(r, items) ==
    CASE ~Good(r) -> r
      [] peek(r) = "" -> fail(r)
      [] peek(r) = ")" -> Alloc(advance(r, 1), BytesC(items))
      [] OTHER -> ByteTo(r, items, scan_number_token_end(r, 1))
read_bytevector(r) == BytesRest(skip_ws_and_comments(advance(r, 3)), <<>>)

\* The name is read as a list of two with the datum that follows.
Abbreviated(r, name) ==
    CASE r.st = "eof" -> fail(r)
      [] r.st = "error" -> r
      [] OTHER -> Conses(r, <<SymV(name), r.v>>, NilV)
read_abbrev(r, name) == Abbreviated(read_datum(r), name)

\* The heap with the placeholder replaced wherever a walk from root meets it;
\* the walk keeps no record of where it has been and ends at PatchDepth.
RECURSIVE patch_placeholder(_, _, _, _, _)
patch_placeholder(h, root, placeholder, replacement, depth) ==
    LET Patch(g, i) ==
            IF g[root.n].items[i] = placeholder THEN [g EXCEPT ![root.n].items[i] = replacement]
            ELSE patch_placeholder(g, g[root.n].items[i], placeholder, replacement, depth + 1)
    IN  IF depth > PatchDepth \/ ~is_labelable(h, root) THEN h
        ELSE FoldLeftDomain(Patch, h, h[root.n].items)

\* #n= : the datum has been read.
Labelled(r, label, placeholder) ==
    CASE ~Good(r) -> [r EXCEPT !.labels[label + 1] = UndefV]
      [] IsPairV(r.heap, r.v) -> Give([r EXCEPT !.heap[placeholder.n] = r.heap[r.v.n]], placeholder)
      [] OTHER -> [r EXCEPT !.labels[label + 1] = r.v,
                            !.heap = patch_placeholder(@, r.v, placeholder, r.v, 0)]
\* A placeholder has been made for the datum to come.
HeldFor(r, label) == Labelled(read_datum([r EXCEPT !.labels[label + 1] = r.v]), label, r.v)
LabelAt(r, label) ==
    CASE label >= MaxLabels -> fail(r)
      [] peek(r) = "#" -> IF r.labels[label + 1] = UndefV THEN fail(r)
                          ELSE Give(advance(r, 1), r.labels[label + 1])
      [] peek(r) = "=" -> HeldFor(Alloc(advance(r, 1), PairC(VoidV, NilV)), label)
      [] OTHER -> fail(r)
LabelTo(r, end) ==
    IF end = r.p THEN fail(r)
    ELSE LabelAt([r EXCEPT !.p = end], Numeral(SubSeq(r.s, r.p, end - 1), 10))
read_datum_label(r) == LabelTo(r, TokenEnd(r, r.p, Len(r.s), LAMBDA c : ~isdigit(c)))

Quote == <<"q", "u", "o", "t", "e">>
Quasiquote == <<"q", "u", "a", "s", "i">> \o Quote
Unquote == <<"u", "n">> \o Quote
UnquoteSplicing == Unquote \o <<"-", "s", "p", "l", "i", "c", "i", "n", "g">>

Dispatch(r) ==
    LET c == peek(r)
        n == peek_n(r, 1)
    IN  CASE ~Good(r) -> r
          [] c = "" -> [r EXCEPT !.st = "eof"]
          [] c = "(" -> read_list(r)
          [] c = "'" -> read_abbrev(advance(r, 1), Quote)
          [] c = "backquote" -> read_abbrev(advance(r, 1), Quasiquote)
          [] c = "," -> IF n = "@" THEN read_abbrev(advance(r, 2), UnquoteSplicing)
                        ELSE read_abbrev(advance(r, 1), Unquote)
          [] c = "\"" -> read_string(r)
          [] c = "|" -> read_delimited_identifier(r)
          [] c = "#" /\ n = "(" -> read_vector(advance(r, 1))
          [] c = "#" /\ n \in {"u", "U"} /\ peek_n(r, 2) = "8" /\ peek_n(r, 3) = "(" ->
               read_bytevector(advance(r, 1))
          [] c = "#" /\ isdigit(n) -> read_datum_label(advance(r, 1))
          [] is_ident_start(c) \/ isdigit(c) \/ c = "#" -> read_atom(r)
          [] OTHER -> fail(r)

read_datum(r) ==
    IF r.depth >= MaxNesting THEN fail(r)
    ELSE [Dispatch(skip_ws_and_comments([r EXCEPT !.depth = @ + 1])) EXCEPT !.depth = r.depth]

FirstDatum(r) ==
    CASE ~Good(r) -> r
      [] peek(r) = "" -> [r EXCEPT !.st = "eof"]
      [] OTHER -> read_datum(r)
ch_read_datum(s, cut) == FirstDatum(skip_ws_and_comments(ReaderOn(s, cut)))

-----------------------------------------------------------------------------
(* Data to write                                                              *)

\* The cells of a datum in the order a walk from v first meets them.
RECURSIVE VisitOrder(_, _, _)
VisitOrder(h, v, order) ==
    IF v.k # "ref" \/ contains_value(order, v) THEN order
    ELSE IF h[v.n].k = "bytes" THEN Append(order, v)
    ELSE FoldLeft(LAMBDA o, x : VisitOrder(h, x, o), Append(order, v), h[v.n].items)

\* Every datum of n cells that are numbered as a walk meets them, with the
\* symbol a for a leaf.
CellsOf(n) ==
    LET refs == {RefV(i) : i \in 1..n}
        cars == {SymV(<<"a">>)} \cup refs
    IN  {PairC(x, y) : x \in cars, y \in {NilV} \cup refs} \cup {VecC(<<x, y>>) : x \in cars, y \in cars}
Datums(n) == {h \in [1..n -> CellsOf(n)] : VisitOrder(h, RefV(1), <<>>) = [i \in 1..n |-> RefV(i)]}

\* The symbols and strings tried are made of these.
NameChars == {"a", "i", "n", "f", "+", "-", ".", "1", "|", "\\", " ", "#", "("}
Words == UNION {[1..n -> NameChars] : n \in 0..MaxName}
         \cup {<<s>> \o t : s \in Signs, t \in {<<"i", "n", "f">>, <<"n", "a", "n", ".", "0">>}}
         \cup {<<"C3", "A9">>, <<"a", "DEL">>, <<"BEL">>, <<"\n">>, <<"a", "\t", "\r">>}
Atoms == {SymV(s) : s \in Words} \cup {StrV(s) : s \in Words}
         \cup {ChrV(c) : c \in {"a", "x", "(", " ", "\n", "\t", "\r", "NUL", "ESC", "DEL", "e'"}}
         \cup {BoolV(b) : b \in BOOLEAN} \cup {NilV}
         \cup {NumV(ExactInt(n)) : n \in {0, 7, 120, -35}} \cup {NumV(Real("exact", -3, 25))}
SingleCells == {h \in {<<BytesC(<<>>)>>, <<BytesC(<<0, 255, 12>>)>>,
                  <<PairC(StrV(<<"a", ")">>), SymV(<<"|", ".">>)), VecC(<<>>)>>,
                  <<PairC(ChrV("("), RefV(2)), PairC(NumV(ExactInt(42)), SymV(<<".", "a">>))>>,
                  <<VecC(<<RefV(1), BoolV(TRUE), RefV(2)>>), BytesC(<<7>>)>>} : TRUE}

\* What may stand before a datum: blanks, comments and directives.
Blanks == {<<>>, <<" ", "\n">>, <<";", "(", "\n">>, <<"#", ";", "(", "a", " ", ".", " ", "b", ")">>,
           <<"#", ";", "#", ";", "a", " ", "\"", ")", "\"">>,
           <<"#", "|", "#", "|", "(", "|", "#", "\"", "|", "#">>,
           FoldCase \o <<"\n">>, FoldCase \o <<" ">> \o NoFoldCase \o <<" ">>, <<"#", "!", "a", "(", "\n">>,
           <<"#", ";", "#", "1", "=", "(", "#", "1", "#", ")">>}
Abbreviations == {[pre |-> <<"'">>, wrap |-> Quote], [pre |-> <<"backquote", " ">>, wrap |-> Quasiquote],
                  [pre |-> <<",">>, wrap |-> Unquote], [pre |-> <<",", "@">>, wrap |-> UnquoteSplicing]}
NoSurround == [pre |-> <<>>, wrap |-> <<>>]

\* Nothing is being written.
NoDatum == [idle |-> TRUE]

ReadWriteInit ==
    rw \in [h : UNION {Datums(n) : n \in 1..MaxCells}, v : {RefV(1)}, mode : {"write", "shared"}, in : {NoSurround}]
           \cup [h : {<<>>}, v : Atoms, mode : {"write"}, in : {NoSurround}]
           \cup [h : SingleCells \cup Datums(1), v : {RefV(1)}, mode : {"write"},
                 in : Abbreviations \cup {[pre |-> b, wrap |-> <<>>] : b \in Blanks}]

\* A datum up to the numbers of its cells.
NameIn(order, x) == IF x.k = "ref" THEN RefV(SelectInSeq(order, LAMBDA o : o = x)) ELSE x
NumberedAs(h, v, order) ==
    [root |-> NameIn(order, v),
     cells |-> [i \in 1..Len(order) |->
         LET c == h[order[i].n]
         IN  [k |-> c.k, items |-> IF c.k = "bytes" THEN c.items
                                   ELSE [j \in 1..Len(c.items) |-> NameIn(order, c.items[j])]]]]
NumberedByVisit(h, v) == NumberedAs(h, v, VisitOrder(h, v, <<>>))

\* Two data that no walk can tell apart: equal up to sharing.
RECURSIVE Alike(_, _, _, _, _)
Alike(h1, v1, h2, v2, met) ==
    IF v1.k # "ref" \/ v2.k # "ref" THEN v1 = v2
    ELSE \/ <<v1, v2>> \in met
         \/ LET a == h1[v1.n]
                b == h2[v2.n]
            IN  /\ a.k = b.k /\ Len(a.items) = Len(b.items)
                /\ \A i \in 1..Len(a.items) :
                      IF a.k = "bytes" THEN a.items[i] = b.items[i]
                      ELSE Alike(h1, a.items[i], h2, b.items[i], met \cup {<<v1, v2>>})

RECURSIVE HasCycle(_, _, _)
HasCycle(h, v, path) ==
    v.k = "ref" /\ h[v.n].k # "bytes"
    /\ (v \in path \/ \E i \in 1..Len(h[v.n].items) : HasCycle(h, h[v.n].items[i], path \cup {v}))

\* The symbols that are written without bars although the reader takes what
\* they start with for a number (reader.c:690-692), or strtod does.
TakenForNumber(v) ==
    /\ v.k = "sym" /\ Len(v.s) > 1
    /\ \/ v.s[1] \in Signs /\ v.s[2] \in {"i", "n"}
       \/ v.s \in {<<"i", "n", "f">>, <<"n", "a", "n">>}
PlainLeaves(h) == \A i \in 1..Len(h) : h[i].k # "bytes" /\ \A j \in 1..Len(h[i].items) :
                      h[i].items[j] \in {NilV, SymV(<<"a">>)} \/ h[i].items[j].k = "ref"
HasNumber(h, v) ==
    \/ v.k = "num"
    \/ \E i \in 1..Len(h) : h[i].k = "bytes" \/ \E j \in 1..Len(h[i].items) : h[i].items[j].k = "num"

\* The datum v that was read is the one that was written, with the abbreviation
\* before it.
SameDatum(h, v, r, mode) ==
    IF mode = "shared" THEN NumberedByVisit(r.heap, r.v) = NumberedByVisit(h, v)
    ELSE Alike(h, v, r.heap, r.v, {})
Returned(d, n, r) ==
    IF d.in.wrap = <<>> THEN SameDatum(d.h, d.v, r, d.mode)
    ELSE SameDatum(d.h \o <<PairC(SymV(d.in.wrap), RefV(n + 2)), PairC(d.v, NilV)>>, RefV(n + 1), r, d.mode)
ReadInFull(d, r, length) == Good(r) /\ r.p = length /\ Returned(d, Len(d.h), r)
TextReadsBack(d, text) ==
    \A cut \in (IF Len(d.h) < 2 /\ ~HasNumber(d.h, d.v) THEN 0..Len(text) ELSE {Len(text)}) :
        TakenForNumber(d.v) \/ ReadInFull(d, ch_read_datum(text, cut), Len(text))
DatumReadsBack(d, t) ==
    /\ TextReadsBack(d, d.in.pre \o t \o <<")">>)
    /\ d.mode = "write" =>
         /\ PlainLeaves(d.h) /\ d.h # <<>> => t = ch_print_value_mode(d.h, d.v, "display")
         /\ ~HasCycle(d.h, d.v, {}) => t = ch_print_value_mode(d.h, d.v, "simple")

\* What write or write-shared prints is read back as the same datum, whatever
\* blanks and comments precede it and wherever the port's buffer ends: with the
\* same sharing for write-shared, and equal for write, which labels nothing when
\* there is no cycle.  display marks cycles as write does, and the reader stops at
\* the end of the datum (printer.c, reader.c).  Left out are the symbols taken for
\* numbers and the numbers that the end of a buffer cuts.
ReadsBack == rw # NoDatum => DatumReadsBack(rw, ch_print_value_mode(rw.h, rw.v, rw.mode))
=============================================================================
