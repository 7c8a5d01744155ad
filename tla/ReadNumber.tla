----------------------------- MODULE ReadNumber -----------------------------
(* Numeric literals (src/src/reader_number.c) as the reader and string->number*)
(* parse them: prefixes, digit separators, fractions, decimals, hexadecimal   *)
(* floats and rectangular complex numbers.  A text is a sequence of one-      *)
(* character strings.  A double is the rational it stands for: the literals   *)
(* here are short enough to be represented without rounding.                  *)
EXTENDS Integers, Sequences, SequencesExt, FiniteSets, FiniteSetsExt

CONSTANTS LitDigits, \* characters the digits of a literal are drawn from
          MaxWhole,  \* bound: characters before the point
          MaxFrac,   \* bound: characters after the point
          StripCap,  \* bytes of strip_buf: 512
          ExpLimit   \* the exponent try_parse_exact_decimal gives up at: 1000

ASSUME ReadNumberAssumption ==
    /\ MaxWhole \in Nat /\ MaxFrac \in Nat /\ StripCap \in Nat /\ ExpLimit \in Nat

VARIABLE literal \* the literal being read: its parts

-----------------------------------------------------------------------------
(* Values                                                                     *)

RECURSIVE RatGcd(_, _)
RatGcd(m, n) == IF n = 0 THEN m ELSE RatGcd(n, m % n)
AbsOf(n) == IF n < 0 THEN -n ELSE n

NoNumber == [k |-> "none"]
OverGcd(k, n, d, g) == [k |-> k, n |-> n \div g, d |-> d \div g]
Real(k, n, d) ==
    OverGcd(k, IF d < 0 THEN -n ELSE n, AbsOf(d), RatGcd(AbsOf(n), AbsOf(d)))
ExactInt(n) == Real("exact", n, 1)
Infinite(s) == [k |-> "inf", n |-> s, d |-> 0]
NotANumber == [k |-> "nan", n |-> 0, d |-> 0]
IsNumber(v) == v.k # "none"

\* ch_make_rational: no value for a zero denominator.
make_rational(n, d) == IF d.n = 0 THEN NoNumber ELSE Real("exact", n.n, d.n)
Negated(v) == [v EXCEPT !.n = -@]
AsDouble(v) == IF v.k = "exact" THEN [v EXCEPT !.k = "flo"] ELSE v
exact_from_flonum(v) == [v EXCEPT !.k = "exact"]

ch_make_complex_raw(re, im) ==
    [k |-> "complex", re |-> re, im |-> im, xr |-> FALSE, xi |-> FALSE]
\* An exact zero imaginary part collapses to the real part.
ch_make_complex_ex(re, im, xr, xi) ==
    IF im.k = "flo" /\ im.n = 0 /\ xi
    THEN IF xr /\ re.k = "flo" THEN exact_from_flonum(re) ELSE re
    ELSE [k |-> "complex", re |-> re, im |-> im, xr |-> xr, xi |-> xi]

-----------------------------------------------------------------------------
(* Characters                                                                 *)

Signs == {"+", "-"}
HexDigits == <<"0", "1", "2", "3", "4", "5", "6", "7", "8", "9",
               "a", "b", "c", "d", "e", "f">>
HexCapitals == <<"A", "B", "C", "D", "E", "F">>
isdigit(c) == \E i \in 1..10 : HexDigits[i] = c
hex_digit(c) == Max({0} \cup {i \in 1..16 : HexDigits[i] = c \/ (i > 10 /\ HexCapitals[i - 10] = c)}) - 1
BelowBase(d, base) == IF d >= base THEN -1 ELSE d
digit_in_base(c, base) == BelowBase(hex_digit(c), base)

\* The text without its first n characters.
TextFrom(t, n) == SubSeq(t, n + 1, Len(t))
IsSigned(t) == t # <<>> /\ t[1] \in Signs
Unsigned(t) == IF IsSigned(t) THEN TextFrom(t, 1) ELSE t
DigitsIn(t, base) == \A i \in 1..Len(t) : digit_in_base(t[i], base) >= 0
Numeral(t, base) == FoldLeft(LAMBDA n, c : n * base + hex_digit(c), 0, t)

\* The text without its digit separators, or no text when one is misplaced.
DigitAt(t, i, base) == i \in 1..Len(t) /\ digit_in_base(t[i], base) >= 0
strip_underscores(t, base) ==
    [ok |-> \A i \in 1..Len(t) : t[i] = "_" =>
                StripCap >= Len(t) /\ \A j \in {i - 1, i + 1} : DigitAt(t, j, base),
     t |-> SelectSeq(t, LAMBDA c : c # "_")]

-----------------------------------------------------------------------------
(* Integers and decimals                                                      *)

PlainInt(s, base) ==
    IF s.ok /\ s.t # <<>> /\ DigitsIn(s.t, base) THEN ExactInt(Numeral(s.t, base)) ELSE NoNumber
parse_uint_base(t, base) == PlainInt(strip_underscores(t, base), base)

WithSign(m, t) == IF IsNumber(m) /\ t[1] = "-" THEN Negated(m) ELSE m
parse_signed_int_base(t, base) == WithSign(parse_uint_base(Unsigned(t), base), t)

try_parse_special_flonum(t) ==
    CASE t \in {<<s, "i", "n", "f", ".", "0">> : s \in Signs} -> Infinite(IF t[1] = "-" THEN -1 ELSE 1)
      [] t \in {<<s, "n", "a", "n", ".", "0">> : s \in Signs} -> NotANumber
      [] OTHER -> NoNumber

\* The parts of [sign] digits [. digits] [marker [sign] digits], for markers of
\* one character; ok says that nothing is left over.
RunEnd(b, i, base) ==
    CHOOSE j \in i..(Len(b) + 1) : /\ ~DigitAt(b, j, base)
                                   /\ \A q \in i..(j - 1) : DigitAt(b, q, base)
Points(b, w) == w <= Len(b) /\ b[w] = "."
NegText(t) == IsSigned(t) /\ t[1] = "-"
\* w and f end the runs of digits; e is what follows the marker, if there is one.
PartsFrom(neg, b, w, f, marked, e) ==
    [neg |-> neg, whole |-> SubSeq(b, 1, w - 1), frac |-> SubSeq(b, w + 1, f - 1),
     exp |-> Numeral(Unsigned(e), 10) * (IF NegText(e) THEN -1 ELSE 1),
     ok |-> /\ w > 1 \/ f > w + 1
            /\ IF marked THEN Unsigned(e) # <<>> /\ DigitsIn(Unsigned(e), 10) ELSE f = Len(b) + 1]
PartsTo(neg, b, w, f, markers) ==
    IF f <= Len(b) /\ b[f] \in markers THEN PartsFrom(neg, b, w, f, TRUE, TextFrom(b, f))
    ELSE PartsFrom(neg, b, w, f, FALSE, <<>>)
PartsOf(neg, b, w, base, markers) ==
    PartsTo(neg, b, w, IF Points(b, w) THEN RunEnd(b, w + 1, base) ELSE w, markers)
Parts10(t, base, markers) ==
    PartsOf(NegText(t), Unsigned(t), RunEnd(Unsigned(t), 1, base), base, markers)

ByPower(k, m, d, radix, exp) ==
    IF exp >= 0 THEN Real(k, m * radix ^ exp, d) ELSE Real(k, m, d * radix ^ (-exp))
Scaled(k, p, base, radix) ==
    ByPower(k, Numeral(p.whole \o p.frac, base) * (IF p.neg THEN -1 ELSE 1),
            base ^ Len(p.frac), radix, p.exp)

\* strtod of the C library, given what parse_decimal_real passes it.
DoubleFrom(p) == IF p.ok THEN Scaled("flo", p, 10, 10) ELSE NoNumber
strtod(t) ==
    CASE Unsigned(t) \in {<<"i", "n", "f">>, <<"i", "n", "f", "i", "n", "i", "t", "y">>} ->
           Infinite(IF NegText(t) THEN -1 ELSE 1)
      [] Unsigned(t) = <<"n", "a", "n">> -> NotANumber
      [] OTHER -> DoubleFrom(Parts10(t, 10, {"e"}))

Markers == {"e", "s", "f", "d", "l"}
CharAt(b, i) == IF i <= Len(b) THEN b[i] ELSE ""
MarksExponent(b, i) ==
    /\ b[i] \in Markers
    /\ isdigit(CharAt(b, i + 1)) \/ (CharAt(b, i + 1) \in Signs /\ isdigit(CharAt(b, i + 2)))
DecimalFrom(s) ==
    IF ~s.ok THEN NoNumber
    ELSE strtod(<<>> \o [i \in 1..Len(s.t) |-> IF MarksExponent(s.t, i) THEN "e" ELSE s.t[i]])
parse_decimal_real(t) ==
    CASE t = <<>> -> NoNumber
      [] IsNumber(try_parse_special_flonum(t)) -> try_parse_special_flonum(t)
      [] OTHER -> DecimalFrom(strip_underscores(t, 10))

\* For #e: the decimal as a rational, which no double rounds.
ExactFrom(ok, p) ==
    IF ok /\ p.ok /\ p.exp <= ExpLimit /\ -p.exp <= ExpLimit THEN Scaled("exact", p, 10, 10) ELSE NoNumber
ExactOf(s) == ExactFrom(s.ok, Parts10(s.t, 10, {"e"}))
exact_decimal(t) == ExactOf(strip_underscores(t, 10))

looks_like_hex_float(t) ==
    LET b == Unsigned(t)
        Past(i) == digit_in_base(b[i], 16) >= 0 \/ b[i] = "_"
    IN  \E i \in 1..Len(b) : b[i] \in {".", "p"} /\ \A j \in 1..(i - 1) : Past(j)

HexFrom(ok, p) == IF ok /\ p.ok THEN Scaled("flo", p, 16, 2) ELSE NoNumber
HexOf(s) == HexFrom(s.ok, Parts10(s.t, 16, {"p"}))
try_parse_hex_float(t) == HexOf(strip_underscores(t, 16))

-----------------------------------------------------------------------------
(* Numbers                                                                    *)

RECURSIVE in_base(_, _)

RealOnly(v) == IF v.k = "complex" THEN NoNumber ELSE AsDouble(v)
try_parse_real_f64(t) == IF t = <<>> THEN NoNumber ELSE RealOnly(in_base(t, 10))

part_text_is_inexact(t) == \E i \in 1..Len(t) : t[i] \in Markers \cup {"."}
imag_literal_is_inexact(t) == Len(t) > 1 /\ \E i \in 1..Len(t) : t[i] \in {".", "e"}

One(c) == Real("flo", IF c = "+" THEN 1 ELSE -1, 1)

\* Slip: the first sign separates the parts.
SplitAt_First(t) ==
    LET at == {j \in 2..(Len(t) - 1) : t[j] \in Signs} IN IF at = {} THEN 0 ELSE Min(at) - 1

\* Where the imaginary part starts: at the last sign that does not lead; 0 when
\* there is none.
SplitAt(t) ==
    LET at == {j \in 2..(Len(t) - 1) : t[j] \in Signs} IN IF at = {} THEN 0 ELSE Max(at) - 1

Rectangular(re, im, r, m) ==
    CASE ~IsNumber(r) \/ ~IsNumber(m) -> NoNumber
      [] m.k = "flo" /\ m.n = 0 /\ imag_literal_is_inexact(im) -> ch_make_complex_raw(r, m)
      [] OTHER -> ch_make_complex_ex(r, m, ~part_text_is_inexact(re), ~part_text_is_inexact(im))
PartsAt(re, im) ==
    Rectangular(re, im,
                IF re = <<>> THEN Real("flo", 0, 1) ELSE try_parse_real_f64(re),
                IF re # <<>> /\ Len(im) = 1 THEN One(im[1]) ELSE try_parse_real_f64(im))
ComplexAt(t, split) == PartsAt(SubSeq(t, 1, split), SubSeq(t, split + 1, Len(t) - 1))
try_parse_complex(t) ==
    CASE Len(t) < 2 \/ Last(t) \notin {"i", "I"} -> NoNumber
      [] Len(t) = 2 /\ t[1] \in Signs -> ch_make_complex_ex(Real("flo", 0, 1), One(t[1]), TRUE, TRUE)
      [] OTHER -> ComplexAt(t, SplitAt(t))

Fraction(n, d) == IF IsNumber(n) /\ IsNumber(d) THEN make_rational(n, d) ELSE NoNumber
FractionAt(t, slash, base) ==
    Fraction(parse_signed_int_base(SubSeq(t, 1, slash - 1), base),
             parse_signed_int_base(TextFrom(t, slash), base))
IntOrDecimal(t, s) ==
    IF ~s.ok THEN NoNumber
    ELSE IF Unsigned(s.t) # <<>> /\ DigitsIn(Unsigned(s.t), 10) THEN parse_signed_int_base(s.t, 10)
    ELSE parse_decimal_real(t)
RealInBase(t, base) ==
    CASE base = 16 /\ looks_like_hex_float(t) -> try_parse_hex_float(t)
      [] Contains(t, "/") -> FractionAt(t, Min({i \in 1..Len(t) : t[i] = "/"}), base)
      [] base = 10 -> IntOrDecimal(t, strip_underscores(t, 10))
      [] OTHER -> parse_signed_int_base(t, base)
FirstNumber(z, t, base) == IF IsNumber(z) THEN z ELSE RealInBase(t, base)
in_base(t, base) ==
    CASE IsNumber(try_parse_special_flonum(t)) -> try_parse_special_flonum(t)
      [] t \in {<<"+">>, <<"-">>, <<".">>, <<>>} -> NoNumber
      [] OTHER -> FirstNumber(IF base = 10 THEN try_parse_complex(t) ELSE NoNumber, t, base)

\* The stacked prefixes of a text: the last of each sort counts.
RECURSIVE Prefixed(_, _)
Prefixed(t, p) ==
    LET rest == TextFrom(t, 2)
    IN  CASE Len(t) < 2 \/ t[1] # "#" -> [p EXCEPT !.body = t]
          [] t[2] \in {"e", "i"} -> Prefixed(rest, [p EXCEPT !.force = t[2]])
          [] t[2] = "b" -> Prefixed(rest, [p EXCEPT !.base = 2])
          [] t[2] = "o" -> Prefixed(rest, [p EXCEPT !.base = 8])
          [] t[2] = "d" -> Prefixed(rest, [p EXCEPT !.base = 10])
          [] t[2] = "x" -> Prefixed(rest, [p EXCEPT !.base = 16])
          [] OTHER -> [p EXCEPT !.body = t]

Forced(v, force) ==
    CASE force = "i" /\ v.k = "exact" -> AsDouble(v)
      [] force = "e" /\ v.k = "flo" -> exact_from_flonum(v)
      [] force = "e" /\ v.k = "complex" -> ch_make_complex_ex(v.re, v.im, TRUE, TRUE)
      [] force = "i" /\ v.k = "complex" -> ch_make_complex_raw(v.re, v.im)
      [] OTHER -> v
ExactOrForced(x, p) == IF IsNumber(x) THEN x ELSE Forced(in_base(p.body, p.base), p.force)
Unprefixed(p) ==
    IF p.body = <<>> THEN NoNumber
    ELSE ExactOrForced(IF p.force = "e" /\ p.base = 10 THEN exact_decimal(p.body) ELSE NoNumber, p)
try_parse_number(t) == Unprefixed(Prefixed(t, [force |-> "", base |-> 10, body |-> t]))

-----------------------------------------------------------------------------
(* Literals                                                                   *)

\* A real literal: sign, digits, a point and its digits, an exponent marker with
\* its sign and digit, a denominator.
DigitRuns(n) == UNION {[1..i -> LitDigits] : i \in 0..n}
NoExp == [mark |-> "", sign |-> "", digit |-> ""]
Exps(marks) == {NoExp} \cup [mark : marks, sign : {"", "-", "+"}, digit : {"", "1"}]
RealLit(sign, whole, dot, frac, exp, den) ==
    [sign |-> sign, whole |-> whole, dot |-> dot, frac |-> frac, exp |-> exp, den |-> den]
IntLit(sign, whole) == RealLit(sign, whole, FALSE, <<>>, NoExp, "")
NoImag == RealLit("", <<>>, FALSE, <<>>, NoExp, "")

RadixPrefixes == {<<>>, <<"e">>, <<"i">>, <<"x">>, <<"b">>, <<"e", "x">>, <<"x", "i">>}
Decimals == {<<>>, <<"e">>, <<"i">>}
ShortWholes == {<<"1">>, <<"0">>, <<"5">>}

Literals ==
    LET Lit(pre, re, im) == [pre |-> pre, re |-> re, im |-> im]
        S == {"", "+", "-"}
        ImParts == {IntLit(s, w) : s \in Signs, w \in {<<>>, <<"0">>, <<"5">>}}
                   \cup {RealLit(s, <<"0">>, TRUE, f, NoExp, "") : s \in Signs, f \in {<<"0">>, <<"5">>}}
    IN  {Lit(p, IntLit(s, w), NoImag) : p \in RadixPrefixes, s \in S, w \in DigitRuns(MaxWhole)}
        \cup {Lit(p, RealLit(s, w, TRUE, f, e, ""), NoImag) :
                 p \in Decimals, s \in {"", "-"}, w \in DigitRuns(1), f \in DigitRuns(MaxFrac), e \in Exps({"e"})}
        \cup {Lit(p, RealLit("-", w, d, f, e, ""), NoImag) : p \in {<<"x">>, <<"e", "x">>},
                 w \in DigitRuns(1), d \in {TRUE}, f \in DigitRuns(1), e \in Exps({"p"})}
        \cup {Lit(p, RealLit("", <<"5">>, FALSE, <<>>, e, ""), NoImag) : p \in Decimals, e \in Exps(Markers)}
        \cup {Lit(p, RealLit(s, w, FALSE, <<>>, NoExp, n), NoImag) :
                 p \in RadixPrefixes, s \in S, w \in DigitRuns(2), n \in {"0", "2"}}
        \cup {Lit(p, RealLit(s, w, d, IF d THEN <<"5">> ELSE <<>>, e, ""), m) :
                 p \in Decimals, s \in {"", "-"}, w \in ShortWholes, d \in BOOLEAN, e \in Exps({"e"}), m \in ImParts}
        \cup {Lit(p, NoImag, m) : p \in Decimals, m \in ImParts}

\* Nothing is being read.
NoLiteral == [idle |-> TRUE]

ReadNumberInit == literal \in Literals

RealText(r) ==
    LET Opt(c) == IF c = "" THEN <<>> ELSE <<c>>
    IN  Opt(r.sign) \o r.whole \o (IF r.dot THEN <<".">> ELSE <<>>) \o r.frac
        \o Opt(r.exp.mark) \o Opt(r.exp.sign) \o Opt(r.exp.digit)
        \o (IF r.den = "" THEN <<>> ELSE <<"/", r.den>>)
LiteralText(l) ==
    FlattenSeq([i \in 1..Len(l.pre) |-> <<"#", l.pre[i]>>]) \o RealText(l.re)
    \o (IF l.im = NoImag THEN <<>> ELSE RealText(l.im) \o <<"i">>)

\* What a literal stands for, by the grammar of R7RS 7.1.1 with the separators
\* of SRFI 169 and the hexadecimal floats of SRFI 270.
HasPrefix(l, c) == \E i \in 1..Len(l.pre) : l.pre[i] = c
BaseOf(l) == IF HasPrefix(l, "x") THEN 16 ELSE IF HasPrefix(l, "b") THEN 2 ELSE 10
WellFormedRun(t, base) ==
    \A i \in 1..Len(t) :
        IF t[i] = "_" THEN /\ i > 1 /\ i < Len(t)
                           /\ \A j \in {i - 1, i + 1} : hex_digit(t[j]) \in 0..(base - 1)
        ELSE hex_digit(t[i]) \in 0..(base - 1)
WellFormedReal(r, base) ==
    /\ WellFormedRun(r.whole, base) /\ WellFormedRun(r.frac, base)
    /\ r.whole \o r.frac # <<>>
    /\ r.exp # NoExp => r.exp.digit # ""
    /\ r.den # "" => r.den # "0" /\ hex_digit(r.den) < base
Ascending(t, base) ==
    LET d == SelectSeq(t, LAMBDA c : c # "_")
    IN  FoldFunction(LAMBDA a, b : a + b, 0,
                     [i \in 1..Len(d) |-> hex_digit(d[i]) * base ^ (Len(d) - i)])
RealValue(r, base) ==
    LET f == Len(SelectSeq(r.frac, LAMBDA c : c # "_"))
        radix == IF base = 16 THEN 2 ELSE 10
        up == r.exp # NoExp /\ r.exp.sign # "-"
        down == r.exp # NoExp /\ r.exp.sign = "-"
    IN  Real("flo", (IF r.sign = "-" THEN -1 ELSE 1) * (IF up THEN radix ELSE 1)
                       * (Ascending(r.whole, base) * base ^ f + Ascending(r.frac, base)),
                    base ^ f * (IF down THEN radix ELSE 1) * (IF r.den = "" THEN 1 ELSE hex_digit(r.den)))
InexactLit(r) == r.dot \/ r.exp # NoExp

ExactPart(l, r) == HasPrefix(l, "e") \/ (~HasPrefix(l, "i") /\ ~InexactLit(r))
IsUnit(r) == r.whole = <<>> /\ ~r.dot
Malformed(l, base) ==
    \/ (l.im = NoImag \/ l.re # NoImag) /\ ~WellFormedReal(l.re, base)
    \/ l.im # NoImag /\ ~IsUnit(l.im) /\ ~WellFormedReal(l.im, base)
Denoted(l, re, im) ==
    CASE l.im = NoImag \/ (im.n = 0 /\ (HasPrefix(l, "e") \/ ~InexactLit(l.im))) ->
           [re EXCEPT !.k = IF ExactPart(l, l.re) THEN "exact" ELSE "flo"]
      [] im.n = 0 /\ ~HasPrefix(l, "e") /\ InexactLit(l.im) -> ch_make_complex_raw(re, im)
      [] OTHER -> [k |-> "complex", re |-> re, im |-> im, xr |-> ExactPart(l, l.re), xi |-> ExactPart(l, l.im)]
Denotation(l) ==
    IF Malformed(l, BaseOf(l)) THEN NoNumber
    ELSE Denoted(l, IF l.re = NoImag THEN Real("flo", 0, 1) ELSE RealValue(l.re, BaseOf(l)),
                    IF IsUnit(l.im) THEN One(l.im.sign) ELSE RealValue(l.im, BaseOf(l)))

\* Every literal is read as the number it stands for, exactness included, and a
\* text with a misplaced separator, a digit beyond its base, an empty exponent or
\* a zero denominator as none.
LiteralsDenote ==
    literal # NoLiteral => try_parse_number(LiteralText(literal)) = Denotation(literal)
=============================================================================
