------------------------------- MODULE Numbers -------------------------------
(* Exact arithmetic: bignum.c, rational.c and the exact half of prim_core.c   *)
(* and prim_math.c.                                                           *)
(*                                                                            *)
(* An exact integer is a fixnum or a bignum, a sign and a magnitude in limbs  *)
(* (the least significant first).  The code has limbs of 64 bits and fixnums  *)
(* of 48; the constants scale both down, and the digit rounds of the long     *)
(* division (256 in the code, for a digit below 2^64) with them.              *)
(*                                                                            *)
(* view_of returns a pointer to a field of its own dead frame; what a later   *)
(* read finds there is the compiler's choice: slot is "kept" when the frame's *)
(* slot still holds the magnitude and "lost" when it does not.                *)
(*                                                                            *)
(* Flonums, and with them complex numbers, rounding and the inexact arms of   *)
(* the primitives, are left out; a flonum occurs only where exact reads its   *)
(* mantissa and exponent.                                                     *)
EXTENDS Integers, Sequences, FiniteSets, SequencesExt

CONSTANTS LimbBits,     \* 64 in the code
          FixBits,      \* 47: fixnums are -2^47 .. 2^47 - 1
          GuardMax,     \* 256: rounds for one digit of a quotient
          Radix,        \* 10: the radix of decimal texts
          ChunkDigits,  \* 9: digits to_string takes out at a time
          BufDigits,    \* 511: digits exact_int_to_radix_string has room for
          Dividends, Divisors, Mantissas, Exponents, \* operands, up to sign
          Parts         \* of rationals: the long divisions their reductions need
                        \* find every digit within GuardMax rounds

ASSUME NumbersAssumption ==
    /\ {LimbBits, FixBits, GuardMax, Radix, ChunkDigits, BufDigits} \subseteq Nat \ {0}
    /\ FixBits < LimbBits /\ Radix > 1 /\ Radix ^ ChunkDigits < 2 ^ LimbBits
    /\ Dividends \cup Divisors \cup Parts \cup Exponents \cup Mantissas \subseteq Nat

VARIABLE nums    \* the operands of one call, and what became of view_of's slot

Limb == 2 ^ LimbBits
CH_FIXNUM_MIN == -(2 ^ FixBits)
CH_FIXNUM_MAX == 2 ^ FixBits - 1
Undefined == [k |-> "undefined"]
Fix(n) == [k |-> "fix", n |-> n]
Zeros(n) == << >> \o [i \in 1..n |-> 0]
At(s, i) == IF i \in DOMAIN s THEN s[i] ELSE 0
Sign(b) == IF b THEN 1 ELSE -1
Magnitude(n) == IF n < 0 THEN -n ELSE n

----------------------------------------------------------------------------
(* Magnitudes.                                                               *)

\* Leading zeros are dropped.
normalize_limbs(s) == SubSeq(s, 1, Max({0} \cup {i \in DOMAIN s : s[i] # 0}))

fits_fixnum_mag(s, positive) ==
    \/ s = << >>
    \/ Len(s) = 1 /\ s[1] <= IF positive THEN CH_FIXNUM_MAX ELSE 2 ^ FixBits

DecidedAt(a, b, i) == IF i = 0 THEN 0 ELSE IF a[i] > b[i] THEN 1 ELSE -1
cmp_mag(a, b) ==
    IF Len(a) # Len(b) THEN Sign(Len(a) > Len(b))
    ELSE DecidedAt(a, b, Max({0} \cup {i \in DOMAIN a : a[i] # b[i]}))

\* rem against den shifted up by s limbs.
cmp_mag_shifted(rem, den, s) ==
    CASE Len(rem) < Len(den) + s -> -1
      [] Len(rem) > Len(den) + s -> 1
      [] OTHER -> cmp_mag(SubSeq(rem, s + 1, Len(rem)), den)

\* The last carry is a limb of its own.
Carried(out) == IF out.carry # 0 THEN Append(out.r, out.carry) ELSE out.r

add_mag(a, b) ==
    Carried(FoldLeftDomain(LAMBDA acc, i :
                [r |-> Append(acc.r, (acc.carry + At(a, i) + At(b, i)) % Limb),
                 carry |-> (acc.carry + At(a, i) + At(b, i)) \div Limb],
            [r |-> << >>, carry |-> 0], IF Len(a) > Len(b) THEN a ELSE b))

\* |a| >= |b|.
Borrow(r, d) ==
    IF d >= 0 THEN [r |-> Append(r, d), borrow |-> 0] ELSE [r |-> Append(r, Limb + d), borrow |-> 1]
sub_mag(a, b) ==
    normalize_limbs(FoldLeftDomain(LAMBDA acc, i : Borrow(acc.r, a[i] - At(b, i) - acc.borrow),
                                   [r |-> << >>, borrow |-> 0], a).r)

mul_mag_scalar(den, k) ==
    normalize_limbs(Carried(
        FoldLeft(LAMBDA acc, d : [r |-> Append(acc.r, (d * k + acc.carry) % Limb),
                                  carry |-> (d * k + acc.carry) \div Limb],
                 [r |-> << >>, carry |-> 0], den)))

\* Row i adds a[i] times b at limb i; its last carry lands on a limb no row
\* has reached yet.
PutLimb(acc, at, prod) == [r |-> [acc.r EXCEPT ![at] = prod % Limb], carry |-> prod \div Limb]
CarriedAt(out, at) == IF out.carry # 0 THEN [out.r EXCEPT ![at] = (@ + out.carry) % Limb] ELSE out.r
MulRow(a, b, r, i) ==
    CarriedAt(FoldLeftDomain(LAMBDA acc, j :
                  PutLimb(acc, i + j - 1, a[i] * b[j] + acc.r[i + j - 1] + acc.carry),
              [r |-> r, carry |-> 0], b), i + Len(b))
mul_mag(a, b) ==
    IF a = << >> \/ b = << >> THEN << >>
    ELSE normalize_limbs(FoldLeftDomain(LAMBDA r, i : MulRow(a, b, r, i), Zeros(Len(a) + Len(b)), a))

\* rem less k times den shifted up by s limbs, or a refusal.
SubShifted(rem, prod, s) ==
    IF cmp_mag_shifted(rem, prod, s) < 0 THEN [ok |-> FALSE, rem |-> rem]
    ELSE [ok |-> TRUE, rem |-> sub_mag(rem, Zeros(s) \o prod)]
sub_scaled_shifted(rem, den, s, k) ==
    IF k = 0 THEN [ok |-> TRUE, rem |-> rem] ELSE SubShifted(rem, mul_mag_scalar(den, k), s)

\* A guess at the next digit from the two top limbs of each side, wherever
\* they stand.
TopLimb(m) == IF Len(m) >= 2 THEN m[Len(m)] * Limb + m[Len(m) - 1] ELSE m[Len(m)]
estimate_quotient_digit(rem, den, s) ==
    IF den = << >> \/ Len(rem) <= s THEN 1
    ELSE Max({1, Min({TopLimb(rem) \div TopLimb(den), Limb - 1})})

mag_is_pow2(den) ==
    /\ Cardinality({i \in DOMAIN den : den[i] # 0}) = 1
    /\ \A i \in DOMAIN den : den[i] # 0 => \E e \in 0..(LimbBits - 1) : den[i] = 2 ^ e

Pow2Exp(den) ==
    LET i == CHOOSE i \in DOMAIN den : den[i] # 0
    IN  (i - 1) * LimbBits + CHOOSE e \in 0..(LimbBits - 1) : den[i] = 2 ^ e

ShiftLimbs(s, rbits) ==
    normalize_limbs([i \in DOMAIN s |->
        (s[i] \div 2 ^ rbits) + ((At(s, i + 1) * 2 ^ (LimbBits - rbits)) % Limb)])
mag_shift_right_copy(num, bits) ==
    ShiftLimbs(SubSeq(num, bits \div LimbBits + 1, Len(num)), bits % LimbBits)

\* Slip: the top limb is masked even when fewer limbs than the modulus remain.
Masked_Mask(s, rbits, bits) ==
    normalize_limbs(IF rbits # 0 /\ s # << >> THEN [s EXCEPT ![Len(s)] = @ % 2 ^ rbits] ELSE s)

\* The top limb is masked when it is the one the modulus cuts.
Masked(s, rbits, bits) ==
    normalize_limbs(IF rbits # 0 /\ Len(s) * LimbBits > bits THEN [s EXCEPT ![Len(s)] = @ % 2 ^ rbits] ELSE s)
mag_mod_pow2(num, bits) ==
    Masked(SubSeq(num, 1, Min({Len(num), (bits + LimbBits - 1) \div LimbBits})), bits % LimbBits, bits)

\* One limb of divisor: a digit of the quotient per limb, from the top.
DivByLimb(num, d) ==
    FoldRight(LAMBDA limb, acc : [q |-> <<(acc.r * Limb + limb) \div d>> \o acc.q,
                                  r |-> (acc.r * Limb + limb) % d],
              num, [q |-> << >>, r |-> 0])

\* The largest multiple of den that fits under rem, searched below the guess.
RECURSIVE LargestFit(_, _, _, _, _)
LargestFit(rem, den, s, lo, hi) ==
    LET mid == lo + (hi - lo + 1) \div 2
    IN  IF lo >= hi THEN lo
        ELSE IF cmp_mag_shifted(rem, mul_mag_scalar(den, mid), s) >= 0
             THEN LargestFit(rem, den, s, mid, hi)
             ELSE LargestFit(rem, den, s, lo, mid - 1)

\* At most GuardMax subtractions at one digit.
RECURSIVE DigitRounds(_, _, _, _), Subtracted(_, _, _, _, _), NextRound(_, _, _, _, _, _)
DigitRounds(st, den, s, guard) ==
    IF guard = 0 \/ cmp_mag_shifted(st.r, den, s) < 0 THEN st
    ELSE Subtracted(st, den, s, guard,
                    LargestFit(st.r, den, s, 0, estimate_quotient_digit(st.r, den, s)))
Subtracted(st, den, s, guard, lo) == NextRound(st, den, s, guard, lo, sub_scaled_shifted(st.r, den, s, lo))
NextRound(st, den, s, guard, lo, sub) ==
    IF lo = 0 \/ ~sub.ok THEN st
    ELSE DigitRounds([q |-> [st.q EXCEPT ![s + 1] = (@ + lo) % Limb], r |-> sub.rem], den, s, guard - 1)

\* Quotient and remainder of two magnitudes.
Normalized(out) == [q |-> normalize_limbs(out.q), r |-> normalize_limbs(out.r)]
LongDivision(num, den, digits) ==
    FoldRight(LAMBDA shift, st : DigitRounds(st, den, shift - 1, GuardMax),
              [i \in 1..digits |-> i], [q |-> Zeros(digits), r |-> num])
LimbAsMag(out) == [q |-> out.q, r |-> <<out.r>>]
div_mag(num, den) ==
    IF mag_is_pow2(den)
    THEN [q |-> mag_shift_right_copy(num, Pow2Exp(den)), r |-> mag_mod_pow2(num, Pow2Exp(den))]
    ELSE IF cmp_mag(num, den) < 0 THEN [q |-> << >>, r |-> num]
    ELSE Normalized(IF Len(den) = 1 THEN LimbAsMag(DivByLimb(num, den[1]))
                    ELSE LongDivision(num, den, Len(num) - Len(den) + 1))

----------------------------------------------------------------------------
(* Integers.                                                                 *)

\* The sign and the limbs of an integer; a fixnum's are read back from the
\* dead frame of this very function.
view_of(v) ==
    CASE v.k = "big" -> [limbs |-> v.limbs, positive |-> v.positive]
      [] v.n = 0     -> [limbs |-> << >>, positive |-> TRUE]
      [] OTHER       -> [limbs |-> << IF nums.slot = "kept" THEN Magnitude(v.n) ELSE 0 >>,
                         positive |-> v.n > 0]

BignumFrom(m, positive) == [k |-> "big", limbs |-> m, positive |-> positive \/ m = << >>]
ch_gc_make_bignum_from_limbs(s, positive) == BignumFrom(normalize_limbs(s), positive)

NormalFrom(m, positive) ==
    IF fits_fixnum_mag(m, positive) THEN Fix(Sign(positive) * At(m, 1))
    ELSE [k |-> "big", limbs |-> m, positive |-> positive]
make_from_mag(s, positive) == NormalFrom(normalize_limbs(s), positive)

ch_make_integer(n) ==
    IF n \in CH_FIXNUM_MIN..CH_FIXNUM_MAX THEN Fix(n) ELSE ch_gc_make_bignum_from_limbs(<<Magnitude(n)>>, n > 0)

ch_value_from_u64(n) ==
    IF n <= CH_FIXNUM_MAX THEN Fix(n) ELSE ch_gc_make_bignum_from_limbs(<<n>>, TRUE)

ch_bignum_normalize(v) == IF v.k = "fix" THEN v ELSE make_from_mag(v.limbs, v.positive)

CompareViews(va, vb) ==
    IF va.limbs = << >> /\ vb.limbs = << >> THEN 0
    ELSE IF va.positive # vb.positive THEN Sign(va.positive)
    ELSE Sign(va.positive) * cmp_mag(va.limbs, vb.limbs)
ch_bignum_compare(a, b) == CompareViews(view_of(a), view_of(b))

\* A bignum's negation stays a bignum.
ch_bignum_negate(a) ==
    CASE a.k = "fix" /\ a.n = CH_FIXNUM_MIN -> ch_gc_make_bignum_from_limbs(<<2 ^ FixBits>>, TRUE)
      [] a.k = "fix" /\ a.n # CH_FIXNUM_MIN -> Fix(-a.n)
      [] a.k = "big" -> IF a.limbs = << >> THEN Fix(0)
                        ELSE ch_gc_make_bignum_from_limbs(a.limbs, ~a.positive)

ch_bignum_abs(a) ==
    CASE a.k = "fix" /\ a.n = CH_FIXNUM_MIN -> ch_gc_make_bignum_from_limbs(<<2 ^ FixBits>>, TRUE)
      [] a.k = "fix" /\ a.n # CH_FIXNUM_MIN -> Fix(Magnitude(a.n))
      [] a.k = "big" -> IF a.positive \/ a.limbs = << >> THEN a
                        ELSE ch_gc_make_bignum_from_limbs(a.limbs, TRUE)

SubViews(v, w) == make_from_mag(sub_mag(v.limbs, w.limbs), v.positive)
AddViews(va, vb) ==
    IF va.positive = vb.positive THEN make_from_mag(add_mag(va.limbs, vb.limbs), va.positive)
    ELSE CASE cmp_mag(va.limbs, vb.limbs) = 0  -> Fix(0)
           [] cmp_mag(va.limbs, vb.limbs) = 1  -> SubViews(va, vb)
           [] cmp_mag(va.limbs, vb.limbs) = -1 -> SubViews(vb, va)
ch_bignum_add(a, b) == AddViews(view_of(a), view_of(b))

ch_bignum_sub(a, b) == ch_bignum_add(a, ch_bignum_negate(b))

MulViews(va, vb) == make_from_mag(mul_mag(va.limbs, vb.limbs), va.positive = vb.positive)
ch_bignum_mul(a, b) == MulViews(view_of(a), view_of(b))

QuotientViews(va, vb) ==
    IF vb.limbs = << >> THEN Undefined
    ELSE make_from_mag(div_mag(va.limbs, vb.limbs).q, va.positive = vb.positive)
ch_bignum_quotient(a, b) == QuotientViews(view_of(a), view_of(b))

RemainderViews(va, vb) ==
    IF vb.limbs = << >> THEN Undefined
    ELSE make_from_mag(div_mag(va.limbs, vb.limbs).r, va.positive)
ch_bignum_remainder(a, b) == RemainderViews(view_of(a), view_of(b))

is_zero_int(v) == ch_bignum_compare(v, Fix(0)) = 0
is_one_int(v) == ch_bignum_compare(v, Fix(1)) = 0
is_neg_int(v) == ch_bignum_compare(v, Fix(0)) < 0

RECURSIVE GcdLoop(_, _)
GcdLoop(x, y) ==
    IF is_zero_int(y) THEN x ELSE GcdLoop(y, ch_bignum_abs(ch_bignum_remainder(x, y)))

ch_bignum_gcd(a, b) == GcdLoop(ch_bignum_abs(a), ch_bignum_abs(b))

----------------------------------------------------------------------------
(* Rationals.                                                                *)

IsRational(v) == v.k = "rat"

\* ch_exact_parts: the numerator and the denominator of any exact number.
Num(v) == IF IsRational(v) THEN v.num ELSE v
Den(v) == IF IsRational(v) THEN v.den ELSE Fix(1)

\* Lowest terms, a positive denominator, and an integer when it is one.
Facing(v, neg) == IF neg THEN ch_bignum_negate(v) ELSE v
RatioOf(n, d) == IF is_one_int(d) THEN n ELSE [k |-> "rat", num |-> n, den |-> d]
Reduced(n, d, g) == RatioOf(ch_bignum_quotient(n, g), ch_bignum_quotient(d, g))
LowestTerms(n, d, g) == IF is_zero_int(g) \/ is_one_int(g) THEN RatioOf(n, d) ELSE Reduced(n, d, g)
InLowest(n, d) == LowestTerms(n, d, ch_bignum_gcd(n, d))
ch_make_rational(num, den) ==
    IF is_zero_int(den) THEN Undefined
    ELSE IF is_zero_int(num) THEN Fix(0)
    ELSE InLowest(Facing(num, is_neg_int(den)), Facing(den, is_neg_int(den)))

ch_exact_negate(a) ==
    IF IsRational(a) THEN ch_make_rational(ch_bignum_negate(a.num), a.den) ELSE ch_bignum_negate(a)

ch_exact_abs(a) ==
    IF IsRational(a) THEN ch_make_rational(ch_bignum_abs(a.num), a.den) ELSE ch_bignum_abs(a)

ch_exact_add(a, b) ==
    ch_make_rational(ch_bignum_add(ch_bignum_mul(Num(a), Den(b)), ch_bignum_mul(Num(b), Den(a))),
                     ch_bignum_mul(Den(a), Den(b)))

ch_exact_sub(a, b) == ch_exact_add(a, ch_exact_negate(b))

ch_exact_mul(a, b) ==
    ch_make_rational(ch_bignum_mul(Num(a), Num(b)), ch_bignum_mul(Den(a), Den(b)))

ch_exact_div(a, b) ==
    IF is_zero_int(Num(b)) THEN Undefined ELSE ch_exact_mul(a, ch_make_rational(Den(b), Num(b)))

ch_exact_compare(a, b) ==
    IF ~IsRational(a) /\ ~IsRational(b) THEN ch_bignum_compare(a, b)
    ELSE ch_bignum_compare(ch_bignum_mul(Num(a), Den(b)), ch_bignum_mul(Num(b), Den(a)))

\* The value of a finite flonum, man * 2^exp with at most LimbBits bits of
\* mantissa: a fixnum, an integer doubled exp times, or a fraction whose even
\* mantissa is halved first.
RECURSIVE Doubled(_, _)
Doubled(v, n) == IF n = 0 THEN v ELSE Doubled(ch_bignum_add(v, v), n - 1)

RECURSIVE Halved(_, _)
Halved(man, e) == IF man % 2 = 0 /\ e > 0 THEN Halved(man \div 2, e - 1) ELSE <<man, e>>

ch_exact_from_flonum(f) ==
    LET signed(v) == IF f.neg THEN ch_bignum_negate(v) ELSE v
        low == Halved(f.man, -f.exp)
        IsInt == f.exp >= 0 \/ low[2] = 0
        int == IF f.exp >= 0 THEN f.man * 2 ^ f.exp ELSE low[1]
    IN  IF f.man = 0 THEN Fix(0)
        ELSE IF IsInt /\ Sign(~f.neg) * int \in CH_FIXNUM_MIN..CH_FIXNUM_MAX THEN Fix(Sign(~f.neg) * int)
        ELSE IF IsInt /\ int < Limb \div 2 THEN ch_make_integer(Sign(~f.neg) * int)
        ELSE IF f.exp >= 0 THEN signed(Doubled(ch_make_integer(f.man), f.exp))
        ELSE ch_make_rational(ch_make_integer(Sign(~f.neg) * low[1]), Doubled(Fix(1), low[2]))

\* A flonum against an exact number: equal only through an exact integer.
ch_double_to_exact_if_exact(f) ==
    IF f.exp >= 0 \/ Halved(f.man, -f.exp)[2] = 0 THEN ch_exact_from_flonum(f) ELSE Undefined

SameExact(e, v) == e # Undefined /\ ch_exact_compare(e, v) = 0
mixed_num_equal(f, v) == SameExact(ch_double_to_exact_if_exact(f), v)

----------------------------------------------------------------------------
(* The primitives, on exact arguments.                                       *)

prim_add(args) == FoldLeft(ch_exact_add, Fix(0), args)

prim_sub(args) ==
    IF Len(args) = 1 THEN ch_exact_negate(args[1]) ELSE FoldLeft(ch_exact_sub, Head(args), Tail(args))

prim_mul(args) == FoldLeft(ch_exact_mul, Fix(1), args)

DivStep(acc, v) == IF acc = Undefined THEN Undefined ELSE ch_exact_div(acc, v)
DivAll(args) == FoldLeft(DivStep, Head(args), Tail(args))
prim_div(args) == DivAll(IF Len(args) = 1 THEN <<Fix(1)>> \o args ELSE args)

Chained(args, Rel(_)) ==
    \A i \in 1..(Len(args) - 1) : Rel(ch_exact_compare(args[i], args[i + 1]))

prim_num_eq(args) == \A i \in 2..Len(args) : ch_exact_compare(args[1], args[i]) = 0
prim_lt(args) == Chained(args, LAMBDA c : c < 0)
prim_gt(args) == Chained(args, LAMBDA c : c > 0)
prim_le(args) == Chained(args, LAMBDA c : c <= 0)
prim_ge(args) == Chained(args, LAMBDA c : c >= 0)

prim_max(args) == FoldLeft(LAMBDA best, v : IF ch_exact_compare(best, v) < 0 THEN v ELSE best,
                           Head(args), Tail(args))
prim_min(args) == FoldLeft(LAMBDA best, v : IF ch_exact_compare(best, v) > 0 THEN v ELSE best,
                           Head(args), Tail(args))

is_even_int(v) == IF v.k = "fix" THEN v.n % 2 = 0 ELSE At(v.limbs, 1) % 2 = 0
prim_odd_p(v) == ~is_zero_int(ch_bignum_remainder(v, Fix(2)))
prim_even_p(v) == is_zero_int(ch_bignum_remainder(v, Fix(2)))
prim_positive_p(v) == ch_exact_compare(v, Fix(0)) > 0
prim_negative_p(v) == ch_exact_compare(v, Fix(0)) < 0

rational_trunc_quot(v) == ch_bignum_quotient(Num(v), Den(v))

FloorFrom(v, q, rem) == IF ~is_zero_int(rem) /\ is_neg_int(Num(v)) THEN ch_bignum_sub(q, Fix(1)) ELSE q
rational_floor(v) == FloorFrom(v, ch_bignum_quotient(Num(v), Den(v)), ch_bignum_remainder(Num(v), Den(v)))

CeilingFrom(v, q, rem) ==
    IF ~is_zero_int(rem) /\ ch_bignum_compare(Num(v), Fix(0)) > 0 THEN ch_bignum_add(q, Fix(1)) ELSE q
rational_ceiling(v) == CeilingFrom(v, ch_bignum_quotient(Num(v), Den(v)), ch_bignum_remainder(Num(v), Den(v)))

AwayFromZero(q, rem) == ch_bignum_add(q, Fix(IF is_neg_int(rem) THEN -1 ELSE 1))
Nearest(q, rem, cmp) ==
    IF is_zero_int(rem) \/ cmp < 0 \/ (cmp = 0 /\ is_even_int(q)) THEN q ELSE AwayFromZero(q, rem)
RoundFrom(v, q, rem) ==
    Nearest(q, rem, ch_bignum_compare(ch_bignum_mul(ch_bignum_abs(rem), Fix(2)), Den(v)))
rational_round(v) == RoundFrom(v, ch_bignum_quotient(Num(v), Den(v)), ch_bignum_remainder(Num(v), Den(v)))

prim_floor(v) == IF IsRational(v) THEN rational_floor(v) ELSE v
prim_ceiling(v) == IF IsRational(v) THEN rational_ceiling(v) ELSE v
prim_truncate(v) == IF IsRational(v) THEN rational_trunc_quot(v) ELSE v
prim_round(v) == IF IsRational(v) THEN rational_round(v) ELSE v

ModuloFrom(a, b, q, r) ==
    IF is_zero_int(r) \/ is_neg_int(a) = is_neg_int(b) THEN r
    ELSE ch_bignum_sub(a, ch_bignum_mul(ch_bignum_sub(q, Fix(1)), b))
prim_modulo(a, b) ==
    IF is_zero_int(b) THEN Undefined ELSE ModuloFrom(a, b, ch_bignum_quotient(a, b), ch_bignum_remainder(a, b))

\* floor/ and truncate/, and their two halves.
DivPairFrom(a, b, q, r, use_floor) ==
    IF use_floor /\ ~is_zero_int(r) /\ is_neg_int(a) # is_neg_int(b)
    THEN [q |-> ch_bignum_sub(q, Fix(1)), r |-> ch_bignum_add(r, b)] ELSE [q |-> q, r |-> r]
exact_div_pair(a, b, use_floor) ==
    IF is_zero_int(b) THEN [q |-> Undefined, r |-> Undefined]
    ELSE DivPairFrom(a, b, ch_bignum_quotient(a, b), ch_bignum_remainder(a, b), use_floor)

exact_div_quotient(a, b, use_floor) == exact_div_pair(a, b, use_floor).q
exact_div_remainder(a, b, use_floor) == exact_div_pair(a, b, use_floor).r

prim_gcd(args) ==
    IF args = << >> THEN Fix(0)
    ELSE ch_bignum_abs(FoldLeft(ch_bignum_gcd, Head(args), Tail(args)))

prim_lcm(args) ==
    LET Step(acc, v) ==
            LET b == ch_bignum_abs(v)
            IN  IF is_zero_int(acc) \/ is_zero_int(b) THEN Fix(0)
                ELSE ch_bignum_mul(ch_bignum_quotient(acc, ch_bignum_gcd(acc, b)), b)
    IN  IF args = << >> THEN Fix(1) ELSE FoldLeft(Step, ch_bignum_abs(Head(args)), Tail(args))

prim_square(v) == ch_exact_mul(v, v)

RECURSIVE ExptLoop(_, _, _), ExptNext(_, _, _)
ExptLoop(result, base, e) ==
    IF ch_bignum_compare(e, Fix(0)) <= 0 THEN result
    ELSE ExptNext(IF is_zero_int(ch_bignum_remainder(e, Fix(2))) THEN result ELSE ch_bignum_mul(result, base),
                  base, ch_bignum_quotient(e, Fix(2)))
ExptNext(result, base, half) ==
    ExptLoop(result, IF is_zero_int(half) THEN base ELSE ch_bignum_mul(base, base), half)

expt_nonneg_int(base, exp) == ExptLoop(Fix(1), base, exp)

RaisedRatio(num, den, e) == ch_make_rational(expt_nonneg_int(num, e), expt_nonneg_int(den, e))
expt_exact_rational(base, exp) ==
    IF is_zero_int(exp) THEN Fix(1)
    ELSE RaisedRatio(IF is_neg_int(exp) THEN Den(base) ELSE Num(base),
                     IF is_neg_int(exp) THEN Num(base) ELSE Den(base),
                     Facing(exp, is_neg_int(exp)))

OneOver(pow) == IF is_zero_int(pow) THEN Undefined ELSE ch_make_rational(Fix(1), pow)
prim_expt(z, w) ==
    IF IsRational(z) THEN expt_exact_rational(z, w)
    ELSE IF ~is_neg_int(w) THEN expt_nonneg_int(z, w)
    ELSE OneOver(expt_nonneg_int(z, ch_bignum_negate(w)))

exact_int_bit_length(v) ==
    LET Bits(n) == CHOOSE e \in 0..(2 * LimbBits) : n < 2 ^ e /\ (e = 0 \/ n >= 2 ^ (e - 1))
    IN  IF v.k = "fix" THEN Bits(v.n)
        ELSE IF v.limbs = << >> THEN 0
        ELSE (Len(v.limbs) - 1) * LimbBits + Bits(Last(v.limbs))

\* The floor of the root of a bignum by bisection below a power of two.
RECURSIVE Bisect(_, _, _), BisectAt(_, _, _, _)
Bisect(n, lo, hi) ==
    IF ch_bignum_compare(lo, hi) >= 0 THEN lo
    ELSE BisectAt(n, lo, hi, ch_bignum_quotient(ch_bignum_add(ch_bignum_add(lo, hi), Fix(1)), Fix(2)))
BisectAt(n, lo, hi, mid) ==
    IF ch_bignum_compare(ch_bignum_mul(mid, mid), n) <= 0 THEN Bisect(n, mid, hi)
    ELSE Bisect(n, lo, ch_bignum_sub(mid, Fix(1)))

\* The upper end, a power of two above the root.
Above(n) == FoldLeft(LAMBDA hi, i : ch_bignum_mul(hi, Fix(2)), Fix(1),
                     [i \in 1..((exact_int_bit_length(n) + 1) \div 2 + 1) |-> i])

RootOf(n, s) == [root |-> ch_bignum_normalize(s),
                 rem |-> ch_bignum_normalize(ch_bignum_sub(n, ch_bignum_mul(s, s)))]
SmallRoot(n) == CHOOSE s \in 0..n : s * s <= n /\ (s + 1) * (s + 1) > n
isqrt_non_negative(n) ==
    IF n.k = "fix" THEN [root |-> Fix(SmallRoot(n.n)), rem |-> Fix(n.n - SmallRoot(n.n) ^ 2)]
    ELSE RootOf(n, Bisect(n, Fix(0), Above(n)))

isqrt_perfect(r) == is_zero_int(r.rem)

\* An exact root, or none: then the answer is inexact.
RootFrom(v, num, den) ==
    IF is_neg_int(Num(v)) \/ ~isqrt_perfect(num) \/ ~isqrt_perfect(den) THEN Undefined
    ELSE IF IsRational(v) THEN ch_make_rational(num.root, den.root) ELSE num.root
prim_sqrt(v) == RootFrom(v, isqrt_non_negative(Num(v)), isqrt_non_negative(Den(v)))

prim_exact_integer_sqrt(v) ==
    IF is_neg_int(v) THEN [root |-> Undefined, rem |-> Undefined]
    ELSE IF is_zero_int(v) \/ is_one_int(v) THEN [root |-> v, rem |-> Fix(0)]
    ELSE isqrt_non_negative(v)

----------------------------------------------------------------------------
(* Texts: a sign and digits, the most significant first.                     *)

RECURSIVE RadixDigits(_, _, _)
RadixDigits(n, radix, room) ==
    IF is_zero_int(n) THEN << >>
    ELSE IF room = 0 THEN <<-1>>
    ELSE Append(RadixDigits(ch_bignum_quotient(n, Fix(radix)), radix, room - 1),
                ch_bignum_remainder(n, Fix(radix)).n)

\* number->string in a radix other than ten; the buffer has a fixed length.
RadixText(neg, digits) ==
    IF Contains(digits, -1) \/ (neg /\ Len(digits) = BufDigits) THEN Undefined
    ELSE [neg |-> neg, digits |-> digits]
exact_int_to_radix_string(v, radix) ==
    IF is_zero_int(v) THEN [neg |-> FALSE, digits |-> <<0>>]
    ELSE RadixText(is_neg_int(v), RadixDigits(ch_bignum_abs(v), radix, BufDigits))

\* Decimal: chunks of ChunkDigits digits from the low end, padded with zeros
\* except the first one.
Plain(n) == LET RECURSIVE d(_)
                d(m) == IF m < Radix THEN <<m>> ELSE Append(d(m \div Radix), m % Radix)
            IN  d(n)

Padded(n) == Zeros(ChunkDigits - Len(Plain(n))) \o Plain(n)

RECURSIVE Chunks(_)
Chunks(work) ==
    LET out  == DivByLimb(work, Radix ^ ChunkDigits)
        rest == normalize_limbs(out.q)
    IN  IF rest = << >> THEN Plain(out.r) ELSE Chunks(rest) \o Padded(out.r)

ch_bignum_to_string(v) ==
    LET m == view_of(v)
    IN  IF v.k = "fix" THEN [neg |-> v.n < 0, digits |-> Plain(Magnitude(v.n))]
        ELSE IF m.limbs = << >> THEN [neg |-> FALSE, digits |-> <<0>>]
        ELSE [neg |-> ~m.positive, digits |-> Chunks(m.limbs)]

ch_bignum_parse_decimal(text) ==
    make_from_mag(
        FoldLeft(LAMBDA limbs, d : normalize_limbs(add_mag(mul_mag(limbs, <<Radix>>), <<d>>)),
                 << >>, text.digits), ~text.neg)

\* The most digits of a radix that fit in a limb.
max_chunk_digits(radix) ==
    CHOOSE c \in 1..LimbBits : radix ^ c <= Limb - 1 /\ radix ^ (c + 1) > Limb - 1

PowerOf(radix, n) == FoldLeft(LAMBDA m, i : ch_bignum_mul(m, Fix(radix)), Fix(1), [i \in 1..n |-> i])

\* As many digits at a time as a limb holds.
RECURSIVE ParseChunks(_, _, _), ParseChunk(_, _, _, _)
ParseChunks(acc, digits, radix) ==
    IF digits = << >> THEN acc
    ELSE ParseChunk(acc, digits, radix, Min({Len(digits), max_chunk_digits(radix)}))
ParseChunk(acc, digits, radix, n) ==
    ParseChunks(ch_bignum_add(ch_bignum_mul(acc, PowerOf(radix, n)),
                              ch_value_from_u64(FoldLeft(LAMBDA p, d : p * radix + d, 0, SubSeq(digits, 1, n)))),
                SubSeq(digits, n + 1, Len(digits)), radix)

parse_integer_radix(text, radix) ==
    IF text.digits = << >> \/ \E i \in DOMAIN text.digits : text.digits[i] >= radix THEN Undefined
    ELSE Facing(ParseChunks(Fix(0), text.digits, radix), text.neg)

\* A decimal real read exactly (#e1.5e2): digits, how many of them follow the
\* point, and an exponent.
DigitsValue(digits) ==
    FoldLeft(LAMBDA n, d : ch_bignum_add(ch_bignum_mul(n, Fix(Radix)), Fix(d)), Fix(0), digits)
DecimalOf(num, neg, scale) ==
    ch_make_rational(Facing(IF scale > 0 THEN ch_bignum_mul(num, PowerOf(Radix, scale)) ELSE num, neg),
                     IF scale < 0 THEN PowerOf(Radix, -scale) ELSE Fix(1))
try_parse_exact_decimal(text, fraction, exp) == DecimalOf(DigitsValue(text.digits), text.neg, exp - fraction)

----------------------------------------------------------------------------
(* Calls and what they must return.                                          *)

RECURSIVE LimbsOf(_)
LimbsOf(n) == IF n = 0 THEN << >> ELSE <<n % Limb>> \o LimbsOf(n \div Limb)

IntOf(n) == make_from_mag(LimbsOf(Magnitude(n)), n >= 0)
RatOf(n, d) == ch_make_rational(IntOf(n), IntOf(d))

Signed(S) == S \cup {-n : n \in S}

\* No call is under way.
NoNumbers == [op |-> "none", slot |-> "lost"]

NumbersInit ==
    nums \in [op : {"int"}, slot : {"kept"}, a : Signed(Dividends), b : Signed(Divisors)]
        \cup [op : {"int"}, slot : {"lost"}, a : Signed(Parts), b : Signed(Parts)]
        \cup [op : {"rat"}, slot : {"kept"}, a : Signed(Parts), b : Signed(Parts \ {0}),
                                           c : Signed(Parts), d : Parts \ {0}]
        \cup [op : {"flo"}, slot : {"kept"}, neg : BOOLEAN, man : Mantissas, exp : Signed(Exponents)]

MagVal(s) == FoldRight(LAMBDA limb, acc : acc * Limb + limb, s, 0)
IntVal(v) == IF v.k = "fix" THEN v.n ELSE Sign(v.positive) * MagVal(v.limbs)
Gcd(m, n) == CHOOSE g \in 0..(m + n) :
                 /\ g = 0 => m = 0 /\ n = 0
                 /\ g > 0 => /\ m % g = 0 /\ n % g = 0
                            /\ \A h \in (g + 1)..(m + n) : m % h # 0 \/ n % h # 0
Power(n, e) == IF e = 0 THEN 1 ELSE n ^ e
FloorDiv(m, n) == IF n > 0 THEN m \div n ELSE (-m) \div (-n)

\* One representation per number, except that the bignum -2^FixBits occurs.
Canonical(v) ==
    \/ v.k = "fix" /\ v.n \in CH_FIXNUM_MIN..CH_FIXNUM_MAX
    \/ /\ v.k = "big" /\ v.limbs = normalize_limbs(v.limbs)
       /\ IntVal(v) \notin (CH_FIXNUM_MIN + 1)..CH_FIXNUM_MAX

IsInt(v, n) == v.k \in {"fix", "big"} /\ Canonical(v) /\ IntVal(v) = n

IsFraction(v, n, d) ==
    IF v.k = "rat"
    THEN LET p == IntVal(v.num)
             q == IntVal(v.den)
         IN  Canonical(v.num) /\ Canonical(v.den) /\ q > 1 /\ Gcd(Magnitude(p), q) = 1 /\ p * d = n * q
    ELSE v # Undefined /\ Canonical(v) /\ IntVal(v) * d = n

\* The long division found every digit within its rounds.
DigitsFound(y, r) == Magnitude(IntVal(r)) < Magnitude(IntVal(y))

FloorRight(a, b, x, y, q, r, floor) ==
    /\ floor = [q |-> IntOf(FloorDiv(a, b)), r |-> IntOf(a - b * FloorDiv(a, b))]
    /\ prim_modulo(x, y) = floor.r
    /\ exact_div_pair(x, y, FALSE) = [q |-> q, r |-> r]
DivisionRight(a, b, x, y, q, r) ==
    IF b = 0 THEN q = Undefined /\ prim_modulo(x, y) = Undefined
    ELSE /\ IntVal(q) * b + IntVal(r) = a /\ (IntVal(r) = 0 \/ (IntVal(r) < 0) = (a < 0))
         /\ Magnitude(b) < Limb \/ mag_is_pow2(LimbsOf(Magnitude(b))) => DigitsFound(y, r)
         /\ DigitsFound(y, r) => FloorRight(a, b, x, y, q, r, exact_div_pair(x, y, TRUE))

RootRight(a, s, root) ==
    IF a < 0 THEN s.root = Undefined /\ root = Undefined
    ELSE /\ IntVal(s.root) ^ 2 + IntVal(s.rem) = a /\ IntVal(s.rem) \in 0..(2 * IntVal(s.root))
         /\ root = IF IntVal(s.rem) = 0 THEN s.root ELSE Undefined

TextsRight(a, text, radix) ==
    /\ IsInt(ch_bignum_parse_decimal(text), a) /\ IsInt(parse_integer_radix(text, Radix), a)
    /\ IF 3 ^ BufDigits <= Magnitude(a) THEN radix = Undefined
       ELSE radix # Undefined => IsInt(parse_integer_radix(radix, 3), a)

IntegerCallsRight(a, b, x, y) ==
    /\ IsInt(prim_add(<<x, y>>), a + b) /\ IsInt(prim_sub(<<x, y>>), a - b)
    /\ IsInt(prim_mul(<<x, y>>), a * b) /\ IsInt(prim_sub(<<x>>), -a) /\ IsInt(ch_exact_abs(x), Magnitude(a))
    /\ <<prim_lt(<<x, y>>), prim_gt(<<x, y>>), prim_le(<<x, y>>), prim_ge(<<x, y>>), prim_num_eq(<<x, y>>)>>
         = <<a < b, a > b, a <= b, a >= b, a = b>>
    /\ IsInt(prim_max(<<x, y>>), IF a > b THEN a ELSE b) /\ IsInt(prim_min(<<x, y>>), IF a < b THEN a ELSE b)
    /\ prim_even_p(x) = (a % 2 = 0) /\ prim_odd_p(x) = (a % 2 = 1) /\ is_even_int(x) = prim_even_p(x)
    /\ DivisionRight(a, b, x, y, ch_bignum_quotient(x, y), ch_bignum_remainder(x, y))
    /\ IsInt(prim_gcd(<<x, y>>), Gcd(Magnitude(a), Magnitude(b)))
    /\ RootRight(a, prim_exact_integer_sqrt(x), prim_sqrt(x))
    /\ TextsRight(a, ch_bignum_to_string(x), exact_int_to_radix_string(x, 3))

IsFractionOrNone(v, n, d) == IF d = 0 THEN v = Undefined ELSE IsFraction(v, n, d)
SquaresTo(v, x) == v # Undefined => ch_exact_compare(prim_square(v), x) = 0

\* The prefix of an answer to a rational call: lowest terms from exact parts.
RationalCallsRight(a, b, c, d, x, y) ==
    LET floor == FloorDiv(a, b)
        twice == 2 * (a - b * floor) * (IF b > 0 THEN 1 ELSE -1) - Magnitude(b)
        w == (a + c) % 4
    IN  /\ IsFraction(x, a, b)
        /\ IsFraction(prim_add(<<x, y>>), a * d + c * b, b * d) /\ IsFraction(prim_sub(<<x, y>>), a * d - c * b, b * d)
        /\ IsFraction(prim_mul(<<x, y>>), a * c, b * d) /\ IsFraction(prim_square(x), a * a, b * b)
        /\ IsFractionOrNone(prim_div(<<x, y>>), a * d, b * c) /\ SquaresTo(prim_sqrt(x), x)
        /\ prim_lt(<<x, y>>) = (a * d * Sign(b * d > 0) < c * b * Sign(b * d > 0))
        /\ prim_negative_p(x) = (a * b < 0) /\ prim_positive_p(x) = (a * b > 0)
        /\ IsInt(prim_floor(x), floor) /\ IsInt(prim_ceiling(x), -FloorDiv(-a, b))
        /\ IsInt(prim_truncate(x), IF a * b < 0 THEN -FloorDiv(-a, b) ELSE floor)
        /\ IsInt(prim_round(x), IF twice > 0 \/ (twice = 0 /\ floor % 2 = 1) THEN floor + 1 ELSE floor)
        /\ IsFraction(prim_expt(x, Fix(w)), Power(a, w), Power(b, w))
        /\ IsFractionOrNone(prim_expt(x, Fix(-w)), Power(b, w), Power(a, w))
        /\ c >= 0 => IsFraction(try_parse_exact_decimal(ch_bignum_to_string(IntOf(a)), c, b),
                                IF b > c THEN a * Radix ^ (b - c) ELSE a,
                                IF b < c THEN Radix ^ (c - b) ELSE 1)

\* Exact arithmetic is arithmetic: for operands of any length and sign, at
\* and around the ends of the fixnum and limb ranges, sums, differences,
\* products, comparisons, gcd, integer and rational roots, roundings, powers
\* and the passage through text give the number they should, in its one
\* representation; a quotient and a remainder always make up the dividend,
\* and are the right ones whenever the long division found every digit in its
\* rounds (the rationals are chosen so); exact makes of a flonum the number it
\* stands for.
NumbersExact ==
    nums.slot = "kept" =>
        CASE nums.op = "int" -> IntegerCallsRight(nums.a, nums.b, IntOf(nums.a), IntOf(nums.b))
          [] nums.op = "rat" -> RationalCallsRight(nums.a, nums.b, nums.c, nums.d,
                                                  RatOf(nums.a, nums.b), RatOf(nums.c, nums.d))
          [] nums.op = "flo" ->
                LET n == Sign(~nums.neg) * nums.man * (IF nums.exp > 0 THEN 2 ^ nums.exp ELSE 1)
                    d == IF nums.exp < 0 THEN 2 ^ (-nums.exp) ELSE 1
                IN  /\ IsFraction(ch_exact_from_flonum(nums), n, d)
                    /\ \A v \in 0..3 : mixed_num_equal(nums, Fix(v)) = (n = v * d)
=============================================================================
