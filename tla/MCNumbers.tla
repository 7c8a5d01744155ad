----------------------------- MODULE MCNumbers ------------------------------
(* The instance of the run Division.                                          *)
EXTENDS Numbers

DivisionSpec == NumbersInit /\ [][UNCHANGED nums]_nums

\* Long division subtracts at every digit while the remainder is at least the
\* divisor shifted to that digit, as the comment of div_mag says; so it ends
\* with a remainder below the divisor.
RemainderBelowDivisor ==
    nums.op = "int" /\ nums.slot = "kept" /\ nums.b # 0 =>
        DigitsFound(IntOf(nums.b), ch_bignum_remainder(IntOf(nums.a), IntOf(nums.b)))
=============================================================================
