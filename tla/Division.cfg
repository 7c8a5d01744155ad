SPECIFICATION DivisionSpec
CONSTANTS
    LimbBits = 3
    FixBits = 2
    GuardMax = 2
    Radix = 2
    ChunkDigits = 2
    BufDigits = 5
    Dividends = {0, 1, 3, 4, 5, 7, 8, 9, 20, 50, 63, 64, 65, 98, 147, 200, 511, 512, 513}
    Divisors = {0, 1, 2, 3, 4, 7, 8, 9, 10, 23, 49, 56, 63, 64, 65, 100}
    Parts = {0, 1, 2, 3, 7}
    Mantissas = {0, 1, 2, 3, 4, 5, 6, 7}
    Exponents = {0, 1, 2, 4}
INVARIANT RemainderBelowDivisor
CHECK_DEADLOCK FALSE
