SPECIFICATION MachineSpec
CONSTANTS
    Winds = {w1}
    Conts = {k1, k2}
    Fuel = 5
    MaxFrames = 5
    Vals = {0, 1}
    MaxDepth = 3
    MaxActivs = 4
    UvFuel = 3
    MaxTimers = 6
    MaxFds = 2
    Fds = {d1, d2}
    Horizon = 2
    MaxIds = 6
    Ids = {1, 2, 3}
    PromotionAge = 1
    MaxRoots = 2
    MaxHeapOps = 4
    Nodes = {1, 2, 3}
    Stack = 5
    Libs = {1, 2, 3}
    MaxNest = 3
    MaxImports = 2
    MaxEdits = 1
    Idents = {x, y}
    Prefix = p
    MaxModifiers = 2
    HtKeys = {h1, h2, h3}
    HtVals = {1, 2}
    MinCap = 2
    Hashes = {0, 3}
    MaxHtOps = 4
    t1 = t1
    t2 = t2
    t3 = t3
    t4 = t4
    CacheProcs = {p1, p2}
    SourceTexts = {t1, t2, t3, t4}
    BlocksOf <- MCBlocks
    Refused = {t3}
    Failing = {t4}
    MaxRuns = 3
    MaxFileEdits = 1
    Depth0 = 2
    FixMax = 6
    MaxRegs = 40
    MaxLen = 3
    MaxLen2 = 2
    LengthLimit = 5
    MapLimit = 3
    ApplyLimit = 2
    PendingLimit = 1
    ElemLimit = 2
    MaxChars = 3
    MaxChars2 = 2
    SplitLimit = 5
    MaxVec = 3
    MaxVec2 = 2
    VecLimit = 2
    VecArgs = 3
    BangArgs = 2
    ByteLimit = 2
    LimbBits = 3
    FixBits = 2
    GuardMax = 2
    Radix = 2
    ChunkDigits = 2
    BufDigits = 5
    Dividends = {0, 1, 3, 4, 5, 7, 8, 9, 20, 50, 63, 64, 65, 98, 147, 200, 511, 512, 513}
    Divisors = {0, 1, 2, 3, 4, 7, 8, 9, 10, 23, 49, 56, 63, 64, 65, 100}
    Parts = {0, 1, 2, 3, 7}
    Mantissas = {0, 1, 2, 3, 4, 5, 6, 7}
    Exponents = {0, 1, 2, 4}
    LitDigits = {"0", "5", "a", "_"}
    MaxWhole = 3
    MaxFrac = 2
    StripCap = 512
    ExpLimit = 1000
    MaxCells = 3
    MaxName = 3
    MaxPrintDepth = 12
    MaxNesting = 12
    MaxLabels = 10
    PatchDepth = 5
INVARIANT WindsInside HandlersOfExtent OneValuePerVariable HeapIsQueue WaitsAreArmed ReachedIsAllocated EphemeronsExact CopyIsIsomorphic ImportVerdict ImportSetRenames HashTableIsMap HitIsOwnSource CompiledMeansSource ListsKeepPromises StringsAreTexts VectorsKeepPromises NumbersExact LiteralsDenote ReadsBack
CHECK_DEADLOCK FALSE
