\* An over-subscribed pool of three blocks for three requests, prefixes
\* kept for ever: preemption, re-admission and exhaustion.
SPECIFICATION Spec
CONSTANTS
    a = a
    e = e
    b1 = b1
    b2 = b2
    b3 = b3
    s1 = s1
    s2 = s2
    s3 = s3
    r1 = r1
    r2 = r2
    r3 = r3
    Requests = {r1, r2, r3}
    Prompt <- MCPromptAlike
    MaxTokens <- MCMaxTokensEven
    IgnoreEos = {r2}
    Eos = e
    MaxNumSeqs = 3
    MaxBatchTokens = 4
    HasRecurrent = FALSE
    Token = {a, e}
    Prompts <- MCPrompts
    Blocks = {b1, b2, b3}
    Slots = {s1, s2, s3}
    BlockSize = 2
    MaxBlocksPerSeq = 2
    MaxPrefixEntries = NoLimit
    NoLimit = NoLimit
    MaxClock = 20
SYMMETRY MCSymmetry
INVARIANTS
    TypeOK
    SlotsOwned
    EachInOnePlace
    HistoryInKV
    OutputEndsAtStop
    ArrivalOrder
    EvictionsPaidFor
CHECK_DEADLOCK FALSE
