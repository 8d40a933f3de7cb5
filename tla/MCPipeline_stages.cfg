\* Three slots over two pools of four blocks, for micro-batches of
\* two and one, preemption, reuse of slots, and exhaustion of either pool.
SPECIFICATION PSpec
CONSTANTS
    a = a
    e = e
    b1 = b1
    b2 = b2
    b3 = b3
    b4 = b4
    s1 = s1
    s2 = s2
    s3 = s3
    r1 = r1
    r2 = r2
    r3 = r3
    Requests = {r1, r2, r3}
    Prompt <- MCPrompt
    MaxTokens <- MCMaxTokens
    IgnoreEos = {r1, r3}
    Eos = e
    MaxNumSeqs = 3
    MaxBatchTokens = 5
    HasRecurrent = FALSE
    Token = {a, e}
    Prompts <- MCPrompts
    Blocks = {b1, b2, b3, b4}
    Slots = {s1, s2, s3}
    BlockSize = 2
    MaxBlocksPerSeq = 2
    MaxPrefixEntries = NoLimit
    NoLimit = NoLimit
    MaxClock = 20
    Micro = 2
SYMMETRY MCSymmetry
INVARIANTS
    StagesHoldHistory
    FarBlocksAreOwned
CHECK_DEADLOCK FALSE
