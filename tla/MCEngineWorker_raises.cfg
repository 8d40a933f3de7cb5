\* The running set needs a block that the pool does not have.
SPECIFICATION WFairSpec
CONSTANTS
    a = a
    e = e
    b1 = b1
    b2 = b2
    s1 = s1
    s2 = s2
    r1 = r1
    r2 = r2
    r3 = r3
    Requests = {r1, r2}
    Prompt <- MCPrompt
    MaxTokens <- MCMaxTokens
    IgnoreEos = {}
    Eos = e
    MaxNumSeqs = 2
    MaxBatchTokens = 4
    HasRecurrent = FALSE
    Token = {a, e}
    Prompts <- MCPrompts
    Blocks = {b1, b2}
    Slots = {s1, s2}
    BlockSize = 2
    MaxBlocksPerSeq = 4
    MaxPrefixEntries = 1
    NoLimit = NoLimit
    MaxClock = 20
PROPERTIES
    QueuesEnd
CHECK_DEADLOCK FALSE
