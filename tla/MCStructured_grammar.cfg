\* Two blocks for three requests.
SPECIFICATION GSpec
CONSTANTS
    a = a
    e = e
    b1 = b1
    b2 = b2
    s1 = s1
    s2 = s2
    s3 = s3
    r1 = r1
    r2 = r2
    r3 = r3
    Requests = {r1, r2, r3}
    Prompt <- MCPrompt
    MaxTokens <- MCMaxTokens
    IgnoreEos = {}
    Eos = e
    MaxNumSeqs = 3
    MaxBatchTokens = 2
    HasRecurrent = FALSE
    Token = {a, e}
    Prompts <- MCPrompts
    Blocks = {b1, b2}
    Slots = {s1, s2, s3}
    BlockSize = 4
    MaxBlocksPerSeq = 4
    MaxPrefixEntries = NoLimit
    NoLimit = NoLimit
    MaxClock = 20
SYMMETRY MCSymmetry
INVARIANTS
    MatcherFollowsOutput
CHECK_DEADLOCK FALSE
