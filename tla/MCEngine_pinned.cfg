\* The default pool, one slot times the width of a block table, and the
\* default prefix cache without a limit.
SPECIFICATION FairSpec
CONSTANTS
    a = a
    e = e
    b1 = b1
    b2 = b2
    b3 = b3
    s1 = s1
    s2 = s2
    s3 = s3
    r1 = r1
    r2 = r2
    r3 = r3
    Requests = {r1, r2, r3}
    Prompt <- MCPromptDistinct
    MaxTokens <- MCMaxTokensTwo
    IgnoreEos = {}
    Eos = e
    MaxNumSeqs = 1
    MaxBatchTokens = 4
    HasRecurrent = FALSE
    Token = {a, e}
    Prompts <- MCPrompts
    Blocks = {b1, b2}
    Slots = {s1}
    BlockSize = 2
    MaxBlocksPerSeq = 2
    MaxPrefixEntries = NoLimit
    NoLimit = NoLimit
    MaxClock = 20
PROPERTIES
    NeverLivelocks
CHECK_DEADLOCK FALSE
