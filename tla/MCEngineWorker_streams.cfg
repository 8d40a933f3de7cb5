\* Requests arrive at any point of the loop and preempt each other, twice
\* if it comes to that, on a pool of one block; a model with recurrent layers.
SPECIFICATION WFairSpec
CONSTANTS
    a = a
    e = e
    b1 = b1
    b2 = b2
    s1 = s1
    s2 = s2
    r1 = r1
    r2 = r2
    r3 = r3
    Requests = {r1, r2, r3}
    Prompt <- MCPrompt
    MaxTokens <- MCMaxTokens
    IgnoreEos = {}
    Eos = e
    MaxNumSeqs = 2
    MaxBatchTokens = 2
    HasRecurrent = TRUE
    Token = {a, e}
    Prompts <- MCPrompts
    Blocks = {b1}
    Slots = {s1, s2}
    BlockSize = 8
    MaxBlocksPerSeq = 4
    MaxPrefixEntries = NoLimit
    NoLimit = NoLimit
    MaxClock = 20
INVARIANTS
    WorkerTypeOK
    StreamIsOutput
    PendingUnanswered
    AwakeIffWork
PROPERTIES
    QueuesEnd
    ImplementsTokenStreams
CHECK_DEADLOCK FALSE
