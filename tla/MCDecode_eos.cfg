\* A drafted token after eos_id is accepted with it.
SPECIFICATION Spec
CONSTANTS
    a = a
    e = e
    s1 = s1
    s2 = s2
    s3 = s3
    r1 = r1
    r2 = r2
    r3 = r3
    Requests = {r1, r2, r3}
    Prompt <- MCPrompt
    MaxTokens <- MCFourTokens
    IgnoreEos = {}
    Eos = e
    Token = {a, e}
    Sampled = {}
    Argmax <- MCArgmax
    Models <- MCDrafting
    Slots = {s1, s2, s3}
    MaxNumSeqs = 2
    BlockSize = 2
    MaxBlocksPerSeq = 3
    BatchBuckets = {2}
    ContextBucketSize = 4
    MaxGraphs = 1
    MaxDepths = 2
PROPERTIES
    ImplementsGreedyDecoding
CHECK_DEADLOCK FALSE
