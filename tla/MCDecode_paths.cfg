\* A drafting model and a recurrent one; one request samples, so that
\* batches change between the ways to decode.
SPECIFICATION Spec
CONSTANTS
    a = a
    e = e
    s1 = s1
    s2 = s2
    s3 = s3
    r1 = r1
    r2 = r2
    r3 = r3
    Requests = {r1, r2, r3}
    Prompt <- MCPrompt
    MaxTokens <- MCMaxTokens
    IgnoreEos = {r1, r2, r3}
    Eos = e
    Token = {a, e}
    Sampled = {r3}
    Argmax <- MCArgmax
    Models <- MCModels
    Slots = {s1, s2, s3}
    MaxNumSeqs = 2
    BlockSize = 2
    MaxBlocksPerSeq = 3
    BatchBuckets = {2, 4}
    ContextBucketSize = 4
    MaxGraphs = 1
    MaxDepths = 2
INVARIANTS
    TypeOK
    CommittedIsHistory
    VerifyHasRoom
PROPERTIES
    ImplementsGreedyDecoding
    OnlyMembersWritten
CHECK_DEADLOCK FALSE
