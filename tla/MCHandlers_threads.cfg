\* Two clients share one thread; the stream may disconnect.
SPECIFICATION FairSpec
CONSTANTS
    batch = batch
    stream = stream
    a = a
    e = e
    q1 = q1
    q2 = q2
    q3 = q3
    BadLine = BadLine
    Requests = {q1, q2, q3}
    Token = {a}
    Clients = {batch, stream}
    Jobs <- MCJobs
    Streaming = {stream}
    Batching = {batch}
    Forced = {q1}
    Threads = 1
    MaxTokens = 2
INVARIANTS
    TypeOK
    ReadsInOrder
    LinesAreAnswers

    
CHECK_DEADLOCK FALSE
