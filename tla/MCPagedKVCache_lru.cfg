\* Two slots, five blocks, at most two cached prefixes: sharing, eviction
\* and reuse of blocks all interleave.
SPECIFICATION Spec
CONSTANTS
    a = a
    z = z
    b1 = b1
    b2 = b2
    b3 = b3
    b4 = b4
    b5 = b5
    s1 = s1
    s2 = s2
    Token = {a, z}
    Prompts <- MCPrompts
    Blocks = {b1, b2, b3, b4, b5}
    Slots = {s1, s2}
    BlockSize = 2
    MaxBlocksPerSeq = 2
    MaxPrefixEntries = 2
    NoLimit = NoLimit
    MaxClock = 6
SYMMETRY MCSymmetry
INVARIANTS
    TypeOK
    RefcountExact
    FreeIffUnheld
    ReadsOwnContext
    PrefixesHoldTheirTokens
PROPERTIES
    SharedBlocksImmutable
    ImplementsSharedBlockPool
CHECK_DEADLOCK FALSE
