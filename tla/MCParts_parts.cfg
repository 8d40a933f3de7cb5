SPECIFICATION PartsSpec
CONSTANTS
    BlockSize = 2
    NBlocks = 6
    Lengths <- MCLengths
    Budgets <- MCBudgets
    CacheLayers = 2
    MinBudget = 1
    MaxBudget = 3
    Streaming = 1
    Gpus <- MCGpus
    Layers <- MCLayers
    Experts <- MCExperts
    MaxDepth = 4
    Reqs = {"a", "b"}
    MaxTokens <- MCMaxTokens
    Readers = {"http"}
    WindowS = 1
    LatencyWindow = 1
    MaxClock = 2
    Served <- MCServed
    Prompts <- MCPrompts
    MaxLen = 8
    Chunk = 2
    Window = 2
    Kernel = 4
    Drafts = 2
    PromptLens = {1, 2}
    AnswerLens <- MCAnswerLens
    Steps <- MCSteps
    Sides <- MCSides
    Ratio = 5
    Patch = 1
    Merge = 2
    MinPixels = 20
    MaxPixels = 80
    Before = {0, 1, 4}
    ChunkSizes = {0, 7, 48}
    Checkpoint <- MCCheckpoint
    Jobs <- MCJobs
    Disks <- MCDisks
    Floor = 10
    MaxLaunches = 2
    Base = 4
    Mass = 4
    StateLow = 32
    Payloads <- MCPayloads
INVARIANTS
    TransferInverts
    CompactionKeeps
    
    
    
    
    
    ForgedIsWhole
    DiskFloorKept
