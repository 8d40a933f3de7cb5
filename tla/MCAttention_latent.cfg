\* One sequence, prompts of one to three tokens, no chunking.
SPECIFICATION LatentSpec
CONSTANTS
    Served <- MCServed
    Prompts = {1, 2, 3}
    MaxLen = 6
    Chunk = 9
    Window = 2
    Kernel = 4
    Drafts = 2
INVARIANT LatentSeesHistory
