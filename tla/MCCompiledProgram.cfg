CONSTANTS
    Programs <- MCPrograms
    SourceOf <- MCSourceOf
    ChunkOf <- MCChunkOf
    Modes = {"portable", "optimized"}
    InitialTop = 64
    InitialLocals = 65536
    Headroom = 64
    MaxCallDepth = 6
    MaxInputs = 3
SPECIFICATION Spec
INVARIANTS
    FramesApart
    HandlersLive
    CodeBracketed
    ThrowReachesEnclosingCatch
    
PROPERTY Terminates
