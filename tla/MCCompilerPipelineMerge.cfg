CONSTANTS
    Programs <- MCMerge
    SourceOf <- MCSourceOf
    NameOrder <- MCNameOrder
    ChunkOf <- MCChunkOf
    Modes = {"portable", "optimized"}
    InitialTop = 64
    InitialLocals = 65536
    Headroom = 64
    MaxCallDepth = 6
    MaxInputs = 0
    MaxOptRounds = 8
    BlocksRun = 8
SPECIFICATION CompilerSpec
INVARIANT LayoutMatchesEdges
