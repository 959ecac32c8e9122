SPECIFICATION AnsweringSpec
CONSTANTS
    Files = {1, 2, 3}
    Asked = {1, 2}
    Tables = {3}
    TextOf <- MCTextOf
    SizeOf <- MCSizeOf
    Similarities <- MCSimilarities
    One = 10
    Orphans = 1
    TopK = 3
    Threshold = 11
    Window = 3
    ChunkSize = 4
    RerankScores = {3, 9, NaN}
    NaN = NaN
    RerankBatch = 2
    Limits <- MCLimits
    TruncateLen = 1
    Overhead = 1
    MinMean = 6
    Chats = {"c1", "c2"}
    Main = "c1"
    Providers = {"openai", "ollama", "minimax"}
    Chunks <- MCChunks
    MaxChunks = 3
INVARIANT EveryCandidateOnce
INVARIANT PassagesApart
INVARIANT PassageSizeBounded
INVARIANT OneScale
INVARIANT FitsWindow
 
 
CHECK_DEADLOCK FALSE
