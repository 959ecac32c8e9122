SPECIFICATION FairSpec
CONSTANTS
    t1 = t1
    t2 = t2
    t3 = t3
    Tasks = {t1, t2}
    Cancellable = {t1}
    Workers = {"w1", "w2"}
    NoTask = NoTask
    Services <- ThreeServices
    Disabled = {"rerank"}
    JobServices = {"embedding"}
    ChatService = "llm"
INVARIANT TypeOK
INVARIANT CountersAccount
INVARIANT SnapshotMissesNothing
INVARIANT DownMeansDone
PROPERTY StatusFollowsService
 
CHECK_DEADLOCK FALSE
