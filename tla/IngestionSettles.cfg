SPECIFICATION JobsSpec
CONSTANTS
    f1 = f1
    f3 = f3
    r1 = r1
    Files = {f1, f3}
    Requests = {r1}
    BatchOf <- MCBatchOf
    SoftMode = {r1}
    NameOf <- MCNameOf
    Weblinks = {f3}
    DeleteLists = {}
    Workers = {"w1"}
    Crawlers = {"w1"}
    Faults = {"crash", "raise"}
    MaxCrashes = 1
    TextsOf <- MCTextsOf
    BatchSize = 2
    MaxWorkers = 2
    MaxRetries = 2
    Pages = {"root", "dir", "page", "else"}
    Root = "root"
    Links <- MCLinks
    Under <- MCUnder
    Directories = {"root", "dir"}
INVARIANT EmbeddingsInOrder
INVARIANT NothingLeftRunning
INVARIANT CrawlIsComplete
 
CHECK_DEADLOCK FALSE
