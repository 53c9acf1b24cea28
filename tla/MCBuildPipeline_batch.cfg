SPECIFICATION LiveSpec
CONSTANTS
    p1 = p1
    p2 = p2
    none = none
    PRs <- MCPRs
    NoPr = none
    Queue <- MCQueue
    Tags <- MCTags
    NoTag = "no tag"
    Tag <- MCSharedTag
    TaskId <- MCSharedTask
    Thread <- MCSharedThread
    Preset <- MCPreset
    Args <- MCAll
    Frameworks = {"pytest"}
    Reports <- MCTwoReports
    Truths = {"code"}
    Qualities = {50}
    MaxRanges = 1
    MaxKills = 1
    DockerFlaky = FALSE
    MayRaise = FALSE
CHECK_DEADLOCK FALSE
INVARIANTS
    OwnParts
    NoItemLost
    ContainersRemoved
PROPERTIES
    EveryPrSummarised
    ClimbsLadder
