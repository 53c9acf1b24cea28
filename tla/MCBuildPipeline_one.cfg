SPECIFICATION Spec
CONSTANTS
    p1 = p1
    p2 = p2
    none = none
    PRs <- MCPRs
    NoPr = none
    Queue <- MCOne
    Tags <- MCTags
    NoTag = "no tag"
    Tag <- MCOwnTag
    TaskId <- MCOwnTask
    Thread <- MCOwnThread
    Preset <- MCPreset
    Args <- MCOneArgs
    Frameworks = {"pytest", "go_test", "generic"}
    Reports <- MCReports
    Truths = {"code", "nothing"}
    Qualities = {50}
    MaxRanges = 3
    MaxKills = 0
    DockerFlaky = TRUE
    MayRaise = TRUE
CHECK_DEADLOCK FALSE
INVARIANTS
    TypeOK
    Discriminating
    Explained
    ContainersRemoved
