SPECIFICATION Spec
CONSTANTS
    p1 = p1
    p2 = p2
    none = none
    PRs <- MCPRs
    NoPr = none
    Queue <- MCOne
    Tags <- MCTags
    NoTag = "no tag"
    Tag <- MCOwnTag
    TaskId <- MCOwnTask
    Thread <- MCOwnThread
    Preset <- MCPreset
    Args <- MCBoth
    Frameworks = {"pytest"}
    Reports <- MCTwoReports
    Truths = {"code"}
    Qualities = {50}
    MaxRanges = 1
    MaxKills = 0
    DockerFlaky = TRUE
    MayRaise = FALSE
CHECK_DEADLOCK FALSE
INVARIANTS
    MaskTested
