SPECIFICATION LiveSpec
CONSTANTS
    r1 = r1
    r2 = r2
    p1 = p1
    p2 = p2
    p3 = p3
    p4 = p4
    k1 = k1
    k2 = k2
    k3 = k3
    k4 = k4
    Repos <- MCRepos
    RepoList <- MCRepoList
    PRs <- MCPRs
    Matching <- MCMatching
    Views <- MCSteadyViews
    ScanKey <- MCOwnHead
    Gone <- MCGone
    Configs <- MCTargets
    Threads = {t1}
    Reviews = {TRUE, FALSE}
    AllowReuse = FALSE
    AllowResume = TRUE
    MaxCrashes = 2
    MaxEdits = 1
    MaxList = 3
    LegacyTarget = 3
PROPERTIES
    ScanFinishes
    EveryMatchFound
    ExcludedLeave
    WrittenBeforeRecorded
    TargetNeverOvershot
