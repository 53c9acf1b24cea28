SPECIFICATION Spec
CONSTANTS
    r1 = r1
    r2 = r2
    p1 = p1
    p2 = p2
    p3 = p3
    p4 = p4
    k1 = k1
    k2 = k2
    k3 = k3
    k4 = k4
    Repos <- MCRepos
    RepoList <- MCRepoList
    PRs <- MCPRs
    Matching <- MCMatching
    Views <- MCSteadyViews
    ScanKey <- MCOwnHead
    Gone = {}
    Configs <- MCUnbounded
    Threads = {t1}
    Reviews = {FALSE}
    AllowReuse = TRUE
    AllowResume = FALSE
    MaxCrashes = 2
    MaxEdits = 0
    MaxList = 3
    LegacyTarget = 2
INVARIANTS
    NoDuplicateCandidates
