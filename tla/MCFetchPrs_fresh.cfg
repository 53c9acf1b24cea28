SPECIFICATION Spec
CONSTANTS
    r1 = r1
    r2 = r2
    p1 = p1
    p2 = p2
    p3 = p3
    p4 = p4
    k1 = k1
    k2 = k2
    k3 = k3
    k4 = k4
    Repos <- MCRepos
    RepoList <- MCRepoList
    PRs <- MCPRs
    Matching <- MCMatching
    Views <- MCViews
    ScanKey <- MCSharedHead
    Gone <- MCGone
    Configs <- MCTwoLimits
    Threads = {t1}
    Reviews = {TRUE, FALSE}
    AllowReuse = FALSE
    AllowResume = FALSE
    MaxCrashes = 1
    MaxEdits = 2
    MaxList = 3
    LegacyTarget = 2
INVARIANTS
    TypeOK
    NoDuplicateCandidates
    ReviewShowsPool
PROPERTIES
    OnlyOperatorRemoves
    CompletedMeansJudged
    PoolContract
