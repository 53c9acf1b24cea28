SPECIFICATION Spec
CONSTANTS
    Lines <- MCLines
    Relevant <- MCRelevant
    Support <- MCSupport
    Excluded <- MCExcluded
    Bullets = {"- item"}
    Normal <- MCNormal
    Packages <- MCPackages
    Python = {"py3 build"}
    External = {"go-base", "php-base"}
    Repos <- MCRepos
CHECK_DEADLOCK FALSE
INVARIANTS
    WalkIsStepwise
    LayersInOrder
    CommandsOnce
    TypeOK
