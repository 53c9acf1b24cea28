SPECIFICATION Spec
CONSTANTS
    Scripts <- MCScripts
    Codes <- MCCodes
    Opens <- MCOpens
    Closes <- MCCloses
    Heads <- MCHeads
    Colons <- MCColons
    Interop <- MCInterop
    Anchors <- MCAnchors
    Langs = {"block", "Python", "other"}
CHECK_DEADLOCK FALSE
INVARIANTS
    TypeOK
    RangesAreTheAddedLines
    AttemptsWiden
    EveryRangeTried
    TruthRestoresFromCode
