SPECIFICATION Spec
CONSTANTS
    none = none
    Keys <- MCKeys
    NoKey = none
    Method <- MCMethod
    Items <- MCItems
    Tokens = 2
    Types <- MCTypes
    Hits <- MCHits
    Stars <- MCStars
    Target = 2
    SearchKey <- MCSearchKey
INVARIANTS
    EveryTokenTried
