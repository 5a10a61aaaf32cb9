SPECIFICATION FairSpec

CONSTANTS
    Txs = {t1, t2}
    Builds = {b1, b2}
    MaxGets = 1

INVARIANTS
    SummaryIsOwnListing
    ProgressIsExact

PROPERTIES
    BuildsEnd
    BuiltIsShown
