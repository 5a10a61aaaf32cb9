CONSTANTS
    refresh1 = refresh1
    refresh2 = refresh2
    page = page
    api = api
    Jobs <- MCJobs
    Kind <- MCKind
    MaxTip = 2
    NoSummary = NoSummary
    Corrupt = Corrupt
SPECIFICATION FairSpec
PROPERTY SlowDeviceProtected
