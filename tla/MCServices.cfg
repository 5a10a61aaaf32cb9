CONSTANTS
    Requests = {r1, r2, r3}
    Settings = {dark}
    DefaultSetting = light
    Attempts = {a1, a2, a3}
    Interval = 6
    Timeout = 1
    MaxErrors = 2
    OnMain = TRUE
    Ips = {ip1, ip2}
    Heights = {h1, h2}
    Lookups = {l1}
    MaxRestarts = 1
    Servers = {s1, s2, s3}
    hash1 = hash1
    hash2 = hash2
    Hashes = {hash1, hash2}
    MaxCloses = 1
    MaxTokens = 5
    HistoryLimits = {1, 2, 3}
    addressTxPageSize = 2
    HistoryMaxTxs = 5
    BlockcypherCap = 4
    BlockchairCap = 2
    GapLimit = 2
    TxLimit = 2
    AddressLimits = {2}
    MaxIndex = 2
    AddressMaxTxs = 3
    MaxNoTxids = 1
    Wallets = {w1, w2}
    Depth = 2
    MaxTip = 4
    Count = 3
    Weights = {1, 2}
    DepartedWeight = 1
    MaxBlockWeight = 3
    MinTxWeight = 1
    MaxBlocks = 3
    Measures = {0, 1, 2}
    dataPointsToKeep = 3
    dataPointsPerDownsample = 2
    downsamplesToKeep = 2
    MaxPeriods = 9
    Outputs <- MCOutputs
    BlockMaxTxs = 3
    MaxSpent = 3
    txMaxInput = 2
    PageLimits = {1, 2}
    Offsets = {0, 1, 2, 3}
    MaxPoints = 9
    MaxHeight = 40
SPECIFICATION FairSpec
INVARIANTS
    TypeOK
    MessageShownOnce
    SessionAgreesWithCookie
    VerifiedOnce
    TablesAreSaved
    BlockHashIsAgreed
    TokenIsSingleUse
    HistoryIsListed
    XpubFindsAll
    TransactionIsFound
    PredictionIsSound
    PeaksAreShown
    PageIsOfBlock
    WindowsTile
PROPERTIES
    IndexIsAssessed
\* The bounds end every part: attempts, lookups and tokens are used up.
CHECK_DEADLOCK FALSE
