CONSTANTS
    net1 = net1
    info1 = info1
    net2 = net2
    info2 = info2
    utxo = utxo
    x = x
    y = y
    Calls <- MCCalls
    Attempts <- MCAttempts
    UtxoCalls <- MCUtxoCalls
    Concurrency = 2
SPECIFICATION FairSpec
INVARIANTS
    TypeOK
    NoCallLost
    OnlyProbesUnverified
    StatsAgree
PROPERTIES
    TimedCallsSettle
    ServiceSpec
