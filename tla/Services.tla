------------------------------ MODULE Services ------------------------------
(***************************************************************************)
(* Twelve parts of the explorer that share no state with one another: the  *)
(* browser session, the startup, the saved tables, the Electrum pool, the  *)
(* single sign-on token, the pages of an address's history, the search of  *)
(* an extended key, the lookup of a transaction, the pages of a block, the *)
(* block prediction, the statistics and the charts of the chain. A         *)
(* behaviour of this module runs one of them, the one "active" names; the  *)
(* interleavings of two add no state a part could see.                     *)
(***************************************************************************)
EXTENDS Integers, Sequences, FiniteSets

\* Of each part; its module explains them.
CONSTANTS
    Requests, Settings, DefaultSetting,
    Attempts, Interval, Timeout, MaxErrors, OnMain,
    Ips, Heights, Lookups, MaxRestarts,
    Servers, Hashes, MaxCloses,
    MaxTokens,
    HistoryLimits, addressTxPageSize, HistoryMaxTxs, BlockcypherCap, BlockchairCap,
    GapLimit, TxLimit, AddressLimits, MaxIndex, AddressMaxTxs, MaxNoTxids,
    Wallets, Depth, MaxTip,
    Count, Weights, DepartedWeight, MaxBlockWeight, MinTxWeight, MaxBlocks,
    Measures, dataPointsToKeep, dataPointsPerDownsample, downsamplesToKeep, MaxPeriods,
    Outputs, BlockMaxTxs, MaxSpent, txMaxInput, PageLimits, Offsets,
    MaxPoints, MaxHeight

\* What is stored in the place of a message or a setting is neither.
ASSUME RequestsAssumption == "noMessage" \notin Requests
ASSUME SettingsAssumption == (Settings \cup {DefaultSetting}) \cap {"unset", "noSettings"} = {}

\* The client gives up a call before the next attempt: by default after 5 of 30 seconds.
ASSUME TimeoutAssumption == Interval \in Nat /\ Timeout \in Nat /\ Timeout < Interval

\* A page is a number of transactions behind an offset.
ASSUME PageAssumption == PageLimits \subseteq Nat /\ Offsets \subseteq Nat /\ txMaxInput \in Nat
ASSUME XpubAssumption == GapLimit \in Nat /\ TxLimit \in Nat \ {0} /\ {MaxIndex, AddressMaxTxs} \subseteq Nat

\* A client that steps the offset asks for one transaction or more.
ASSUME HistoryAssumption ==
    /\ HistoryLimits \cup {addressTxPageSize} \subseteq Nat \ {0}
    /\ {HistoryMaxTxs, BlockcypherCap, BlockchairCap} \subseteq Nat

\* An output is one of a transaction.
ASSUME OutputsAssumption == \A o \in Outputs : o = <<o[1], o[2]>>

\* The series keep some points; the downsampled one may keep none.
ASSUME StatisticsAssumption ==
    /\ Measures \subseteq Nat /\ downsamplesToKeep \in Nat
    /\ dataPointsToKeep \in Nat \ {0} /\ dataPointsPerDownsample \in Nat \ {0}

\* Transactions and blocks have a weight, and blocks are predicted.
ASSUME PredictionAssumption ==
    /\ Weights \subseteq Nat /\ {Count, DepartedWeight, MaxBlockWeight, MinTxWeight} \subseteq Nat
    /\ MaxBlocks \in Nat \ {0}

ASSUME BoundsAssumption ==
    /\ {MaxErrors, MaxRestarts, MaxCloses, Depth, MaxTip, MaxNoTxids, MaxPeriods, MaxPoints, MaxHeight} \subseteq Nat
    /\ MaxTokens \in Nat \ {0}

VARIABLES
    active,
    cookie, stored, visits, shown, overlapped, restarted,
    sinceFired, intervalRuns, attempts, waited, activeBlockchain, rpcUp,
    timersSet, indexCheck, indexErrors, txindexAvailable, oldNode,
    process, restarts, ipMemoryCache, ipMemoryCacheNewItems, ipSaveFailed, ipRedis, ipFile, difficultyFile,
    difficultyCache, difficultyCacheDirty, locating,
    electrumClients, connected, closes, requests,
    server, token, made, tokenFile, tickets, cookies, logins, leftOver,
    xpubAt, addressLimit, addressCount, receiveOrChange, gapCounts, txOffset, txCounts, used, emptyAddresses, noTxids,
    addressApi, historyLength, reader, historyAt, sort, limit, offset, counted, listed, order, started, grew,
    tip, inMempool, confirmedAt, inWallet, nodeHasWallets, nodeIndex, electrumTxIndex, indexKnown,
    lookupAt, blockhash, named, walletsLeft, height, lowest, troubled,
    packingAt, weight, ancestors, parents, outdated, unAdded, packingIndex, indexesToRemove, added, currentBlock,
    blocks,
    tracked, peaks, appStats, downsampledAppStats,
    spends, prunedBlockchain, pageIndexKnown, pageAt, txLimit, pageOffset, headerOnly, txids, withInputs, outputs,
    failed, page,
    chainHeight

sessionVars == <<cookie, stored, visits, shown, overlapped, restarted>>
startupVars == <<sinceFired, intervalRuns, attempts, waited, activeBlockchain, rpcUp,
                 timersSet, indexCheck, indexErrors, txindexAvailable, oldNode>>
tablesVars == <<process, restarts, ipMemoryCache, ipMemoryCacheNewItems, ipSaveFailed, ipRedis, ipFile,
                difficultyFile, difficultyCache, difficultyCacheDirty, locating>>
electrumVars == <<electrumClients, connected, closes, requests>>
ssoVars == <<server, token, made, tokenFile, tickets, cookies, logins, leftOver>>
xpubVars == <<xpubAt, addressLimit, addressCount, receiveOrChange, gapCounts, txOffset, txCounts, used,
              emptyAddresses, noTxids>>
historyVars == <<addressApi, historyLength, reader, historyAt, sort, limit, offset, counted, listed, order,
                 started, grew>>
lookupVars == <<tip, inMempool, confirmedAt, inWallet, nodeHasWallets, nodeIndex, electrumTxIndex, indexKnown,
                lookupAt, blockhash, named, walletsLeft, height, lowest, troubled>>
predictionVars == <<packingAt, weight, ancestors, parents, outdated, unAdded, packingIndex, indexesToRemove, added,
                    currentBlock, blocks>>
statisticsVars == <<tracked, peaks, appStats, downsampledAppStats>>
pageVars == <<spends, prunedBlockchain, pageIndexKnown, pageAt, txLimit, pageOffset, headerOnly, txids, withInputs, outputs,
              failed, page>>
chainVars == <<chainHeight>>
vars == <<active, sessionVars, startupVars, tablesVars, electrumVars, ssoVars, historyVars,
          xpubVars, lookupVars, predictionVars, statisticsVars, pageVars, chainVars>>

Session == INSTANCE Sessions WITH Values <- Settings, Default <- DefaultSetting

Startup == INSTANCE NodeStartup

Tables == INSTANCE SavedTables

Electrum == INSTANCE ElectrumPool WITH Data <- Hashes

Sso == INSTANCE SsoToken

History == INSTANCE AddressHistory WITH
    txCount <- historyLength, at <- historyAt, shown <- listed, Limits <- HistoryLimits, MaxTxs <- HistoryMaxTxs

Xpub == INSTANCE XpubSearch WITH at <- xpubAt, Limits <- AddressLimits, MaxTxs <- AddressMaxTxs

Lookup == INSTANCE TransactionLookup WITH at <- lookupAt, txindexAvailable <- indexKnown, MaxHeight <- MaxTip

Prediction == INSTANCE BlockPrediction WITH at <- packingAt, i <- packingIndex

Stats == INSTANCE Statistics WITH Values <- Measures

Page == INSTANCE BlockPage WITH
    at <- pageAt, txindexAvailable <- pageIndexKnown, txOffset <- pageOffset, MaxTxs <- BlockMaxTxs,
    Limits <- PageLimits

Chain == INSTANCE ChainArithmetic WITH height <- chainHeight

Parts == {"session", "startup", "tables", "electrum", "sso", "history", "xpub", "lookup", "prediction",
          "statistics", "page", "chain"}

\* Of a part that does not run one initial state is enough.
Init ==
    /\ active \in Parts
    /\ active # "startup" => oldNode = FALSE
    /\ active # "lookup" => /\ tip = 1 /\ confirmedAt = 0 /\ inMempool = FALSE
                           /\ inWallet = {} /\ nodeHasWallets = FALSE /\ nodeIndex = FALSE
                           /\ electrumTxIndex = FALSE
    /\ active # "history" => addressApi = "none" /\ historyLength = 0
    /\ active # "page" => spends = << <<>> >> /\ prunedBlockchain = FALSE
    /\ Session!Init /\ Startup!Init /\ Tables!Init /\ Electrum!Init /\ Sso!Init
    /\ History!Init /\ Xpub!Init /\ Lookup!Init /\ Prediction!Init /\ Stats!Init /\ Page!Init /\ Chain!Init

SessionStep ==
    /\ active = "session" /\ Session!Next
    /\ UNCHANGED <<active, startupVars, tablesVars, electrumVars, ssoVars, historyVars,
                   xpubVars, lookupVars, predictionVars, statisticsVars, pageVars, chainVars>>

StartupStep ==
    /\ active = "startup" /\ Startup!Next
    /\ UNCHANGED <<active, sessionVars, tablesVars, electrumVars, ssoVars, historyVars,
                   xpubVars, lookupVars, predictionVars, statisticsVars, pageVars, chainVars>>

TablesStep ==
    /\ active = "tables" /\ Tables!Next
    /\ UNCHANGED <<active, sessionVars, startupVars, electrumVars, ssoVars, historyVars,
                   xpubVars, lookupVars, predictionVars, statisticsVars, pageVars, chainVars>>

ElectrumStep ==
    /\ active = "electrum" /\ Electrum!Next
    /\ UNCHANGED <<active, sessionVars, startupVars, tablesVars, ssoVars, historyVars,
                   xpubVars, lookupVars, predictionVars, statisticsVars, pageVars, chainVars>>

SsoStep ==
    /\ active = "sso" /\ Sso!Next
    /\ UNCHANGED <<active, sessionVars, startupVars, tablesVars, electrumVars, historyVars,
                   xpubVars, lookupVars, predictionVars, statisticsVars, pageVars, chainVars>>

HistoryStep ==
    /\ active = "history" /\ History!Next
    /\ UNCHANGED <<active, sessionVars, startupVars, tablesVars, electrumVars, ssoVars,
                   xpubVars, lookupVars, predictionVars, statisticsVars, pageVars, chainVars>>

XpubStep ==
    /\ active = "xpub" /\ Xpub!Next
    /\ UNCHANGED <<active, sessionVars, startupVars, tablesVars, electrumVars, ssoVars,
                   historyVars, lookupVars, predictionVars, statisticsVars, pageVars, chainVars>>

LookupStep ==
    /\ active = "lookup" /\ Lookup!Next
    /\ UNCHANGED <<active, sessionVars, startupVars, tablesVars, electrumVars, ssoVars,
                   historyVars, xpubVars, predictionVars, statisticsVars, pageVars, chainVars>>

PredictionStep ==
    /\ active = "prediction" /\ Prediction!Next
    /\ UNCHANGED <<active, sessionVars, startupVars, tablesVars, electrumVars, ssoVars,
                   historyVars, xpubVars, lookupVars, statisticsVars, pageVars, chainVars>>

StatisticsStep ==
    /\ active = "statistics" /\ Stats!Next
    /\ UNCHANGED <<active, sessionVars, startupVars, tablesVars, electrumVars, ssoVars,
                   historyVars, xpubVars, lookupVars, predictionVars, pageVars, chainVars>>

PageStep ==
    /\ active = "page" /\ Page!Next
    /\ UNCHANGED <<active, sessionVars, startupVars, tablesVars, electrumVars, ssoVars,
                   historyVars, xpubVars, lookupVars, predictionVars, statisticsVars, chainVars>>

ChainStep ==
    /\ active = "chain" /\ Chain!Next
    /\ UNCHANGED <<active, sessionVars, startupVars, tablesVars, electrumVars, ssoVars,
                   historyVars, xpubVars, lookupVars, predictionVars, statisticsVars, pageVars>>

Next ==
    \/ SessionStep \/ StartupStep \/ TablesStep \/ ElectrumStep \/ SsoStep
    \/ HistoryStep \/ XpubStep \/ LookupStep \/ PredictionStep \/ StatisticsStep
    \/ PageStep \/ ChainStep

Spec == Init /\ [][Next]_vars

\* The fairness of the startup, the only part with a liveness property.
FairSpec == Spec /\ WF_vars(StartupStep /\ Startup!CheckEnds)

\* Each part's state keeps its shape.
TypeOK ==
    /\ Session!TypeOK /\ Startup!TypeOK /\ Tables!TypeOK /\ Electrum!TypeOK /\ Sso!TypeOK
    /\ History!TypeOK /\ Xpub!TypeOK /\ Lookup!TypeOK /\ Prediction!TypeOK /\ Stats!TypeOK /\ Page!TypeOK

\* Defined and explained in Sessions.
MessageShownOnce == Session!MessageShownOnce
SessionAgreesWithCookie == Session!SessionAgreesWithCookie

\* Defined and explained in NodeStartup.
VerifiedOnce == Startup!VerifiedOnce
IndexIsAssessed == Startup!IndexIsAssessed

\* Defined and explained in SavedTables.
TablesAreSaved == Tables!TablesAreSaved

\* Defined and explained in ElectrumPool.
BlockHashIsAgreed == Electrum!BlockHashIsAgreed

\* Defined and explained in SsoToken.
TokenIsSingleUse == Sso!TokenIsSingleUse

\* Defined and explained in AddressHistory.
HistoryIsListed == History!HistoryIsListed
LinksKeepOrder == History!LinksKeepOrder

\* Defined and explained in XpubSearch.
XpubFindsAll == Xpub!XpubFindsAll

\* Defined and explained in TransactionLookup.
TransactionIsFound == Lookup!TransactionIsFound

\* Defined and explained in BlockPrediction.
PredictionIsSound == Prediction!PredictionIsSound

\* Defined and explained in Statistics.
PeaksAreShown == Stats!PeaksAreShown

\* Defined and explained in BlockPage.
PageIsOfBlock == Page!PageIsOfBlock

\* Defined and explained in ChainArithmetic.
WindowsTile == Chain!WindowsTile
=============================================================================
