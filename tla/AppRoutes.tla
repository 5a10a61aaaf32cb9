------------------------------ MODULE AppRoutes ------------------------------
(***************************************************************************)
(* The handlers the explorer's own pages call: routes/internalApiRouter.js, *)
(* routes/snippetRouter.js, routes/adminRouter.js and, in a local          *)
(* environment, routes/testRouter.js, in the terms of module Handlers.     *)
(***************************************************************************)
EXTENDS Handlers

(***************************************************************************)
(* routes/internalApiRouter.js                                             *)
(***************************************************************************)
BlocksByHeight == On("GET /internal-api/blocks-by-height", <<Ends(<<Await("getBlocksByHeight")>>, Json)>>)

\* Two promises without a catch.
BlockHeadersByHeight ==
    On("GET /internal-api/block-headers-by-height", <<PlainJson(<<Uncaught("getBlockHeadersByHeight")>>)>>)
BlockStatsByHeight ==
    On("GET /internal-api/block-stats-by-height", <<PlainJson(<<Uncaught("getBlocksStatsByHeight")>>)>>)

\* Mutant: the promise has lost its catch.
MempoolTxsUncaught == On("GET /internal-api/mempool-txs", <<PlainJson(<<Uncaught("getMempoolTxDetails")>>)>>)

MempoolTxs ==
    On("GET /internal-api/mempool-txs", <<
        Handler(<< <<Await("getMempoolTxDetails"), Json, PassOn>>, <<Json, PassOn>> >>, "lost")>>)

DifficultyByHeight ==
    On("GET /internal-api/difficulty-by-height", <<PlainJson(<<Await("getDifficultyByBlockHeights")>>)>>)

\* The status and the result of a job: the stored value or a substitute.
PredictedBlocksStatus == On("GET /internal-api/predicted-blocks-status", <<PlainJson(<<>>)>>)
GetPredictedBlocks == On("GET /internal-api/get-predicted-blocks", <<PlainJson(<<>>)>>)
MempoolSummaryStatus == On("GET /internal-api/mempool-summary-status", <<PlainJson(<<>>)>>)
GetMempoolSummary == On("GET /internal-api/get-mempool-summary", <<PlainJson(<<>>)>>)
MiningSummaryStatus == On("GET /internal-api/mining-summary-status", <<PlainJson(<<>>)>>)
GetMiningSummary == On("GET /internal-api/get-mining-summary", <<PlainJson(<<>>)>>)

\* These two answer and pass on before the job starts; what becomes of the job
\* (modules MempoolSummaries and MiningSummary) does not touch the request.
BuildPredictedBlocks == On("GET /internal-api/build-predicted-blocks", <<JsonBeforeJob>>)
BuildMiningSummary == On("GET /internal-api/build-mining-summary", <<JsonBeforeJob>>)

\* This one answers when the job is done, and not at all when it fails.
BuildMempoolSummary ==
    On("GET /internal-api/build-mempool-summary", <<
        Handler(<< <<Await("buildMempoolSummary"), Json, PassOn>>, <<>> >>, "errorPage")>>)

\* Each summary is looked up on its own; a failed one is left out.
MempoolTxSummaries ==
    On("GET /internal-api/mempool-tx-summaries", <<JsonWithCatch(<<Settle({"getMempoolTxDetails"}, {})>>)>>)

RawTxWithInputs ==
    On("GET /internal-api/raw-tx-with-inputs", <<
        Handler(<< <<Await("getRawTransactionsWithInputs"), Json, PassOn>>, <<Json, PassOn>> >>, "lost")>>)

\* buildBlockAnalysisData goes from one transaction to the next (two stand for
\* all of them) in a promise without a catch, and calls back after the last.
BlockTxSummaries ==
    LET Lookup == Uncaught("getRawTransactionsWithInputs")
    IN  On("GET /internal-api/block-tx-summaries", <<PlainJson(<<Lookup, Lookup>>)>>)

FormatUtils == On("GET /internal-api/utils", <<PlainJson(<<MayRaise>>)>>)

(***************************************************************************)
(* routes/snippetRouter.js: fragments a page loads after itself.           *)
(***************************************************************************)
FormatCurrencyAmount == On("GET /snippet/formatCurrencyAmount", <<PlainPage("includes/value-display", <<>>)>>)
QuoteSnippet == On("GET /snippet/quote/random", <<PlainPage("snippets/quote", <<>>)>>)

NextBlockSnippet ==
    On("GET /snippet/next-block", <<Ends(<<Settle({"getNextBlockEstimate"}, {})>>, Page("snippets/index-next-block"))>>)

HalvingSnippet ==
    LET Countdown(needs) ==
            Handler(<< Append(HalvingLookup(needs), Page("snippets/index-halving-countdown")),
                       <<Page("snippets/index-halving-countdown")>> >>, "errorPage")
    IN  On("GET /snippet/index-halving-countdown", <<Countdown(HalvingCalls), Countdown({"getBlocksByHeight"})>>)

\* The summary is known or its fetch is switched off; otherwise it is asked for.
UtxoSetSnippet ==
    On("GET /snippet/utxo-set", <<
        Ends(<<>>, Page("snippets/utxo-set")),
        Ends(<<Settle({"getUtxoSetSummary"}, {})>>, Page("snippets/utxo-set"))>>)

TimezoneToast == On("GET /snippet/timezone-refresh-toast", <<Ends(<<>>, Page("snippets/tz-update-toast"))>>)
Timestamp == On("GET /snippet/timestamp", <<Ends(<<>>, Page("snippets/timestamp"))>>)

(***************************************************************************)
(* routes/adminRouter.js and routes/testRouter.js                          *)
(***************************************************************************)
Dashboard == On("GET /admin/dashboard", <<PlainPage("admin/dashboard", <<>>)>>)
OsStats == On("GET /admin/os-stats", <<PlainPage("admin/os-stats", <<>>)>>)
PerfLog == On("GET /admin/perf-log", <<PlainPage("admin/perf-log", <<>>)>>)
AppStats == On("GET /admin/app-stats", <<PlainPage("admin/app-stats", <<>>)>>)
ResetUserSettings == On("GET /admin/resetUserSettings", <<Ends(<<>>, Redirect)>>)

\* Asked from anywhere but the machine itself, it does nothing.
HeapDump == On("GET /admin/heapdump", <<Ends(<<MayRaise>>, Json), Handler(<< <<>> >>, "errorPage")>>)

\* One bare Promise.all.
TxDisplay == On("GET /test/tx-display", <<PlainPage("test/tx-display", <<Await("getRawTransactionsWithInputs")>>)>>)

AppRoutes ==
    {BlocksByHeight, BlockHeadersByHeight, BlockStatsByHeight, MempoolTxs, DifficultyByHeight,
     PredictedBlocksStatus, GetPredictedBlocks, MempoolSummaryStatus, GetMempoolSummary, MiningSummaryStatus,
     GetMiningSummary, BuildPredictedBlocks, BuildMiningSummary, BuildMempoolSummary, MempoolTxSummaries,
     RawTxWithInputs, BlockTxSummaries, FormatUtils, FormatCurrencyAmount, QuoteSnippet, NextBlockSnippet,
     HalvingSnippet, UtxoSetSnippet, TimezoneToast, Timestamp, Dashboard, OsStats, PerfLog, AppStats,
     ResetUserSettings, HeapDump, TxDisplay}
=============================================================================
