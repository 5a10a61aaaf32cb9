------------------------------ MODULE ApiRoutes ------------------------------
(***************************************************************************)
(* The handlers of routes/apiRouter.js, the public JSON interface, in the  *)
(* terms of module Handlers.                                               *)
(***************************************************************************)
EXTENDS Handlers

ApiDocs == On("GET /api/docs", <<PlainPage("api-docs", <<>>)>>)
ApiChangelog == On("GET /api/changelog", <<PlainPage("api-changelog", <<MayRaise>>)>>)
ApiVersion == On("GET /api/version", <<PlainJson(<<>>)>>)

ApiTip == On("GET /api/blocks/tip", <<JsonWithCatch(<<Await("getBlockchainInfo")>>)>>)
ApiTipHeight == On("GET /api/blocks/tip/height", <<JsonWithCatch(<<Await("getBlockchainInfo")>>)>>)

\* By hash, or by height, which is turned into a hash first.
ApiBlock ==
    On("GET /api/block/:hashOrHeight", <<
        JsonWithCatch(<<Await("getBlockByHash")>>),
        JsonWithCatch(<<Await("getBlockHashByHeight"), Await("getBlockByHash")>>)>>)

ApiBlockHeader ==
    On("GET /api/block/header/:hashOrHeight", <<
        JsonWithCatch(<<Await("getBlockHeaderByHash")>>),
        JsonWithCatch(<<Await("getBlockHashByHeight"), Await("getBlockHeaderByHash")>>)>>)

\* Confirmed and in the mempool; the amounts of the inputs are read in between.
ApiTransaction ==
    On("GET /api/tx/:txid", <<
        JsonWithCatch(<<Await("getRawTransactionsWithInputs"), MayRaise>>),
        JsonWithCatch(<<Await("getRawTransactionsWithInputs"), MayRaise, Await("getMempoolTxDetails")>>)>>)

ApiVolume == On("GET /api/tx/volume/24h", <<JsonWithCatch(<<>>)>>)

\* With the calculated supply, or with the estimate and its checkpoint, which
\* not every network has.
ApiCoins == On("GET /api/blockchain/coins", <<PlainJson(<<>>), PlainJson(<<Await("getBlockchainInfo"), MayRaise>>)>>)

ApiUtxoSet == On("GET /api/blockchain/utxo-set", <<PlainJson(<<Await("getUtxoSetSummary")>>)>>)

ApiNextHalving ==
    On("GET /api/blockchain/next-halving", <<
        JsonWithCatch(HalvingLookup(HalvingCalls)),
        JsonWithCatch(HalvingLookup({"getBlocksByHeight"}))>>)

\* A blocked address, one that cannot be parsed, and the history of the others:
\* without it txHistory is missing from the answer.  The last class is that of
\* BaseRoutes.Address.
ApiAddress ==
    On("GET /api/address/:address", <<
        Ends(<<>>, Json),
        JsonWithCatch(<<>>),
        JsonWithCatch(<<Await("getAddress"), MayRaise, Settle({"getAddressDetails"}, {})>>),
        JsonWithCatch(<<Await("getAddress"), MayRaise, Uncaught("getAddressDetails")>>)>>)

ApiXpubRedirect == On("GET /api/util/xyzpub/:extendedPubkey", <<Ends(<<>>, Redirect)>>)

\* The catch block answers nothing and passes the request on.
ApiXpub == On("GET /api/xyzpub/:extendedPubkey", <<Handler(<< <<MayRaise, Json, PassOn>>, <<PassOn>> >>, "errorPage")>>)

\* Mutant: the catch block of the route above.
ApiXpubTxidsPassedOn ==
    On("GET /api/xyzpub/txids/:extendedPubkey", <<Handler(<< <<Await("searchXpubTxids"), Json, PassOn>>, <<PassOn>> >>, "errorPage")>>)

\* Without an address API the search never ends (module XpubSearch).
ApiXpubTxids ==
    On("GET /api/xyzpub/txids/:extendedPubkey", <<
        JsonWithCatch(<<Await("searchXpubTxids")>>),
        JsonWithCatch(<<Uncaught("searchXpubTxids")>>)>>)
ApiXpubAddresses == On("GET /api/xyzpub/addresses/:extendedPubkey", <<JsonWithCatch(<<MayRaise>>)>>)

\* Each of the five rates is looked up on its own; a failed one is left out.
ApiHashrate ==
    On("GET /api/mining/hashrate", <<
        Handler(<< <<Settle({"1 day", "7 days", "30 days", "90 days", "365 days"}, {}), Json>>, <<Json>> >>, "errorPage")>>)

\* No try block: without one of the headers the arithmetic throws.
ApiDifficultyEstimate ==
    On("GET /api/mining/diff-adj-estimate", <<
        Ends(<<Await("getBlockchainInfo"), Settle({"tip header", "first header"}, {"tip header", "first header"})>>, Json)>>)

\* Whatever becomes of the block template, there is an answer.
ApiNextBlock == On("GET /api/mining/next-block", <<Ends(<<Settle({"getNextBlockEstimate"}, {})>>, Json)>>)
ApiNextBlockTxids == On("GET /api/mining/next-block/txids", <<Ends(<<Settle({"getNextBlockEstimate"}, {})>>, Json)>>)
ApiNextBlockIncludes ==
    On("GET /api/mining/next-block/includes/:txid", <<Ends(<<Settle({"getNextBlockEstimate"}, {})>>, Json)>>)

\* Without heights, with heights, and with a number of days before the tip.
ApiMinerSummary ==
    On("GET /api/mining/miner-summary", <<
        Ends(<<>>, Json),
        Ends(<<Await("buildMiningSummary")>>, Json),
        Ends(<<Await("getBlockchainInfo"), Await("buildMiningSummary")>>, Json)>>)

ApiMempoolSummary == On("GET /api/mempool/summary", <<Ends(<<Await("getMempoolInfo")>>, Json)>>)

ApiMempoolFees ==
    On("GET /api/mempool/fees", <<Ends(<<Await("getSmartFeeEstimates"), Await("getNextBlockEstimate")>>, Json)>>)

ApiPriceSats == On("GET /api/price/sats", <<PlainJson(<<>>)>>)

\* Without exchange rates the handler sets a field of a number, which throws in
\* strict mode; its promise ends in .catch(next).
ApiMarketCap == On("GET /api/price/marketcap", <<PlainJson(<<Raises>>), PlainJson(<<Await("getBlockchainInfo")>>)>>)

ApiPrice == On("GET /api/price", <<PlainJson(<<>>)>>)

ApiQuoteRandom == On("GET /api/quotes/random", <<PlainJson(<<>>)>>)
ApiQuotesAll == On("GET /api/quotes/all", <<PlainJson(<<>>)>>)

\* Mutant: what is not a number is answered after all.
NoQuoteIndexAnswered == Handler(<< <<Json>> >>, "errorPage")

\* Anything that is not a number is left without an answer: the two routes above
\* pass their requests on and must not be answered twice.
NoQuoteIndex == Handler(<< <<>> >>, "errorPage")
ApiQuote == On("GET /api/quotes/:quoteIndex", <<NoQuoteIndex, PlainJson(<<>>)>>)

ApiHolidaysAll == On("GET /api/holidays/all", <<PlainJson(<<>>)>>)
ApiHolidaysToday == On("GET /api/holidays/today", <<PlainJson(<<>>)>>)

\* The same for anything that is not a date.
NoDay == Handler(<< <<>> >>, "errorPage")
ApiHolidays == On("GET /api/holidays/:day", <<NoDay, PlainJson(<<>>)>>)

ApiRoutes ==
    {ApiDocs, ApiChangelog, ApiVersion, ApiTip, ApiTipHeight, ApiBlock, ApiBlockHeader, ApiTransaction, ApiVolume,
     ApiCoins, ApiUtxoSet, ApiNextHalving, ApiAddress, ApiXpubRedirect, ApiXpub, ApiXpubTxids, ApiXpubAddresses,
     ApiHashrate, ApiDifficultyEstimate, ApiNextBlock, ApiNextBlockTxids, ApiNextBlockIncludes, ApiMinerSummary,
     ApiMempoolSummary, ApiMempoolFees, ApiPriceSats, ApiMarketCap, ApiPrice, ApiQuoteRandom, ApiQuotesAll,
     ApiQuote, ApiHolidaysAll, ApiHolidaysToday, ApiHolidays}
=============================================================================
