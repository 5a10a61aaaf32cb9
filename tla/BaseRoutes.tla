----------------------------- MODULE BaseRoutes -----------------------------
(***************************************************************************)
(* The handlers of routes/baseRouter.js, the pages of the explorer, and of *)
(* routes/cleanupRouter.js, in the terms of module Handlers.               *)
(***************************************************************************)
EXTENDS Handlers, SequencesExt

\* cleanupRouter: urls with a doubled path are sent to the page they mean.
DoubledPaths ==
    { On(name, <<Ends(<<>>, Redirect)>>) :
        name \in {"GET /block/block", "GET /block/address", "GET /block/tx", "GET /tx/tx", "GET /tx/block",
                  "GET /block-height/address", "GET /block-height/tx", "GET /block-height/block-height"} }

\* What the homepage asks for, all at once, and what of it the difficulty and
\* halving estimates read: the first header of the period and the newest block.
HomeCalls ==
    {"getMempoolInfo", "getMiningInfo", "getSmartFeeEstimates", "getNetworkHashrate",
     "getBlocksStatsByHeight", "getBlockHeaderByHeight", "getBlocksByHeight"}
HomeEstimates == {"getBlockHeaderByHeight", "getBlocksByHeight"}

\* Without a host the homepage is the connect form.
Home ==
    On("GET /", <<
        OnlyWith({"noHost"}, Ends(<<>>, Page("connect"))),
        OnlyWith({"host"}, PageWithCatch("index", <<Await("getBlockchainInfo"), Settle(HomeCalls, HomeEstimates)>>))>>)

NodeDetails ==
    On("GET /node-details", <<PageWithCatch("node-details", <<
        Settle({"getBlockchainInfo", "getDeploymentInfo", "getNetworkInfo", "getUptimeSeconds", "getNetTotals"}, {})>>)>>)

MempoolSummaryPage == On("GET /mempool-summary", <<PageWithCatch("mempool-summary", <<>>)>>)

Peers ==
    On("GET /peers", <<
        PageWithCatch("peers", <<Await("getPeerSummary")>>),
        PageWithCatch("peers", <<Await("getPeerSummary"), Await("geoLocateIpAddresses")>>)>>)

\* The client it builds is of a class the module does not import: it always throws.
Connect == On("POST /connect", <<Ends(<<Raises>>, Redirect)>>)

Disconnect == On("GET /disconnect", <<Ends(<<>>, Redirect)>>)

\* The cookie is parsed when there is a setting to add to it.
ChangeSetting == On("GET /changeSetting", <<Ends(<<>>, Redirect), Ends(<<MayRaise>>, Redirect)>>)

SessionData == On("GET /session-data", <<Ends(<<>>, Redirect)>>)

UserSettings == On("GET /user-settings", <<PlainPage("user-settings", <<>>)>>)

Blocks ==
    On("GET /blocks", <<PageWithCatch("blocks", <<
        Await("getBlockchainInfo"), Settle({"getBlocksByHeight", "getBlocksStatsByHeight"}, {})>>)>>)

MiningSummaryPage == On("GET /mining-summary", <<PageWithCatch("mining-summary", <<Await("getBlockchainInfo")>>)>>)

\* The addresses of a key are looked up one after the other; two stand for all.
KeyBalance ==
    <<Await("getAddress"), Await("getAddressDetails"), Await("getAddress"), Await("getAddressDetails")>>

\* Keys of the three single-signature kinds have addresses, if they can be
\* decoded; for any other key the loop over the addresses meets undefined.
ExtendedPublicKey ==
    On("GET /xyzpub/:extendedPubkey", <<
        PageWithCatch("extended-public-key", <<MayRaise>> \o KeyBalance),
        PageWithCatch("extended-public-key", <<Raises>>)>>)

BlockStats == On("GET /block-stats", <<PageWithCatch("block-stats", <<Await("getBlockchainInfo")>>)>>)

MiningTemplate == On("GET /mining-template", <<Ends(<<>>, Redirect)>>)

NextBlock == On("GET /next-block", <<PlainPage("next-block", <<Await("getBlockTemplate")>>)>>)

SearchForm == On("GET /search", <<PlainPage("search", <<>>)>>)

\* Nothing to search, a key, an address or a query nobody understands: an
\* immediate redirect.  64 characters: a transaction, else a block, else back.
\* A number: a height, else back.
Search ==
    On("POST /search", <<
        Ends(<<>>, Redirect),
        Handler(<< <<Await("getRawTransaction"), Redirect>>, <<Await("getBlockByHash"), Redirect>>, <<Redirect>> >>, "lost"),
        Handler(<< <<Await("getBlockByHeight"), Redirect>>, <<Redirect>> >>, "lost")>>)

BlockHeight ==
    On("GET /block-height/:blockHeight", <<PageWithCatch("block", <<
        Await("getBlockByHeight"),
        Settle({"getBlockByHashWithTransactions", "getBlockStats"}, {"getBlockByHashWithTransactions"})>>)>>)

Block ==
    On("GET /block/:blockHash", <<PageWithCatch("block", <<
        Settle({"getBlockByHashWithTransactions", "getBlockStats"}, {"getBlockByHashWithTransactions"})>>)>>)

PredictedBlocks == On("GET /predicted-blocks", <<PageWithCatch("predicted-blocks", <<>>)>>)

\* timePromise is given a promise where it calls a function: it always throws.
PredictedBlocksOld == On("GET /predicted-blocks-old", <<PageWithCatch("predicted-blocks", <<Raises>>)>>)

\* With a hash, or with a height, whose lookup has no catch.
BlockAnalysis ==
    LET Parts(first) == << first \o <<Await("getBlockByHash"), Page("block-analysis"), PassOn>>,
                           <<Page("block-analysis"), PassOn>> >>
    IN  On("GET /block-analysis/:blockHashOrHeight", <<
            Handler(Parts(<<>>), "lost"),
            Handler(Parts(<<Uncaught("getBlockByHeight")>>), "lost")>>)

BlockAnalysisSearch == On("GET /block-analysis", <<PlainPage("block-analysis-search", <<>>)>>)

\* Rewrites the url and leaves the request to the handler of /tx/:transactionId.
TransactionAtHeight == On("GET /tx/:transactionId@:blockHeight", <<Handler(<< <<PassOn>> >>, "errorPage")>>)

\* Confirmed, in the mempool, and found by the height of its block.
Transaction ==
    LET Confirmed == Settle({"getTxUtxos", "getblockheader"}, {})
        Unconfirmed == Settle({"getTxUtxos", "getMempoolTxDetails"}, {})
        Lookup == Await("getRawTransactionsWithInputs")
    IN  On("GET /tx/:transactionId", <<
            PageWithCatch("transaction", <<Lookup, Confirmed>>),
            PageWithCatch("transaction", <<Lookup, Unconfirmed>>),
            PageWithCatch("transaction", <<Await("getBlockByHeight"), Lookup, Confirmed>>)>>)

\* The history of an address, the tip and the QR code; a failure of any is shown
\* on the page.  blockchain.com's history in ascending order never comes when its
\* first request fails: the catch block throws inside the promise it should reject.
AddressLookups ==
    LET Rest == {"getBlockchainInfo", "toDataURL"}
    IN  {<<Settle({"getAddressDetails"} \cup Rest, {})>>, <<Uncaught("getAddressDetails"), Settle(Rest, {})>>}

\* An address the node does not know has no script to hash.  Crawlers get no history.
Address ==
    LET Known(lookups) == PageWithCatch("address", <<Await("getAddress"), MayRaise>> \o lookups)
    IN  On("GET /address/:address",
            Append(SetToSeq({Known(lookups) : lookups \in AddressLookups}),
                   PageWithCatch("address", <<Await("getAddress"), Settle({"toDataURL"}, {})>>)))

NextHalving ==
    On("GET /next-halving", <<
        PageWithCatch("next-halving", HalvingLookup(HalvingCalls)),
        PageWithCatch("next-halving", HalvingLookup({"getBlocksByHeight"}))>>)

RpcTerminalForm == On("GET /rpc-terminal", <<PlainJson(<<>>), PlainPage("rpc-terminal", <<>>)>>)

\* Not authenticated or a blacklisted command; a request without a command; a call of the node.
RpcTerminal == On("POST /rpc-terminal", <<PlainJson(<<>>), PlainJson(<<Raises>>), JsonWithCatch(<<Await("getRpcDataWithParams")>>)>>)

\* A method is executed when its arguments can be converted and the request has
\* a csrf token; a rejection by the node is shown on the page.
ExecuteMethod == <<MayRaise, Await("forceCsrf"), Settle({"getRpcDataWithParams"}, {})>>

\* Not authenticated; the list of methods; the help of one; a blacklisted one,
\* whose arguments are converted before; one that is executed.
RpcBrowser ==
    LET Browser(steps) == PageWithCatch("rpc-browser", <<Await("getHelp")>> \o steps)
    IN  On("GET /rpc-browser", <<
            PlainJson(<<>>),
            Browser(<<>>),
            Browser(<<Await("getRpcMethodHelp")>>),
            Browser(<<Await("getRpcMethodHelp"), MayRaise>>),
            Browser(<<Await("getRpcMethodHelp")>> \o ExecuteMethod)>>)

TerminalForm == On("GET /terminal", <<PlainPage("terminal", <<>>)>>)

Terminal == On("POST /terminal", <<PlainJson(<<MayRaise>>)>>)

MempoolTransactions ==
    On("GET /mempool-transactions", <<PageWithCatch("mempool-transactions", <<
        Await("getMempoolTxids"), Settle({"getRawTransactionsWithInputs", "getMempoolTxDetails"}, {})>>)>>)

TxStats ==
    On("GET /tx-stats", <<PlainPage("tx-stats", <<
        Await("getBlockchainInfo"),
        Settle({"getTxStats all", "getTxStats day", "getTxStats week", "getTxStats month", "getTxStats year"}, {})>>)>>)

DifficultyHistoryPage ==
    On("GET /difficulty-history", <<
        Handler(<< <<Await("getBlockchainInfo"), Page("difficulty-history"), PassOn>>,
                   <<Page("difficulty-history"), PassOn>> >>, "lost")>>)

UtxoSetPage == On("GET /utxo-set", <<PlainPage("utxo-set", <<>>)>>)
About == On("GET /about", <<PlainPage("about", <<>>)>>)
Tools == On("GET /tools", <<PlainPage("tools", <<>>)>>)
Changelog == On("GET /changelog", <<PlainPage("changelog", <<MayRaise>>)>>)
Fun == On("GET /fun", <<PlainPage("fun", <<>>)>>)
Quotes == On("GET /quotes", <<PlainPage("quotes", <<>>)>>)
Holidays == On("GET /holidays", <<PlainPage("holidays", <<>>)>>)

\* A quote listed twice is shown under its first number; there may be no such number.
Quote == On("GET /quote/:quoteIndex", <<Ends(<<>>, Redirect), PlainPage("quote", <<>>), PlainPage("quote", <<Raises>>)>>)

Whitepaper == On("GET /bitcoin-whitepaper", <<PlainPage("bitcoin-whitepaper", <<>>)>>)

\* All outputs of one transaction at once: one missing output is enough to fail.
WhitepaperPdf ==
    On("GET /bitcoin.pdf", <<Handler(<< <<Await("getTxOut"), Json>>, <<Page("transaction"), PassOn>> >>, "lost")>>)

BaseRoutes ==
    DoubledPaths \cup
    {Home, NodeDetails, MempoolSummaryPage, Peers, Connect, Disconnect, ChangeSetting, SessionData, UserSettings,
     Blocks, MiningSummaryPage, ExtendedPublicKey, BlockStats, MiningTemplate, NextBlock, SearchForm, Search,
     BlockHeight, Block, PredictedBlocks, PredictedBlocksOld, BlockAnalysis, BlockAnalysisSearch,
     TransactionAtHeight, Transaction, Address, NextHalving, RpcTerminalForm, RpcTerminal, RpcBrowser,
     TerminalForm, Terminal, MempoolTransactions, TxStats, DifficultyHistoryPage, UtxoSetPage, About, Tools,
     Changelog, Fun, Quotes, Holidays, Quote, Whitepaper, WhitepaperPdf}
=============================================================================
