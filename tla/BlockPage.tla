------------------------------ MODULE BlockPage ------------------------------
(***************************************************************************)
(* One page of a block's transactions with the outputs their inputs spend: *)
(* getBlockByHashWithTransactions and getRawTransactionsWithInputs of      *)
(* app/api/coreApi.js, for a node whose transaction index may become known *)
(* while the page is collected, and which may be pruned: where it does not *)
(* give a block out, getBlockByHash of app/api/rpcApi.js takes the block's *)
(* header, and the page goes on with a block that has no transactions.     *)
(*                                                                         *)
(* A transaction of the block is its number, 1 is the coinbase, and 0 is   *)
(* what the empty list of a header has in the coinbase's place; an output  *)
(* is <<transaction, number>>.  The calls for several transactions run     *)
(* together, and the first that fails fails them all.                      *)
(***************************************************************************)
EXTENDS Naturals, Sequences, FiniteSets, FiniteSetsExt

CONSTANTS
    Outputs,        \* the outputs that can be spent
    MaxTxs,         \* transactions of a block
    MaxSpent,       \* inputs of a transaction
    txMaxInput,     \* of config.site: inputs shown of a transaction
    Limits, Offsets \* of the page

VARIABLES
    spends,             \* the block: for each transaction the outputs its inputs spend
    prunedBlockchain,
    txindexAvailable,
    at,
    txLimit, txOffset,
    headerOnly,         \* whether the block came as its header
    txids,              \* the transactions to ask for
    withInputs,         \* whether the index was known when they were asked for
    outputs,            \* the summarised outputs that came
    failed,             \* whether a call for them failed
    page                \* what is shown: the transactions, their inputs and the coinbase, 0 without one

vars == <<spends, prunedBlockchain, txindexAvailable, at, txLimit, txOffset, headerOnly, txids, withInputs, outputs,
          failed, page>>
node == <<spends, prunedBlockchain, txindexAvailable>>

NoPage == [transactions |-> <<>>, inputs |-> <<>>, coinbaseTx |-> 0]

Numbers == DOMAIN spends

\* The block on the chain has a coinbase, whether the node gives it out or not; no
\* output is spent twice, and only the coinbase spends none.
Init ==
    /\ \E count \in 1 .. MaxTxs : spends \in [1 .. count -> UNION {[1 .. k -> Outputs] : k \in 0 .. MaxSpent}]
    /\ \A t \in Numbers : spends[t] = <<>> <=> t = 1
    /\ \A t, u \in Numbers : \A i \in DOMAIN spends[t], j \in DOMAIN spends[u] :
         spends[t][i] = spends[u][j] => t = u /\ i = j
    /\ prunedBlockchain \in BOOLEAN
    /\ txindexAvailable = FALSE
    /\ at = "idle"
    /\ txLimit = 0 /\ txOffset = 0 /\ headerOnly = FALSE /\ txids = <<>>
    /\ withInputs = FALSE /\ outputs = {} /\ failed = FALSE
    /\ page = NoPage

\* assessTxindexAvailability
LearnIndex ==
    /\ ~txindexAvailable
    /\ txindexAvailable' = TRUE
    /\ UNCHANGED <<spends, prunedBlockchain, at, txLimit, txOffset, headerOnly, txids, withInputs, outputs, failed,
                   page>>

GetBlock(limit, offset) ==
    /\ at = "idle"
    /\ at' = "block" /\ txLimit' = limit /\ txOffset' = offset
    /\ UNCHANGED <<node, headerOnly, txids, withInputs, outputs, failed, page>>

\* block.tx of a block that came whole.
Transactions == [t \in Numbers |-> t]

\* tx[0] of an empty list.
Undefined == 0

\* The transactions of the page, behind the first page together with tx[0].
Listed(tx) ==
    LET onPage == SubSeq(tx, txOffset + 1, Min({txOffset + txLimit, Len(tx)}))
    IN  IF txOffset > 0 THEN <<IF tx = <<>> THEN Undefined ELSE tx[1]>> \o onPage ELSE onPage

\* The block comes with its transactions and its coinbase; when getblock or the
\* lookup of the coinbase fails its header comes with an empty list instead, and
\* when getblockheader fails too the page is rejected.
BlockArrives ==
    /\ at = "block"
    /\ \/ /\ at' = "transactions" /\ withInputs' = txindexAvailable
          /\ headerOnly' \in BOOLEAN
          /\ txids' = Listed(IF headerOnly' THEN <<>> ELSE Transactions)
          /\ page' = [page EXCEPT !.coinbaseTx = IF headerOnly' THEN Undefined ELSE 1]
       \/ at' = "rejected" /\ UNCHANGED <<headerOnly, txids, withInputs, page>>
    /\ UNCHANGED <<node, txLimit, txOffset, outputs, failed>>

\* The inputs of t that are looked up, no more than txMaxInput.
Shown(t) == 1 .. Min({txMaxInput, Len(spends[t])})

\* Mutant: the outputs are kept by their transaction alone.
KeyByTxid(txid, n) == <<txid>>

\* The key under which a summarised output is kept and looked for.
Key(txid, n) == <<txid, n>>

\* txInputsByTransaction[t]
InputsOf(t, summarized) ==
    [i \in Shown(t) |-> CHOOSE o \in summarized : Key(o[1], o[2]) = Key(spends[t][i][1], spends[t][i][2])]

\* The page is resolved; the coinbase, there for its miner and fees, is dropped
\* from a page behind the first.
Resolve(inputs) ==
    /\ at' = "shown"
    /\ page' = [transactions |-> IF txOffset > 0 THEN Tail(txids) ELSE txids,
                inputs |-> inputs,
                coinbaseTx |-> IF txids = <<>> THEN page.coinbaseTx ELSE Head(txids)]

\* Every transaction came, which the undefined one never does.  Without the index
\* the inputs are left out.
TransactionsArrive ==
    /\ at = "transactions" /\ \A k \in DOMAIN txids : txids[k] # Undefined
    /\ IF withInputs THEN at' = "inputs" /\ UNCHANGED page ELSE Resolve(<<>>)
    /\ UNCHANGED <<node, txLimit, txOffset, headerOnly, txids, withInputs, outputs, failed>>

\* getSummarizedTransactionOutput for every input that is shown.
InputsArrive ==
    /\ at = "inputs"
    /\ outputs' = UNION {{spends[txids[k]][i] : i \in Shown(txids[k])} : k \in DOMAIN txids}
    /\ Resolve([t \in Numbers |-> IF \E k \in DOMAIN txids : txids[k] = t THEN InputsOf(t, outputs') ELSE <<>>])
    /\ UNCHANGED <<node, txLimit, txOffset, headerOnly, txids, withInputs, failed>>

\* One of the calls that were made failed: without the index or on a pruned node
\* the block is shown without its transactions, otherwise the page is rejected.
CallFails ==
    /\ \/ at = "transactions" /\ txids # <<>>
       \/ at = "inputs" /\ \E k \in DOMAIN txids : Shown(txids[k]) # {}
    /\ failed' = TRUE
    /\ at' = IF ~txindexAvailable \/ prunedBlockchain THEN "shown" ELSE "rejected"
    /\ UNCHANGED <<node, txLimit, txOffset, headerOnly, txids, withInputs, outputs, page>>

Next ==
    \/ LearnIndex
    \/ \E limit \in Limits, offset \in Offsets : GetBlock(limit, offset)
    \/ BlockArrives \/ TransactionsArrive \/ InputsArrive \/ CallFails

Spec == Init /\ [][Next]_vars

-----------------------------------------------------------------------------
\* The page's state keeps its shape.
TypeOK ==
    /\ at \in {"idle", "block", "transactions", "inputs", "shown", "rejected"}
    /\ {prunedBlockchain, txindexAvailable, headerOnly, withInputs, failed} \subseteq BOOLEAN
    /\ \A k \in DOMAIN txids : txids[k] \in Numbers \cup {Undefined}

\* A page that is shown is either of the block or without transactions.  One whose
\* calls succeeded for a block that came whole shows exactly the transactions of
\* its range, in the order of the block, and each input with the output it spends
\* and no other, although several inputs spend outputs of one transaction, some
\* are left out and the index becomes known on the way; inputs are missing only
\* behind the limit, or all of them where the index was not known.  A page of a
\* header, or one with a failed call, shows no transaction and no input; behind
\* the first page a header is shown only after a failed call.  The coinbase that
\* the miner and the fees are read from is the block's own, or none for a header.
PageIsOfBlock ==
    at = "shown" =>
        LET last == Min({txOffset + txLimit, Len(spends)})
            listed == {t \in Numbers : t > txOffset /\ t <= last}
        IN  /\ page.coinbaseTx = IF headerOnly THEN Undefined ELSE 1
            /\ headerOnly /\ txOffset > 0 => failed
            /\ headerOnly \/ failed =>
                 page.transactions = <<>> /\ \A t \in DOMAIN page.inputs : page.inputs[t] = <<>>
            /\ ~headerOnly /\ ~failed =>
                 /\ Len(page.transactions) = Cardinality(listed)
                 /\ \A k \in DOMAIN page.transactions : page.transactions[k] = txOffset + k
                 /\ withInputs => \A t \in listed :
                      /\ \A i \in DOMAIN page.inputs[t] : page.inputs[t][i] = spends[t][i]
                      /\ \A i \in DOMAIN spends[t] : i <= txMaxInput => i \in DOMAIN page.inputs[t]
                 /\ ~withInputs => page.inputs = <<>>
=============================================================================
