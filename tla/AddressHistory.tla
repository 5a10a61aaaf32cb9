--------------------------- MODULE AddressHistory ---------------------------
(***************************************************************************)
(* The history of one address, read page by page while it grows: through   *)
(* /api/address by a client that steps the offset itself, or on the page   *)
(* /address by a reader who follows its links.  Which service is asked is  *)
(* configured (app/api/addressApi.js); what each client of a service makes *)
(* of sort, limit and offset differs.                                      *)
(*                                                                         *)
(* A transaction is its number, the oldest is 1.  The services list newest *)
(* first, Electrum servers oldest first.  Bound: MaxTxs transactions.      *)
(***************************************************************************)
EXTENDS Integers, Sequences, SequencesExt, FiniteSetsExt

CONSTANTS
    Limits,             \* page sizes a client asks for
    addressTxPageSize,
    MaxTxs,
    BlockcypherCap,     \* transactions in one answer, whatever was asked for: 2000
    BlockchairCap       \* 100

VARIABLES
    addressApi,
    txCount,        \* of the address
    reader,         \* "client" or "page"
    at,
    sort, limit, offset,
    counted,        \* the number of transactions an ascending page is computed from
    shown,          \* the transactions of the pages so far
    order,          \* the sort the reader asked for at first
    started,        \* the number of transactions then
    grew            \* whether there was a new one since

vars == <<addressApi, txCount, reader, at, sort, limit, offset, counted, shown, order, started, grew>>
reading == <<reader, order, started>>

Apis == {"blockchain.com", "blockchair.com", "blockcypher.com", "electrum", "none"}

\* getCurrentAddressApiFeatureSupport: sortAsc
SortAsc == {"blockchain.com", "electrum"}

Init ==
    /\ addressApi \in Apis
    /\ txCount \in 0 .. MaxTxs
    /\ reader = "client" /\ at = "idle"
    /\ sort = "desc" /\ limit = addressTxPageSize /\ offset = 0
    /\ counted = 0 /\ shown = <<>>
    /\ order = "desc" /\ started = 0 /\ grew = FALSE

Receive ==
    /\ txCount < MaxTxs /\ at \notin {"done", "failed"}
    /\ txCount' = txCount + 1
    /\ grew' = (at # "idle")
    /\ UNCHANGED <<addressApi, reading, at, sort, limit, offset, counted, shown>>

-----------------------------------------------------------------------------
(* What is asked for *)

Open(who, direction, size) ==
    /\ at = "idle"
    /\ at' = "asking"
    /\ reader' = who /\ sort' = direction /\ limit' = size /\ offset' = 0
    /\ order' = direction /\ started' = txCount
    /\ UNCHANGED <<addressApi, txCount, counted, shown, grew>>

\* The page offers both orders where it can and has pages of one size.
OpenPage ==
    \E direction \in {"desc"} \cup IF addressApi \in SortAsc THEN {"asc"} ELSE {} :
        Open("page", direction, addressTxPageSize)

AskAsClient == \E direction \in {"desc", "asc"}, size \in Limits : Open("client", direction, size)

\* The next page.  The links of /address have a second "?" in front of their
\* limit and offset: the sort they come back with is neither order, the limit is
\* lost, and the offset is the next.
TurnPage ==
    /\ at = "reading"
    /\ at' = "asking"
    /\ offset' = offset + limit
    /\ IF reader = "page" THEN sort' = "unknown" /\ limit' = addressTxPageSize ELSE UNCHANGED <<sort, limit>>
    /\ UNCHANGED <<addressApi, txCount, reading, counted, shown, grew>>

-----------------------------------------------------------------------------
(* What is answered *)

Newest(n) == [k \in 1 .. n |-> n + 1 - k]
Oldest(n) == [k \in 1 .. n |-> k]

\* Mutant: a page ends at its size, not that far behind its offset.
SliceToSize(txs, from, size) == SubSeq(txs, from + 1, Min({Len(txs), size}))

\* Of a list, size entries from an offset on.
Slice(txs, from, size) == SubSeq(txs, from + 1, Min({Len(txs), from + size}))

ElectrumPage == Slice(IF sort = "desc" THEN Newest(txCount) ELSE Oldest(txCount), offset, limit)

\* The first limit + offset are asked for, up to the cap of the service.
BlockcypherPage == Slice(SubSeq(Newest(txCount), 1, Min({txCount, BlockcypherCap, limit + offset})), offset, limit)

\* The service ignores the limit.
BlockchairPage == Slice(Slice(Newest(txCount), offset, BlockchairCap), 0, limit)

\* The page of an ascending list in the service's descending one: computed from
\* a number of transactions that was asked for before.
Ascending ==
    LET dynamicOffset == counted - limit - offset
    IN  IF dynamicOffset < 0
        THEN [limit |-> limit + dynamicOffset, offset |-> dynamicOffset + (limit + dynamicOffset)]
        ELSE [limit |-> limit, offset |-> dynamicOffset]

\* What the service makes of an offset below zero is not known: it may send any page.
BlockchainPages ==
    IF sort # "asc" THEN {Slice(Newest(txCount), offset, limit)}
    ELSE {Reverse(Slice(Newest(txCount), from, Ascending.limit)) :
            from \in IF Ascending.offset < 0 THEN 0 .. txCount ELSE {Ascending.offset}}

Pages ==
    CASE addressApi = "electrum"        -> {ElectrumPage}
      [] addressApi = "blockcypher.com" -> {BlockcypherPage}
      [] addressApi = "blockchair.com"  -> {BlockchairPage}
      [] addressApi = "blockchain.com"  -> BlockchainPages

CountsFirst == addressApi = "blockchain.com" /\ sort = "asc"

CountArrives ==
    /\ at = "asking" /\ CountsFirst
    /\ at' = "counted" /\ counted' = txCount
    /\ UNCHANGED <<addressApi, txCount, reading, sort, limit, offset, shown, grew>>

\* Behind the last page there are no more: the answer tells how many there are.
PageArrives ==
    /\ at = (IF CountsFirst THEN "counted" ELSE "asking") /\ addressApi # "none"
    /\ \E txids \in Pages : shown' = shown \o txids
    /\ at' = IF offset + limit < txCount THEN "reading" ELSE "done"
    /\ UNCHANGED <<addressApi, txCount, reading, sort, limit, offset, counted, grew>>

\* A call was rejected, as are all for some kinds of addresses, or no service is configured.
NoHistory ==
    /\ at \in {"asking", "counted"}
    /\ at' = "failed"
    /\ UNCHANGED <<addressApi, txCount, reading, sort, limit, offset, counted, shown, grew>>

Next == Receive \/ OpenPage \/ AskAsClient \/ TurnPage \/ CountArrives \/ PageArrives \/ NoHistory

Spec == Init /\ [][Next]_vars

-----------------------------------------------------------------------------
\* The reader's state keeps its shape.
TypeOK ==
    /\ at \in {"idle", "asking", "counted", "reading", "done", "failed"}
    /\ sort \in {"desc", "asc", "unknown"} /\ order \in {"desc", "asc"}
    /\ txCount \in 0 .. MaxTxs /\ counted \in 0 .. MaxTxs
    /\ \A k \in DOMAIN shown : shown[k] \in 1 .. txCount

\* The answers hold what is asked for: blockcypher.com has the first
\* BlockcypherCap transactions only, blockchair.com sends BlockchairCap at once.
WithinCaps ==
    /\ addressApi = "blockcypher.com" => txCount <= BlockcypherCap
    /\ addressApi = "blockchair.com" => limit <= BlockchairCap

\* A client that steps the offset to the end of a history is given all of it,
\* each transaction once and in the order it asked for (newest first where the
\* service knows no other), whichever service is asked; if transactions come in
\* meanwhile it still misses none that was there when it began, and oldest first
\* over Electrum not even a new one.  Except for oldest first over blockchain.com,
\* where the last page must be a whole one and the history must not grow.
HistoryIsListed ==
    at = "done" /\ reader = "client" /\ WithinCaps =>
        LET ascending == order = "asc" /\ addressApi \in SortAsc
            exact == shown = IF ascending THEN Oldest(txCount) ELSE Newest(txCount)
        IN  IF ascending /\ addressApi = "blockchain.com" THEN ~grew /\ txCount % limit = 0 => exact
            ELSE /\ ~grew \/ ascending => exact
                 /\ 1 .. started \subseteq ToSet(shown)

\* A reader who follows the links of the address page to the end sees the history
\* in the order the page was opened in: the page calls it "Newest First" or "Oldest
\* First" (views/address.pug:183), its links are given that sort to bring back
\* (routes/baseRouter.js:1563), and docs/api.js:91 has 'desc' mean new first.
\* (Oldest first over blockchain.com has troubles of its own, see HistoryIsListed.)
LinksKeepOrder ==
    at = "done" /\ reader = "page" /\ ~grew /\ WithinCaps /\ addressApi # "blockchain.com" =>
        shown = IF order = "asc" THEN Oldest(txCount) ELSE Newest(txCount)
=============================================================================
