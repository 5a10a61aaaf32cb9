------------------------------ MODULE XpubSearch ------------------------------
(***************************************************************************)
(* searchXpubTxids of app/api/xyzpubApi.js: the addresses of an extended   *)
(* public key are asked for one after the other, receive and change in     *)
(* turn, until GapLimit addresses in a row of each kind have no            *)
(* transaction.  What an address has is fetched in pages of TxLimit.       *)
(*                                                                         *)
(* How many transactions an address has is decided when it is first asked  *)
(* for: those the search does not come to may have any number.  Bounds:    *)
(* addresses from MaxIndex on are empty, the others have at most MaxTxs    *)
(* transactions; MaxNoTxids answers come without a list of transactions.   *)
(***************************************************************************)
EXTENDS Naturals, Sequences, FiniteSetsExt

CONSTANTS GapLimit, TxLimit, Limits, MaxIndex, MaxTxs, MaxNoTxids

VARIABLES
    at,                 \* "idle", "chain", "page", "over" or "failed"
    addressLimit,       \* the caller's, or NoLimit
    addressCount,
    receiveOrChange,    \* 0 or 1: the kind the search is at
    gapCounts,
    txOffset,
    txCounts,           \* for each kind: how many transactions each address asked for has
    used,               \* for each kind and address: how many it was reported to have
    emptyAddresses,     \* the addresses reported empty, <<kind, index>>
    noTxids             \* the answers without a list

vars == <<at, addressLimit, addressCount, receiveOrChange, gapCounts, txOffset, txCounts, used, emptyAddresses, noTxids>>
results == <<txCounts, used, emptyAddresses, noTxids>>

NoLimit == 0        \* -1 in the code
Chains == {0, 1}

Init ==
    /\ at = "idle"
    /\ addressLimit = NoLimit /\ addressCount = 0 /\ receiveOrChange = 0
    /\ gapCounts = [c \in Chains |-> 0]
    /\ txOffset = 0
    /\ txCounts = [c \in Chains |-> <<>>]
    /\ used = [c \in Chains |-> <<>>]
    /\ emptyAddresses = {}
    /\ noTxids = 0

Begin(limit) ==
    /\ at = "idle"
    /\ addressLimit' = limit
    /\ at' = "chain"
    /\ UNCHANGED <<addressCount, receiveOrChange, gapCounts, txOffset, results>>

GapsFound(gaps) == \A c \in Chains : gaps[c] >= GapLimit

\* The search goes to the change address of the same number, or to the next
\* number, unless it is over.
Advance(gaps) ==
    IF receiveOrChange = 0
    THEN receiveOrChange' = 1 /\ at' = "chain" /\ UNCHANGED addressCount
    ELSE /\ receiveOrChange' = 0
         /\ addressCount' = addressCount + 1
         /\ at' = IF GapsFound(gaps) \/ addressCount + 1 = addressLimit THEN "over" ELSE "chain"

\* A kind whose gap is found is not looked at any more.
SkipChain ==
    /\ at = "chain" /\ gapCounts[receiveOrChange] >= GapLimit
    /\ Advance(gapCounts)
    /\ UNCHANGED <<addressLimit, gapCounts, txOffset, results>>

\* getXpubAddresses derives them: distinct for distinct kinds and numbers.
AddressAt(kind, index) == <<kind, index>>

\* The node is asked for the script of the address.
GetAddress ==
    /\ at = "chain" /\ gapCounts[receiveOrChange] < GapLimit
    /\ at' = "page" /\ txOffset' = 0
    /\ \E count \in 0 .. (IF addressCount < MaxIndex THEN MaxTxs ELSE 0) :
         txCounts' = [txCounts EXCEPT ![receiveOrChange] = Append(@, count)]
    /\ used' = [used EXCEPT ![receiveOrChange] = Append(@, 0)]
    /\ UNCHANGED <<addressLimit, addressCount, receiveOrChange, gapCounts, emptyAddresses, noTxids>>

\* getAddressDetails, newest first: the transactions from offset on, at most TxLimit.
PageSize(count, offset) == IF count <= offset THEN 0 ELSE Min({TxLimit, count - offset})

ThisCount == txCounts[receiveOrChange][addressCount + 1]
ThisPage == PageSize(ThisCount, txOffset)

EmptyPage ==
    /\ at = "page" /\ ThisPage = 0
    /\ emptyAddresses' = emptyAddresses \cup {AddressAt(receiveOrChange, addressCount)}
    /\ gapCounts' = [gapCounts EXCEPT ![receiveOrChange] = @ + 1]
    /\ txOffset' = txOffset + TxLimit
    /\ Advance(gapCounts')
    /\ UNCHANGED <<addressLimit, txCounts, used, noTxids>>

\* Mutant: a used address does not end the gap before it.
UsedPageKeepingGap ==
    /\ at = "page" /\ ThisPage > 0
    /\ used' = [used EXCEPT ![receiveOrChange][addressCount + 1] = @ + ThisPage]
    /\ txOffset' = txOffset + TxLimit
    /\ IF ThisPage < TxLimit THEN Advance(gapCounts) ELSE UNCHANGED <<at, receiveOrChange, addressCount>>
    /\ UNCHANGED <<addressLimit, gapCounts, txCounts, emptyAddresses, noTxids>>

\* A full page is followed by the next one.
UsedPage ==
    /\ at = "page" /\ ThisPage > 0
    /\ used' = [used EXCEPT ![receiveOrChange][addressCount + 1] = @ + ThisPage]
    /\ gapCounts' = [gapCounts EXCEPT ![receiveOrChange] = 0]
    /\ txOffset' = txOffset + TxLimit
    /\ IF ThisPage < TxLimit THEN Advance(gapCounts') ELSE UNCHANGED <<at, receiveOrChange, addressCount>>
    /\ UNCHANGED <<addressLimit, txCounts, emptyAddresses, noTxids>>

\* Without a list (no address API is configured, the Electrum servers gave a
\* balance only) the address is reported empty and asked for again, one page on.
PageWithoutTxids ==
    /\ at = "page" /\ noTxids < MaxNoTxids
    /\ noTxids' = noTxids + 1
    /\ emptyAddresses' = emptyAddresses \cup {AddressAt(receiveOrChange, addressCount)}
    /\ txOffset' = txOffset + TxLimit
    /\ UNCHANGED <<at, addressLimit, addressCount, receiveOrChange, gapCounts, txCounts, used>>

\* A call of the node or of the address API was rejected.
Fail ==
    /\ at \in {"chain", "page"}
    /\ at = "chain" => gapCounts[receiveOrChange] < GapLimit
    /\ at' = "failed"
    /\ UNCHANGED <<addressLimit, addressCount, receiveOrChange, gapCounts, txOffset, results>>

Next ==
    \/ \E limit \in Limits \cup {NoLimit} : Begin(limit)
    \/ SkipChain \/ GetAddress
    \/ EmptyPage \/ UsedPage \/ PageWithoutTxids \/ Fail

Spec == Init /\ [][Next]_vars

-----------------------------------------------------------------------------
\* The search's state keeps its shape.
TypeOK ==
    /\ at \in {"idle", "chain", "page", "over", "failed"}
    /\ addressLimit \in Limits \cup {NoLimit}
    /\ gapCounts \in [Chains -> 0 .. GapLimit]
    /\ \A c \in Chains : Len(used[c]) = Len(txCounts[c]) /\ Len(used[c]) <= addressCount + 1

\* An address with a positive number of transactions that is a multiple of the
\* page: its last page is empty, and counts as an empty address.
EndsOnFullPage == \E c \in Chains : \E i \in DOMAIN txCounts[c] : txCounts[c][i] > 0 /\ txCounts[c][i] % TxLimit = 0

\* A search without a limit ends behind a gap of GapLimit addresses that really
\* are empty, for both kinds, having reported every transaction of every address
\* before it and as empty only those that are: unless an answer came without a
\* list, or an address ended on a full page, which takes one off the gap.
XpubFindsAll ==
    at = "over" /\ addressLimit = NoLimit /\ noTxids = 0 /\ ~EndsOnFullPage =>
        /\ used = txCounts
        /\ \A c \in Chains :
             LET n == Len(txCounts[c])
             IN  n >= GapLimit /\ \A i \in n - GapLimit + 1 .. n : txCounts[c][i] = 0
        /\ emptyAddresses = UNION {{AddressAt(c, i - 1) : i \in {i \in DOMAIN txCounts[c] : txCounts[c][i] = 0}} : c \in Chains}
=============================================================================
