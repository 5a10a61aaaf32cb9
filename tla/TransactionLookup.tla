-------------------------- MODULE TransactionLookup --------------------------
(***************************************************************************)
(* getRawTransaction of app/api/rpcApi.js and, when the explorer believes  *)
(* that its node has no transaction index, noTxIndexTransactionLookup: the *)
(* Electrum servers are asked for the transaction's block, the wallets of  *)
(* the node and then its last Depth blocks are searched, while the node    *)
(* goes on mining.                                                         *)
(*                                                                         *)
(* One lookup of one transaction, not the genesis coinbase, is followed;   *)
(* it may be asked for with the hash of a block.  Every call may fail.     *)
(* The Electrum servers, if they can be asked, name a block, any block, or *)
(* reject; before they are connected asking them throws.  An answer that   *)
(* names no block is left out.  Bound: the chain grows to MaxHeight.       *)
(***************************************************************************)
EXTENDS Naturals, FiniteSets

CONSTANTS Wallets, Depth, MaxHeight

VARIABLES
    tip,                \* the height of the node's chain
    inMempool,          \* whether the transaction is in the node's mempool
    confirmedAt,        \* the height of its block, 0 without one
    inWallet,           \* the wallets that know it
    nodeHasWallets,     \* a node without wallets rejects listwallets
    nodeIndex,          \* whether the node has a transaction index
    electrumTxIndex,    \* whether Electrum servers are configured and may be asked
    txindexAvailable,   \* whether the explorer knows that it has
    at,                 \* where the lookup is
    blockhash,          \* the height of the block whose hash came with it, 0 without one
    named,              \* the height of the block the Electrum servers named, while it is tried
    walletsLeft,        \* the wallets it has not tried
    height,             \* the block it searches, 0 before the first
    lowest,             \* the height at which the search for it in blocks ends
    troubled            \* whether a call failed whose answer it needed

vars == <<tip, inMempool, confirmedAt, inWallet, nodeHasWallets, nodeIndex, electrumTxIndex, txindexAvailable,
          at, blockhash, named, walletsLeft, height, lowest, troubled>>
node == <<tip, inMempool, confirmedAt, inWallet, nodeHasWallets, nodeIndex, electrumTxIndex, txindexAvailable>>

Steps == {"idle", "direct", "electrum", "listWallets", "wallets", "blockCount", "nextBlock", "inBlock",
          "found", "notFound"}

\* The chain is at least one block long; a wallet knows the transaction only if it is somewhere.
Init ==
    /\ tip \in 1 .. MaxHeight
    /\ confirmedAt \in 0 .. tip
    /\ inMempool \in BOOLEAN /\ (inMempool => confirmedAt = 0)
    /\ inWallet \in SUBSET Wallets
    /\ nodeHasWallets \in BOOLEAN /\ (~nodeHasWallets => inWallet = {})
    /\ nodeIndex \in BOOLEAN /\ electrumTxIndex \in BOOLEAN
    /\ txindexAvailable = FALSE
    /\ at = "idle"
    /\ blockhash = 0 /\ named = 0 /\ walletsLeft = {} /\ height = 0 /\ lowest = 0 /\ troubled = FALSE

-----------------------------------------------------------------------------
(* What happens meanwhile *)

\* A block that may confirm the transaction.
Mine ==
    /\ tip < MaxHeight
    /\ tip' = tip + 1
    /\ \/ UNCHANGED <<inMempool, confirmedAt>>
       \/ inMempool /\ inMempool' = FALSE /\ confirmedAt' = tip'
    /\ UNCHANGED <<inWallet, nodeHasWallets, nodeIndex, electrumTxIndex, txindexAvailable,
                   at, blockhash, named, walletsLeft, height, lowest, troubled>>

\* assessTxindexAvailability
LearnIndex ==
    /\ nodeIndex /\ ~txindexAvailable
    /\ txindexAvailable' = TRUE
    /\ UNCHANGED <<tip, inMempool, confirmedAt, inWallet, nodeHasWallets, nodeIndex, electrumTxIndex,
                   at, blockhash, named, walletsLeft, height, lowest, troubled>>

-----------------------------------------------------------------------------
(* The lookup *)

GetRawTransaction(hash) ==
    /\ at = "idle"
    /\ at' = "direct" /\ blockhash' = hash
    /\ UNCHANGED <<node, named, walletsLeft, height, lowest, troubled>>

\* What the node finds with getrawtransaction, with or without a block.
NodeFinds(block) == IF block = 0 THEN inMempool \/ (nodeIndex /\ confirmedAt > 0) ELSE confirmedAt = block

\* The Electrum servers are asked only for a block that is not known.
Direct ==
    /\ at = "direct"
    /\ \/ NodeFinds(blockhash) /\ at' = "found" /\ UNCHANGED troubled
       \/ /\ at' = IF txindexAvailable THEN "notFound"
                   ELSE IF electrumTxIndex /\ blockhash = 0 THEN "electrum" ELSE "listWallets"
          /\ troubled' = NodeFinds(blockhash)
    /\ UNCHANGED <<node, blockhash, named, walletsLeft, height, lowest>>

\* lookupTxBlockHash; what it throws is caught, and the wallets come next.
AskElectrum ==
    /\ at = "electrum"
    /\ \/ \E block \in 1 .. tip : named' = block /\ at' = "inBlock"
       \/ at' = "listWallets" /\ UNCHANGED named
    /\ UNCHANGED <<node, blockhash, walletsLeft, height, lowest, troubled>>

\* The block that the servers named and each block of the search are tried with
\* getRawTransaction and its hash, which asks the wallets too; what that throws
\* is caught.
InElectrum == named > 0
InSearch == height > 0
Nested == InElectrum \/ InSearch

\* After the block that was named the wallets are tried (again), then the next block.
CatchNested ==
    /\ at' = IF InElectrum THEN "listWallets" ELSE "nextBlock"
    /\ named' = 0

\* Without the list the lookup ends, but not a nested one.
ListWallets ==
    /\ at = "listWallets"
    /\ \/ /\ nodeHasWallets /\ at' = "wallets" /\ walletsLeft' = Wallets
          /\ UNCHANGED <<named, troubled>>
       \/ Nested /\ CatchNested /\ UNCHANGED <<walletsLeft, troubled>>
       \/ /\ ~Nested /\ at' = "notFound" /\ troubled' = (troubled \/ nodeHasWallets)
          /\ UNCHANGED <<named, walletsLeft>>
    /\ UNCHANGED <<node, blockhash, height, lowest>>

\* gettransaction of one wallet; an error leads to the next.
TryWallet(w) ==
    /\ at = "wallets" /\ w \in walletsLeft
    /\ walletsLeft' = walletsLeft \ {w}
    /\ \/ w \in inWallet /\ at' = "found" /\ UNCHANGED troubled
       \/ UNCHANGED at /\ troubled' = (troubled \/ (w \in inWallet /\ ~Nested))
    /\ UNCHANGED <<node, blockhash, named, height, lowest>>

\* With the hash of a block nothing else is tried.
NoWalletLeft ==
    /\ at = "wallets" /\ walletsLeft = {}
    /\ IF Nested THEN CatchNested
       ELSE at' = (IF blockhash > 0 THEN "notFound" ELSE "blockCount") /\ UNCHANGED named
    /\ UNCHANGED <<node, blockhash, walletsLeft, height, lowest, troubled>>

\* Mutant: the search leaves out the lowest block it should look into.
LowestOffByOne == IF tip > Depth THEN tip - Depth + 1 ELSE 1

\* The genesis block is not searched.
Lowest == IF tip > Depth THEN tip - Depth ELSE 0

\* The number of blocks is asked for once; a failure ends the lookup.
GetBlockCount ==
    /\ at = "blockCount"
    /\ \/ at' = "nextBlock" /\ height' = tip + 1 /\ lowest' = Lowest /\ UNCHANGED troubled
       \/ at' = "notFound" /\ troubled' = TRUE /\ UNCHANGED <<height, lowest>>
    /\ UNCHANGED <<node, blockhash, named, walletsLeft>>

\* The next block down, until the lowest; without its hash the lookup ends.
NextBlock ==
    /\ at = "nextBlock"
    /\ IF height - 1 > lowest
       THEN \/ at' = "inBlock" /\ height' = height - 1 /\ UNCHANGED troubled
            \/ at' = "notFound" /\ troubled' = TRUE /\ UNCHANGED height
       ELSE at' = "notFound" /\ UNCHANGED <<height, troubled>>
    /\ UNCHANGED <<node, blockhash, named, walletsLeft, lowest>>

\* getRawTransaction with the block's hash.  What the node fails to answer for the
\* block that was named is not lost yet.
AskInBlock ==
    /\ at = "inBlock"
    /\ LET block == IF InElectrum THEN named ELSE height
       IN  \/ NodeFinds(block) /\ at' = "found" /\ UNCHANGED <<named, troubled>>
           \/ /\ IF txindexAvailable THEN CatchNested ELSE at' = "listWallets" /\ UNCHANGED named
              /\ troubled' = (troubled \/ (InSearch /\ NodeFinds(block)))
    /\ UNCHANGED <<node, blockhash, walletsLeft, height, lowest>>

LookupStep ==
    \/ Direct \/ AskElectrum \/ ListWallets \/ (\E w \in Wallets : TryWallet(w)) \/ NoWalletLeft
    \/ GetBlockCount \/ NextBlock \/ AskInBlock

Next ==
    \/ Mine \/ LearnIndex
    \/ \E hash \in 0 .. MaxHeight : GetRawTransaction(hash)
    \/ LookupStep

Spec == Init /\ [][Next]_vars

-----------------------------------------------------------------------------
\* The lookup's state keeps its shape.
TypeOK ==
    /\ tip \in 1 .. MaxHeight /\ {confirmedAt, named} \subseteq 0 .. tip /\ height \in 0 .. MaxHeight + 1
    /\ {inMempool, nodeHasWallets, nodeIndex, electrumTxIndex, txindexAvailable, troubled} \subseteq BOOLEAN
    /\ inWallet \subseteq Wallets /\ walletsLeft \subseteq Wallets
    /\ at \in Steps

\* The lookup has ended without the transaction, although no call failed that
\* could have found it.
Missed == at = "notFound" /\ blockhash = 0 /\ ~troubled

Recent == {h \in 1 .. tip : h + Depth > tip}

\* On a node that lists its wallets a lookup without a block hash misses neither
\* a transaction of one of the last Depth blocks nor one of a wallet, whatever block
\* the Electrum servers name, right or wrong, however that attempt and the other
\* calls that cannot find it end, whatever is mined meanwhile and whenever the
\* explorer learns of the index.  With a known index the wallets are not asked.
TransactionIsFound ==
    Missed /\ nodeHasWallets => confirmedAt \notin Recent /\ (~txindexAvailable => inWallet = {})
=============================================================================
