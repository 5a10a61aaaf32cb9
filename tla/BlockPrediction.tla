--------------------------- MODULE BlockPrediction ---------------------------
(***************************************************************************)
(* buildPredictedBlocks of app/api/coreApi.js: the transactions of the     *)
(* mempool, sorted by the fee rate they have together with their           *)
(* ancestors, are packed into the next MaxBlocks blocks.  A transaction is *)
(* counted with the weight of all its ancestors, but takes with it only    *)
(* those its summary lists: its parents.                                   *)
(*                                                                         *)
(* A transaction is its place in the sorted list; any order is allowed, as *)
(* the fees can give any.  Its summary may be an old one (summaries are    *)
(* kept as long as the transaction is in the mempool): it then counts an   *)
(* ancestor that has left, of weight DepartedWeight.                       *)
(***************************************************************************)
EXTENDS Naturals, Sequences, FiniteSets, SequencesExt, FiniteSetsExt

CONSTANTS Count, Weights, DepartedWeight, MaxBlockWeight, MinTxWeight, MaxBlocks

VARIABLES
    at,             \* "idle", "packing", "closing" or "done"
    weight,         \* what each transaction weighs
    ancestors,      \* its ancestors in the mempool
    parents,        \* those whose outputs it spends itself
    outdated,       \* the transactions whose summary is an old one
    unAdded,        \* unAddedTxIndexes
    i,              \* the place in unAdded the loop has come to
    indexesToRemove,
    added,          \* addedTxids
    currentBlock,
    blocks

vars == <<at, weight, ancestors, parents, outdated, unAdded, i, indexesToRemove, added, currentBlock, blocks>>
mempool == <<weight, ancestors, parents, outdated>>

Txs == 1 .. Count

\* "leads" are the transactions the loop chose, "txids" also their parents.
EmptyBlock == [weight |-> 0, leads |-> <<>>, txids |-> {}]

\* An ancestor of an ancestor is an ancestor.
IsAncestry(anc) == \A t \in Txs : t \notin anc[t] /\ \A p \in anc[t] : anc[p] \subseteq anc[t]
Ancestries == {anc \in [Txs -> SUBSET Txs] : IsAncestry(anc)}

\* entry.depends: an ancestor is a parent or an ancestor of one.
IsDepends(par, anc) == \A t \in Txs : anc[t] = par[t] \cup UNION {anc[p] : p \in par[t]}

WeightOf(txids) == FoldSet(LAMBDA t, sum : weight[t] + sum, 0, txids)

Init ==
    /\ at = "idle"
    /\ weight = [t \in Txs |-> 0] /\ ancestors = [t \in Txs |-> {}]
    /\ parents = [t \in Txs |-> {}] /\ outdated = {}
    /\ unAdded = <<>> /\ i = 1 /\ indexesToRemove = {} /\ added = {}
    /\ currentBlock = EmptyBlock /\ blocks = <<>>

\* The summaries are there and sorted.
Begin ==
    /\ at = "idle"
    /\ at' = IF Count = 0 THEN "done" ELSE "packing"
    /\ weight' \in [Txs -> Weights]
    /\ ancestors' \in Ancestries
    /\ parents' \in [Txs -> SUBSET Txs] /\ IsDepends(parents', ancestors')
    /\ outdated' \in SUBSET Txs
    /\ unAdded' = [k \in Txs |-> k]
    /\ UNCHANGED <<i, indexesToRemove, added, currentBlock, blocks>>

tx == unAdded[i]
Considering == at = "packing" /\ i <= Len(unAdded)

\* A descendant has taken it along.
AlreadyAdded ==
    /\ Considering /\ tx \in added
    /\ indexesToRemove' = indexesToRemove \cup {i}
    /\ i' = i + 1
    /\ UNCHANGED <<at, mempool, unAdded, added, currentBlock, blocks>>

\* asz: the ancestors' weight and its own, as it was when the summary was made.
WeightWithAncestors(t) == WeightOf(ancestors[t] \cup {t}) + IF t \in outdated THEN DepartedWeight ELSE 0

BlockFull == currentBlock.weight + MinTxWeight > MaxBlockWeight

\* Mutant: the transaction's own weight is compared.
FitsAlone(t) == currentBlock.weight + weight[t] <= MaxBlockWeight

Fits(t) == currentBlock.weight + WeightWithAncestors(t) <= MaxBlockWeight

\* It is left for a later block.
TooHeavy ==
    /\ Considering /\ tx \notin added /\ ~BlockFull /\ ~Fits(tx)
    /\ i' = i + 1
    /\ UNCHANGED <<at, mempool, unAdded, indexesToRemove, added, currentBlock, blocks>>

\* All ancestors count with their full weight, also those that do not come along
\* and those an earlier block has.
AddTx ==
    /\ Considering /\ tx \notin added /\ ~BlockFull /\ Fits(tx)
    /\ currentBlock' = [weight |-> currentBlock.weight + WeightWithAncestors(tx),
                        leads |-> Append(currentBlock.leads, tx),
                        txids |-> currentBlock.txids \cup parents[tx] \cup {tx}]
    /\ added' = added \cup parents[tx] \cup {tx}
    /\ indexesToRemove' = indexesToRemove \cup {i}
    /\ i' = i + 1
    /\ UNCHANGED <<at, mempool, unAdded, blocks>>

\* The list is at its end, or nothing can fit any more.
EndLoop ==
    /\ at = "packing"
    /\ Considering => tx \notin added /\ BlockFull
    /\ at' = "closing"
    /\ UNCHANGED <<mempool, unAdded, i, indexesToRemove, added, currentBlock, blocks>>

\* The members of a set of indexes, in order.
InOrder(indexes) ==
    {s \in [1 .. Cardinality(indexes) -> indexes] : \A j, k \in DOMAIN s : j < k => s[j] < s[k]}

CloseBlock ==
    /\ at = "closing"
    /\ \E kept \in InOrder(DOMAIN unAdded \ indexesToRemove) :
         unAdded' = [k \in DOMAIN kept |-> unAdded[kept[k]]]
    /\ blocks' = Append(blocks, currentBlock)
    /\ at' = IF unAdded' # <<>> /\ Len(blocks') < MaxBlocks THEN "packing" ELSE "done"
    /\ currentBlock' = EmptyBlock /\ i' = 1 /\ indexesToRemove' = {}
    /\ UNCHANGED <<mempool, added>>

Next == Begin \/ AlreadyAdded \/ TooHeavy \/ AddTx \/ EndLoop \/ CloseBlock

Spec == Init /\ [][Next]_vars

-----------------------------------------------------------------------------
\* The prediction's state keeps its shape.
TypeOK ==
    /\ at \in {"idle", "packing", "closing", "done"}
    /\ added \subseteq Txs /\ ToSet(unAdded) \subseteq Txs /\ i \in 1 .. Len(unAdded) + 1
    /\ indexesToRemove \subseteq DOMAIN unAdded
    /\ Len(blocks) <= MaxBlocks

\* An ancestor's weight is part of the descendant's, unless only its own summary
\* counts an ancestor that has left.
CountedIn(t, p) == p \in ancestors[t] /\ (p \in outdated => t \in outdated)

\* The transactions of a predicted block weigh no more than a block may.  One that
\* was chosen comes with its parents, and with or after each ancestor whose fee rate
\* puts it before it: only an ancestor of a lower rate that is no parent may be left
\* to a later block.  None is chosen twice, and unless all MaxBlocks blocks were used
\* every transaction of the mempool is in one, even if summaries are old.
PredictionIsSound ==
    LET UpTo(n) == UNION {blocks[b].txids : b \in 1 .. n}
        Lead(b, j) == blocks[b].leads[j]
    IN  /\ \A b \in DOMAIN blocks :
             /\ WeightOf(blocks[b].txids) <= MaxBlockWeight
             /\ \A j \in DOMAIN blocks[b].leads :
                  /\ parents[Lead(b, j)] \subseteq blocks[b].txids
                  /\ \A p \in 1 .. Lead(b, j) - 1 : CountedIn(Lead(b, j), p) => p \in UpTo(b)
        /\ \A b, c \in DOMAIN blocks : \A j \in DOMAIN blocks[b].leads, k \in DOMAIN blocks[c].leads :
             Lead(b, j) = Lead(c, k) => b = c /\ j = k
        /\ at = "done" /\ Len(blocks) < MaxBlocks => UpTo(Len(blocks)) = Txs
=============================================================================
