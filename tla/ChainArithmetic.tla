--------------------------- MODULE ChainArithmetic ---------------------------
(***************************************************************************)
(* The windows of the transaction charts (getTxStats of                    *)
(* app/api/coreApi.js) while the chain grows.  Bounds: it grows to         *)
(* MaxHeight, and charts have up to MaxPoints points.                      *)
(***************************************************************************)
EXTENDS Integers, Sequences, FiniteSetsExt

CONSTANTS MaxPoints, MaxHeight

VARIABLES height    \* of the chain

vars == <<height>>

Init == height = 0

Mine == height < MaxHeight /\ height' = height + 1

Next == Mine

Spec == Init /\ [][Next]_vars

-----------------------------------------------------------------------------
(* The charts of getTxStats: dataPtCount points for the blocks behind          *)
(* blockStart up to blockEnd                                                   *)

BlockCount(dataPtCount, blockStart, blockEnd) == Max({1, (blockEnd - blockStart) \div dataPtCount})

Points(dataPtCount, blockStart, blockEnd) == Min({dataPtCount, blockEnd - blockStart})

\* Mutant: the first window of a chart from the genesis block is not shortened.
WindowFromGenesis(blockStart, blockCount, k) == [end |-> blockStart + k * blockCount, size |-> blockCount]

\* getchaintxstats of point k: the last block of the window and how many it has.
\* The node counts no window that reaches down to block 1.
Window(blockStart, blockCount, k) ==
    LET end == blockStart + k * blockCount
    IN  [end |-> end, size |-> Min({blockCount, end - 1})]

-----------------------------------------------------------------------------
\* The chart of any number of points from any block to the tip leaves out and
\* counts twice no block: the windows follow each other without a gap, the node
\* accepts each of them, the first starts behind blockStart (at block 2 from the
\* genesis block), and behind the last fewer blocks are left than there are points.
WindowsTile ==
    \A n \in 1 .. MaxPoints, start \in 0 .. height - 1 :
        LET size == BlockCount(n, start, height)
            w == [k \in 1 .. Points(n, start, height) |-> Window(start, size, k)]
            last == w[Len(w)].end
        IN  /\ \A k \in DOMAIN w : w[k].size <= w[k].end - 1
            /\ w[1].end - w[1].size = Max({start, 1})
            /\ \A k \in 1 .. Len(w) - 1 : w[k + 1].end - w[k + 1].size = w[k].end
            /\ last <= height /\ height - last < n
=============================================================================
