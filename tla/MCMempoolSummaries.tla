------------------------ MODULE MCMempoolSummaries ------------------------
(***************************************************************************)
(* Two builds that overlap in every way over a mempool of up to two        *)
(* transactions that come and go.                                          *)
(***************************************************************************)
EXTENDS MempoolSummaries
=============================================================================
