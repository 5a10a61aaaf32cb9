--------------------------- MODULE MCTieredCache ---------------------------
(***************************************************************************)
(* Two overlapping requests at a time and a clock that outlasts the        *)
(* longest staleness of each tier.                                         *)
(***************************************************************************)
EXTENDS TieredCache
=============================================================================
