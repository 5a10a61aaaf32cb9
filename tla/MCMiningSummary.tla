-------------------------- MODULE MCMiningSummary --------------------------
(***************************************************************************)
(* Two builds over overlapping ranges: b1 over heights 1 and 2, b2 over    *)
(* heights 2 and 3; two workers, so that the other tasks have to wait.     *)
(***************************************************************************)
EXTENDS MiningSummary

CONSTANTS b1, b2

MCFirst == [b \in Builds |-> IF b = b1 THEN 1 ELSE 2]
MCLast == [b \in Builds |-> IF b = b1 THEN 2 ELSE 3]
=============================================================================
