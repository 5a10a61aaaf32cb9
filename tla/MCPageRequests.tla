--------------------------- MODULE MCPageRequests ---------------------------
(***************************************************************************)
(* One request after the other, to every route, with every class of inputs *)
(* of its handler, before and after the node is verified.                  *)
(***************************************************************************)
EXTENDS PageRequests
=============================================================================
