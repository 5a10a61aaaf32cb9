----------------------------- MODULE MCRpcQueue -----------------------------
(***************************************************************************)
(* The RPC queue with two workers, two attempts to verify the node (the    *)
(* second may start before the first is answered), one gettxoutsetinfo     *)
(* call and two ordinary ones.                                             *)
(***************************************************************************)
EXTENDS RpcQueue

CONSTANTS net1, info1, net2, info2, utxo, x, y

MCCalls == {net1, info1, net2, info2, utxo, x, y}
MCAttempts == {<<net1, info1>>, <<net2, info2>>}
MCUtxoCalls == {utxo}
=============================================================================
