----------------------------- MODULE MCRpcClient -----------------------------
(* Small instances of RpcClient.                                           *)
EXTENDS RpcClient

CONSTANTS k1, k2, k3

ThreeKeys == {k1, k2, k3}
===============================================================================
