---------------------------- MODULE MCRpcClient -----------------------------
(* Finite instances of RpcClient.                                          *)
EXTENDS RpcClient

CONSTANTS r1, r2
MCRequest   == {r1, r2}
MCDroppable == {r2}
NoneDroppable == {}
MCOneRequest == {r1}
=============================================================================
