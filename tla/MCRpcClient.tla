---------------------------- MODULE MCRpcClient ----------------------------
(* RpcClient on a few concurrent calls, for TLC. *)
EXTENDS RpcClient, TLC

CallSymmetry == Permutations(Calls)
=============================================================================
