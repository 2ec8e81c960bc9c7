----------------------------- MODULE MCRpcClient -----------------------------
(***************************************************************************)
(* Small instances of RpcClient.  Two threads and two RPCs are enough for  *)
(* threads that work for each other's RPCs, and for a completion function  *)
(* that starts one.                                                        *)
(***************************************************************************)
EXTENDS RpcClient
=============================================================================
