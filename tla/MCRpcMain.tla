------------------------------- MODULE MCRpcMain -------------------------------
(***************************************************************************)
(* Two pods that start at the same time.                                   *)
(***************************************************************************)
EXTENDS RpcMain

CONSTANTS p1, p2
=============================================================================
