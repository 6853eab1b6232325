----------------------------- MODULE MCRpcSystem -----------------------------
(* Two calls of different types, with a timeout or without: the second may *)
(* be made while the timeout of the first runs.                            *)
EXTENDS RpcSystem

MCCalls == 1 .. 2
MCRequest == <<"a", "b">>

=============================================================================
