--------------------------- MODULE MCRpcClient ------------------------------
(* Model-checking instance of RpcClient: two calls per client, so that a  *)
(* failed call is followed by another one on the same counter.            *)
EXTENDS RpcClient

MCMaxCalls == 2

=============================================================================
