----------------------------- MODULE MCRpcCall -----------------------------
(* The instance of RpcCall: two threads, queues short enough to overflow.   *)
EXTENDS RpcCall
============================================================================
