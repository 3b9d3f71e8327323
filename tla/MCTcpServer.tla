------------------------------ MODULE MCTcpServer ------------------------------
(***************************************************************************)
(* TcpServer on a small instance.  Two servers let the device start one    *)
(* while the previous one is still being deleted; three sessions are the   *)
(* one being closed, the current one and the one waiting for a client (the *)
(* configuration uses no symmetry, which liveness does not allow).         *)
(***************************************************************************)
EXTENDS TcpServer
=============================================================================
