------------------------------ MODULE MCUdpServer ------------------------------
(***************************************************************************)
(* UdpServer on a small instance: two servers, so that one is started      *)
(* while the previous one is being deleted, and a buffer of three bytes,   *)
(* which several datagrams fill.                                           *)
(***************************************************************************)
EXTENDS UdpServer
=============================================================================
