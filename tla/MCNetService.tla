------------------------------ MODULE MCNetService ------------------------------
(***************************************************************************)
(* NetService with two threads that make three calls each, enough for a    *)
(* call before a synchronous one, its server's start and its stop.         *)
(***************************************************************************)
EXTENDS NetService
=============================================================================
