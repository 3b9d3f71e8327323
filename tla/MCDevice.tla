------------------------------ MODULE MCDevice ------------------------------
(***************************************************************************)
(* Device with every configuration of two encodings and two looks, two     *)
(* changes of it, and up to two items that are not written.                *)
(***************************************************************************)
EXTENDS Device
=============================================================================
