------------------------------- MODULE MCPosDb -------------------------------
(***************************************************************************)
(* PosDb with three receipts, of two, no and one item: a receipt that a    *)
(* crash can cut, an empty one, and one behind both.                       *)
(***************************************************************************)
EXTENDS PosDb

Items == <<2, 0, 1>>
=============================================================================
