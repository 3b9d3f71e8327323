----------------------------- MODULE ReceiptLog -----------------------------
(***************************************************************************)
(* What the file of pos_db promises, as an abstract specification: two     *)
(* tables that only grow, in the order in which receipts were written.     *)
(* Nothing that is in them is lost or changed, by no failing statement, no *)
(* change of the configuration and no crash.                               *)
(***************************************************************************)
EXTENDS Naturals, Sequences, SequencesExt

VARIABLES
  records,    \* t_record: the numbers of the receipts, by rowid
  terminals   \* t_record_terminal

Increasing(table) == \A a, b \in DOMAIN table : a < b => table[a] < table[b]

InOrder == Increasing(records) /\ Increasing(terminals)

Init == records = <<>> /\ terminals = <<>>

\* A commit, of one receipt or of several that failing ENDs left open.
Commit ==
  /\ IsPrefix(records, records')
  /\ IsPrefix(terminals, terminals')
  /\ InOrder'

Spec == Init /\ [][Commit]_<<records, terminals>>
=============================================================================
