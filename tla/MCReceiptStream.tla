---------------------------- MODULE MCReceiptStream ----------------------------
(***************************************************************************)
(* Both parsers of receipts on small tags and buffers.  s starts a         *)
(* receipt, p stops one, r r ends an item (a separator that overlaps       *)
(* itself is the hardest to find), and every byte may be part of an item.  *)
(* With the separator r a whole receipt with an item fits into the bound   *)
(* on the input.                                                           *)
(***************************************************************************)
EXTENDS SerialStream

Lines     == [start_tag |-> <<"s">>, stop_tag |-> <<"p">>,
              item_sep |-> <<"r", "r">>, converted |-> FALSE, line |-> "net"]
Short     == [Lines EXCEPT !.item_sep = <<"r">>]
Converted == [Lines EXCEPT !.converted = TRUE]
Plain     == [Lines EXCEPT !.start_tag = <<"s", "p">>, !.stop_tag = <<"p", "p">>,
                           !.item_sep = <<>>]

Unlined   == [Converted EXCEPT !.item_sep = <<>>]

AllParms == {Lines, Short, Plain, Converted, Unlined}
  \cup {[p EXCEPT !.line = "serial"] : p \in {Lines, Short, Plain, Converted, Unlined}}
  \cup {[p EXCEPT !.line = "tidy"] : p \in {Lines, Short, Plain}}

\* Nothing, a start tag and a stop tag, which without a separator have text
\* behind them.
SomeConversions == {<<>>, <<"s", "r", "r">>, <<"p", "r", "r">>}
=============================================================================
