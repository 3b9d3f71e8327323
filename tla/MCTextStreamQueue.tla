------------------------- MODULE MCTextStreamQueue -------------------------
(***************************************************************************)
(* TextStreamQueue with two texts on one or three rows, so that a text can   *)
(* scroll none, some or all of the rows before it and a change of the font *)
(* can leave less room than there are rows, and a display that is cleared  *)
(* after three ticks.                                                      *)
(***************************************************************************)
EXTENDS TextStreamQueue

As(i, r, u) == [interleaved |-> i, reconfigured |-> r, unbound |-> u]

\* The threads stay apart or do not, the composition stays or changes.
AllModes == {As(FALSE, FALSE, FALSE), As(FALSE, TRUE, FALSE), As(TRUE, TRUE, TRUE)}

\* The owner alone changes what is shown.
ApartModes == {As(FALSE, TRUE, FALSE)}
=============================================================================
