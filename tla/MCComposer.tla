------------------------------ MODULE MCComposer ------------------------------
(***************************************************************************)
(* Composer with two channels, any of them bound, a count of one tick per  *)
(* bound channel, a capture that is restarted after one failure, and one   *)
(* frame that is lost.                                                     *)
(*                                                                         *)
(* Deadlock is not checked: two threads that end at the same time may leave*)
(* a flag set, and StopComposing then polls it for ever.                   *)
(***************************************************************************)
EXTENDS Composer, TLC

\* No action tells two channels apart.
Symmetry == Permutations(Channels)
=============================================================================
