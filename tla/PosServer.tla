------------------------------ MODULE PosServer ------------------------------
(***************************************************************************)
(* What pos_net::start and pos_net::stop promise to the POSDevice that     *)
(* calls them: the device's callback runs only between a start and the     *)
(* return of the matching stop, and a stop always returns.  The TCP and    *)
(* the UDP server implement this contract (TcpServer, UdpServer).          *)
(*                                                                         *)
(* phase is "off" when the device holds no server, "on" between start and  *)
(* the call of stop, "stopping" until the service thread has shut the      *)
(* server down, "quiet" from then until stop returns.                      *)
(***************************************************************************)
VARIABLES phase,    \* where the device is between start and stop
          calling   \* TRUE in the state after a step that ran the callback

vars == <<phase, calling>>

Init ==
  /\ phase = "off"
  /\ calling = FALSE

Start == phase = "off" /\ phase' = "on" /\ calling' = FALSE

\* The service thread runs the device's callback.
Callback ==
  /\ phase \in {"on", "stopping"}
  /\ calling' = TRUE
  /\ UNCHANGED phase

\* The service thread does something that is not a callback of this device.
Work == calling' = FALSE /\ UNCHANGED phase

StopCall == phase = "on" /\ phase' = "stopping" /\ calling' = FALSE

Quiesce == phase = "stopping" /\ phase' = "quiet" /\ calling' = FALSE

StopReturn == phase = "quiet" /\ phase' = "off" /\ calling' = FALSE

Next == Start \/ Callback \/ Work \/ StopCall \/ Quiesce \/ StopReturn

Spec == Init /\ [][Next]_vars /\ WF_vars(Quiesce) /\ WF_vars(StopReturn)
=============================================================================
