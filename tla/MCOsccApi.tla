------------------------------ MODULE MCOsccApi ------------------------------
(***************************************************************************)
(* OsccApi for TLC: two devices, the gateway forwarding the vehicle's      *)
(* frames to the control bus or not.                                       *)
(***************************************************************************)
EXTENDS OsccApi

MCInterfaces == <<"can0", "can1">>

MCTopologies ==
  { [can0 |-> {"oscc"}, can1 |-> {"vehicle"}],
    [can0 |-> {"oscc", "vehicle"}, can1 |-> {}] }

\* Two of the three modules.
MCModules == <<"brake", "steering">>

MCFd == 3 .. 5

\* A client that only opens, leaving the choice of the channel to oscc_init,
\* and closes, on buses that carry nothing after the detection.
InitClientNext ==
  \/ CallInit \/ Detect \/ Detected \/ OpenChannel \/ Assign \/ Register
  \/ ArmOscc \/ ArmVehicle \/ CallClose \/ CloseOscc \/ CloseVehicle

InitClient == Init /\ [][InitClientNext]_vars
=============================================================================
