---------------------------- MODULE MCFaultBank ----------------------------
(***************************************************************************)
(* FaultBank on two sensors, the one control runs on and one advisory one. *)
(***************************************************************************)
EXTENDS FaultBank

CONSTANTS room, humidity, ac

MCSensors     == {room, humidity}
MCDirectTests == {"D1"}
============================================================================
