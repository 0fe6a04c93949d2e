-------------------------- MODULE CompressorContract --------------------------
(***************************************************************************)
(* What the control process promises the air conditioner, whatever         *)
(* proposes and whatever the mode does: a run ends at any time, and        *)
(* another begins only on a rested compressor and in a mode that may drive *)
(* the plant (rules V-3 and V-5).                                          *)
(***************************************************************************)
EXTENDS Integers

CONSTANTS
  Rest,       \* the rest a compressor is owed between two runs
  Driving     \* the modes in which the plant may be driven

VARIABLES
  running,    \* whether the unit runs
  rested,     \* how long it has been off, up to Rest; 0 while it runs
  heard       \* the mode the loop has heard

vars == <<running, rested, heard>>

Init == running = FALSE /\ rested = Rest

Start ==
  /\ ~running /\ rested = Rest
  /\ running' = TRUE /\ rested' = 0
  /\ heard' \in Driving

Stop == running /\ running' = FALSE /\ rested' \in 0..Rest

(* Time passes; a unit that runs does not rest. *)
Wait ==
  /\ running' = running
  /\ IF running THEN rested' = 0 ELSE rested' \in rested..Rest

Next == Start \/ Stop \/ Wait

Spec == Init /\ [][Next]_vars
=============================================================================
