------------------------- MODULE MCFaultBankRestart -------------------------
(***************************************************************************)
(* The bank on the sensor control runs on, tested directly by D1: with     *)
(* crashes at any moment, or in a room that is repaired.                   *)
(***************************************************************************)
EXTENDS SensorRecovery

CONSTANTS room, ac

VARIABLE part  \* which of the two: "crashes" or "repair"

MCSensors     == {room}
MCDirectTests == {"D1"}

PartInit == RecoveryInit /\ part \in {"crashes", "repair"}

PartNext ==
  \/ part = "repair" /\ RecoveryNext /\ UNCHANGED part
  \/ part = "crashes" /\ NextWithRestarts /\ UNCHANGED <<repaired, part>>

(* Fairness of the bank with crashes, RecoveryFairness of the repaired one. *)
PartSpec ==
  /\ PartInit /\ [][PartNext]_<<recoveryVars, part>>
  /\ WF_vars(part = "crashes" /\ SomeTick)
  /\ WF_vars(part = "crashes" /\ OnFaultAdopted)
  /\ \A k \in OwnKey : WF_vars(part = "crashes" /\ OnFaultWithdrawn(k))
  /\ RecoveryFairness

(* No fault outlives its cause: those a dead bank left retained are       *)
(* withdrawn by its successor, and one that a direct test found goes once *)
(* its sensor is repaired (service.py, aggregator.py).                    *)
FaultsEnd ==
  /\ StaleFaultsWithdrawn
  /\ DirectFaultHeals
============================================================================
