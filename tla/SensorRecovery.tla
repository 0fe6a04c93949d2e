--------------------------- MODULE SensorRecovery ---------------------------
(***************************************************************************)
(* The detector bank from the moment the room is right again: the sensor   *)
(* is repaired, readings keep coming, the actuator works and the model     *)
(* predicts well.  FR-30 says the system then returns to NORMAL by itself. *)
(*                                                                         *)
(* Until the repair the bank takes any step of FaultBank; after it, only   *)
(* the ones a healthy room can cause.                                      *)
(***************************************************************************)
EXTENDS FaultBank

VARIABLE repaired

recoveryVars == <<vars, repaired>>

RecoveryInit == Init /\ repaired = FALSE

Repair ==
  /\ ~repaired
  /\ repaired' = TRUE
  /\ UNCHANGED vars

(* Every direct test clears the sensors it has heard, and D5 finds the room*)
(* responding.                                                             *)
HealthyTick ==
  /\ \E verdict \in {"early", "worked"} :
       Tick({}, {k \in DirectKey : k.subject \in heard}, verdict)
  /\ UNCHANGED repaired

(* A residual of a good model brings the sums of D4 down. *)
HealthyEstimate == OnEstimate /\ ~drifting' /\ UNCHANGED repaired

HealthyHandler ==
  /\ \/ \E s \in Sensors : OnReading(s)
     \/ \E kind \in {"COOL", "OFF"} : OnCommand(kind)
     \/ OnFaultAdopted
  /\ UNCHANGED repaired

RecoveryNext ==
  \/ Repair
  \/ ~repaired /\ Next /\ UNCHANGED repaired
  \/ repaired /\ (HealthyTick \/ HealthyEstimate \/ HealthyHandler)

(* Ticks, readings and estimates go on. *)
RecoveryFairness ==
  /\ WF_recoveryVars(repaired /\ HealthyTick)
  /\ WF_recoveryVars(repaired /\ HealthyEstimate)
  /\ WF_recoveryVars(repaired /\ OnReading(Indoor) /\ UNCHANGED repaired)

RecoverySpec == RecoveryInit /\ [][RecoveryNext]_recoveryVars /\ RecoveryFairness

----------------------------------------------------------------------------
(* Properties. *)

(* Control on prediction heals by itself: the faults of the direct tests   *)
(* retire, and the mode is NORMAL again, wherever the budget leaves the    *)
(* confirmation its time.                                                  *)
DirectFaultHeals ==
  (/\ repaired /\ mode = "DEGRADED_SENSOR"
   /\ ~drifting /\ DriftKey \notin active
   /\ Subjects(active) \subseteq heard /\ divergences = 0
   /\ degradedFor + ClearConfirm + 1 < Budget)
    ~> mode = "NORMAL"
=============================================================================
