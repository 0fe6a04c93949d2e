---------------------------- MODULE ModeManager ----------------------------
(***************************************************************************)
(* The degradation state machine of src/src/faults/mode_manager.py, as the *)
(* pure decision the code keeps it: which mode a set of active faults      *)
(* calls for.  The modules that hold its state (FaultBank,                 *)
(* FaultBankThreads) extend this one.                                      *)
(*                                                                         *)
(* A fault is identified by its key: the detector that raised it and the   *)
(* subject it is raised on, as the aggregator keys it.                     *)
(***************************************************************************)
EXTENDS Integers

CONSTANTS
  Sensors,      \* the sensors the bank watches
  Indoor,       \* the sensor control runs on (estimator.indoor_sensor_id)
  Ac,           \* the air conditioner, a subject but not a sensor
  DirectTests   \* D1 to D3: the detectors that judge a sensor by itself

ASSUME SubjectsAssumption ==
  /\ Indoor \in Sensors
  /\ Ac \notin Sensors
  /\ "D1" \in DirectTests
  /\ DirectTests \subseteq {"D1", "D2", "D3"}

Mode == {"INIT", "NORMAL", "DEGRADED_SENSOR", "DEGRADED_ACTUATOR", "SAFE_HOLD"}

(* Modes the system does not leave without a person saying so. *)
ActuatorOnlyExits == {"DEGRADED_ACTUATOR"}
OperatorOnlyExits == {"SAFE_HOLD", "DEGRADED_ACTUATOR"}

DirectKey     == [detector : DirectTests, subject : Sensors]
DriftKey      == [detector |-> "D4", subject |-> Indoor]
ActuatorKey   == [detector |-> "D5", subject |-> Ac]
DivergenceKey == [detector |-> "MODEL_DIVERGENCE", subject |-> Indoor]

OwnKey == DirectKey \cup {DriftKey, ActuatorKey}
Key    == OwnKey \cup {DivergenceKey}

(* The mode a fault alone implies.  A sensor fault on an instrument the    *)
(* loop does not control on is advisory: its impact is NORMAL.             *)
Impact(k) ==
  CASE k.detector = "D5"               -> "DEGRADED_ACTUATOR"
    [] k.detector = "MODEL_DIVERGENCE" -> "SAFE_HOLD"
    [] OTHER -> IF k.subject = Indoor THEN "DEGRADED_SENSOR" ELSE "NORMAL"

(* The faults of a set that bear on control. *)
Controlling(faults) == {k \in faults : Impact(k) # "NORMAL"}

(* Whether a set of faults reaches an impact. *)
Reaches(faults, m) == \E k \in faults : Impact(k) = m

(* The dominant fault is the most severe one. *)
DominantImpact(faults) ==
  IF Reaches(faults, "SAFE_HOLD") THEN "SAFE_HOLD"
  ELSE IF Reaches(faults, "DEGRADED_ACTUATOR") THEN "DEGRADED_ACTUATOR"
  ELSE "DEGRADED_SENSOR"

(* Escalation counts broken things, not findings. *)
SeveralFindings(faults) == \E j, k \in faults : j # k
SeveralSubjects(faults) == \E j, k \in faults : j.subject # k.subject

(* SAFE_HOLD is always held; DEGRADED_ACTUATOR by an actuator fault. *)
StillHeldAlways(m, faults) == TRUE
StillHeld(m, faults) ==
  \/ m # "DEGRADED_ACTUATOR"
  \/ Reaches(faults, "DEGRADED_ACTUATOR")

(* An operator's reset releases any mode, unless something is still broken.*)
Released(pending, faults) == pending /\ faults = {}

(* The mode the evidence calls for: `pending` is an operator's reset not   *)
(* yet applied, `reporting` whether anything has been heard from, `spent`  *)
(* whether the prediction budget is used up.                               *)
Decide(m, active, pending, reporting, spent) ==
  LET faults == Controlling(active) IN
  IF Released(pending, faults) THEN "NORMAL"
  ELSE IF m \in OperatorOnlyExits /\ StillHeld(m, faults) THEN m
  ELSE IF m = "INIT" /\ ~reporting THEN "INIT"
  ELSE IF faults = {} THEN "NORMAL"
  ELSE IF Reaches(faults, "SAFE_HOLD") \/ SeveralSubjects(faults) \/ spent THEN "SAFE_HOLD"
  ELSE DominantImpact(faults)
============================================================================
