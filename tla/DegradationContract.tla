------------------------ MODULE DegradationContract ------------------------
(***************************************************************************)
(* What the degradation layer promises whoever reads the mode, with no     *)
(* word about detectors, aggregation or topics (src/docs/DESIGN.md,        *)
(* section 5.6): modes may worsen at any time, a sensor fault may heal by  *)
(* itself, running on prediction is time-boxed, and SAFE_HOLD ends only    *)
(* with an operator's acknowledgement, which is spent by the next          *)
(* decision whether or not it released anything.                           *)
(***************************************************************************)
EXTENDS Integers

CONSTANT Budget     \* ticks of control on prediction

VARIABLES
  mode,
  acknowledged,     \* an operator's reset waits to be applied
  predictedFor      \* ticks on prediction, -1 when not predicting

contractVars == <<mode, acknowledged, predictedFor>>

Start == mode = "INIT" /\ acknowledged = FALSE /\ predictedFor = -1

Acknowledge ==
  /\ acknowledged' = TRUE
  /\ UNCHANGED <<mode, predictedFor>>

(* Every decision spends the acknowledgement. *)
Decision == acknowledged' = FALSE

Stay ==
  /\ Decision
  /\ mode' = mode
  /\ IF mode = "DEGRADED_SENSOR"
     THEN predictedFor' \in {predictedFor, predictedFor + 1} /\ predictedFor' < Budget
     ELSE predictedFor' = -1

(* Into control on prediction, from any mode that is not held on purpose. *)
Predict ==
  /\ Decision
  /\ mode \in {"INIT", "NORMAL", "DEGRADED_ACTUATOR"}
  /\ mode' = "DEGRADED_SENSOR"
  /\ predictedFor' = 0

StopActuating ==
  /\ Decision
  /\ mode \in {"INIT", "NORMAL", "DEGRADED_SENSOR"}
  /\ mode' = "DEGRADED_ACTUATOR"
  /\ predictedFor' = -1

Hold ==
  /\ Decision
  /\ mode # "SAFE_HOLD"
  /\ mode' = "SAFE_HOLD"
  /\ predictedFor' = -1

(* Back to normal: by itself from anything but SAFE_HOLD. *)
Recover ==
  /\ Decision
  /\ mode # "NORMAL"
  /\ mode = "SAFE_HOLD" => acknowledged
  /\ mode' = "NORMAL"
  /\ predictedFor' = -1

ContractNext ==
  Acknowledge \/ Stay \/ Predict \/ StopActuating \/ Hold \/ Recover

ContractSpec == Start /\ [][ContractNext]_contractVars
============================================================================
