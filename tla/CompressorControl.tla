------------------------- MODULE CompressorControl -------------------------
(***************************************************************************)
(* The regulatory loop of src/src/control/: the controller                 *)
(* (regulatory.py), the tick that passes what it proposes through the gate *)
(* (service.py), and the unit the gate is there for.                       *)
(*                                                                         *)
(* Controller and gate each keep their own idea of the compressor, and     *)
(* neither sees the unit: the path to it is open loop.  Modes and readings *)
(* arrive on the network thread while the main thread ticks.               *)
(***************************************************************************)
EXTENDS CommandGate

CONSTANTS
  ControllerMinOff,  \* controller.min_off_s
  Reassert,          \* controller.reassert_interval_s
  ExcitationTicks,   \* controller.excitation_duration_s
  HalfCycle,         \* half of controller.excitation_period_s
  Modes,             \* the modes the bank publishes in a run
  MaxRestarts        \* bound: restarts of the control process

ASSUME ControlAssumption ==
  /\ ControllerMinOff \in Nat /\ Reassert \in Nat \ {0}
  /\ ExcitationTicks \in Nat /\ HalfCycle \in Nat \ {0}
  /\ Modes \subseteq Mode
  /\ MaxRestarts \in Nat

VARIABLES
  cOn,         \* RegulatoryController._compressor_on
  cSince,      \* the time since _last_transition_ts
  sinceAssert, \* the time since _last_assert_ts
  age,         \* the time since _started_ts
  reading,     \* where the last indoor reading puts the room
  restarts,    \* restarts of the control process so far
  heldFor      \* history: how long the loop has ticked in SAFE_HOLD

ctlVars == <<cOn, cSince, sinceAssert, age>>
allVars == <<vars, ctlVars, reading, restarts, heldFor>>

(* The error against the setpoint: beyond the excitation envelope, outside *)
(* the deadband, or inside it.                                             *)
Error == {"cold", "cool", "fair", "warm", "hot"}
Unread == "none"

ControlTypeOK ==
  /\ TypeOK
  /\ cOn \in BOOLEAN /\ cSince \in 0..ControllerMinOff
  /\ sinceAssert \in 0..Reassert /\ age \in 0..ExcitationTicks
  /\ reading \in Error \cup {Unread}
  /\ restarts \in 0..MaxRestarts
  /\ heldFor \in 0..(Reassert + Late)

ControllerBooted ==
  cOn = FALSE /\ cSince = ControllerMinOff /\ sinceAssert = 0 /\ age = 0

ControlInit ==
  /\ Init /\ ControllerBooted
  /\ reading = Unread /\ restarts = 0 /\ heldFor = 0

(***************************************************************************)
(* The controller.                                                         *)
(***************************************************************************)
DwellElapsed == cSince = ControllerMinOff
DueWhenOn == cOn /\ sinceAssert = Reassert
ReassertDue == sinceAssert = Reassert

ShouldStart(e) == ~cOn /\ e \in {"warm", "hot"} /\ DwellElapsed
ShouldStop(e)  == cOn /\ e \in {"cool", "cold"}

(* Excitation drives the unit on a schedule while the room stays inside    *)
(* its envelope.                                                           *)
Excited(e)  == age < ExcitationTicks /\ e \notin {"cold", "hot"}
WantCooling == age % (2 * HalfCycle) < HalfCycle

Quietly == IF ReassertDue THEN "ASSERT" ELSE "MAINTAIN"

ExcitationIntent ==
  IF WantCooling /\ ~cOn THEN IF DwellElapsed THEN "START" ELSE "MAINTAIN"
  ELSE IF ~WantCooling /\ cOn THEN "STOP"
  ELSE Quietly

(* What one tick of the controller does, from the error it acts on. *)
HeldAsItIs(m) == m \in {"SAFE_HOLD", "DEGRADED_ACTUATOR"}
StopsOnce(m)   == m = "SAFE_HOLD" /\ cOn
StopsInHold(m) == m = "SAFE_HOLD" /\ (cOn \/ ReassertDue)
Intent(m, e) ==
  IF StopsInHold(m) THEN IF cOn THEN "STOP" ELSE "ASSERT"
  ELSE IF HeldAsItIs(m) THEN "HOLD"
  ELSE IF Excited(e) THEN ExcitationIntent
  ELSE IF ShouldStart(e) THEN "START"
  ELSE IF ShouldStop(e) THEN "STOP"
  ELSE Quietly

Command(i) ==
  CASE i = "START"  -> "COOL"
    [] i = "STOP"   -> "OFF"
    [] i = "ASSERT" -> (IF cOn THEN "COOL" ELSE "OFF")
    [] OTHER        -> i

Controller(i, d) ==
  /\ cOn' = (IF i = "START" THEN TRUE ELSE IF i = "STOP" THEN FALSE ELSE cOn)
  /\ cSince' = IF i \in {"START", "STOP"}
                 THEN Capped(d, ControllerMinOff) ELSE Capped(cSince + d, ControllerMinOff)
  /\ sinceAssert' = IF i \in {"START", "STOP", "ASSERT"}
                      THEN Capped(d, Reassert) ELSE Capped(sinceAssert + d, Reassert)
  /\ age' = Capped(age + d, ExcitationTicks)

(***************************************************************************)
(* The loop.                                                               *)
(***************************************************************************)
(* In DEGRADED_SENSOR the prediction, which may be anything, stands in for *)
(* the reading.                                                            *)
Acted(m) == IF m = "DEGRADED_SENSOR" THEN Error ELSE {reading}

HeldOn(m, d) == IF mode = "SAFE_HOLD" /\ m = "SAFE_HOLD"
                  THEN Capped(heldFor + d, Reassert + Late) ELSE 0

(* The handler may replace the mode between the controller's reading of it *)
(* and the gate's, so the gate's is `m`.                                   *)
TickIn(m, e, delivered, d) ==
  LET i == Intent(mode, e) IN
  /\ Gate(Command(i), m, delivered, d)
  /\ Controller(i, d)
  /\ heldFor' = HeldOn(m, d)
  /\ UNCHANGED <<reading, restarts>>

(* Nothing is commanded of a room that has not been observed. *)
Tick ==
  /\ reading # Unread
  /\ \E m \in Modes \cup {mode}, e \in Acted(mode), delivered \in Delivery, d \in 1..Late :
       TickIn(m, e, delivered, d)

(* A tick before the first reading: time passes, and that is all. *)
BlindTick ==
  /\ reading = Unread
  /\ \E d \in 1..Late :
       /\ mode' = mode
       /\ Record("MAINTAIN", mode, d)
       /\ Unit("MAINTAIN", TRUE, d)
       /\ Controller("MAINTAIN", d)
  /\ heldFor' = 0 /\ UNCHANGED <<reading, restarts>>

OnModeHeard ==
  /\ OnMode /\ mode' \in Modes
  /\ heldFor' = IF mode' = mode THEN heldFor ELSE 0
  /\ UNCHANGED <<ctlVars, reading, restarts>>

(* A reading arrives, or the setpoint moves under the last one. *)
OnReading ==
  /\ reading' \in Error
  /\ UNCHANGED <<vars, ctlVars, restarts, heldFor>>

(* systemd restarts the process: what controller and gate remembered is    *)
(* gone, the mode and the room are to be heard again, and the unit does    *)
(* what it last was told.                                                  *)
ControlRestart ==
  /\ restarts < MaxRestarts
  /\ restarts' = restarts + 1
  /\ mode' = "INIT"
  /\ vOn' = FALSE /\ vSinceOff' = MinOff /\ vSinceChange' = MinInterval
  /\ \E d \in 1..Late : Unit("HOLD", TRUE, d)
  /\ cOn' = FALSE /\ cSince' = ControllerMinOff /\ sinceAssert' = 0 /\ age' = 0
  /\ reading' = Unread /\ heldFor' = 0

ControlNext == Tick \/ BlindTick \/ OnModeHeard \/ OnReading \/ ControlRestart

ControlSpec == ControlInit /\ [][ControlNext]_allVars

(* The loop keeps ticking, and an IR path that is not dead carries some of *)
(* what is sent over it again and again.  Neither promises that the mode   *)
(* moves: fairness is of ticks in which it does not.                       *)
SteadyTick(delivered) ==
  /\ reading # Unread
  /\ \E e \in Acted(mode), d \in 1..Late : TickIn(mode, e, delivered, d)

CarriedTick ==
  /\ \E e \in Acted(mode) : Admitted(Command(Intent(mode, e)), mode) \in StateChanging
  /\ SteadyTick(TRUE)

FairSpec ==
  /\ ControlSpec
  /\ WF_allVars((\E delivered \in Delivery : SteadyTick(delivered)) \/ BlindTick)
  /\ SF_allVars(CarriedTick)

(***************************************************************************)
(* Properties.                                                             *)
(***************************************************************************)
(* SAFE_HOLD stops the unit (regulatory.py 48-55): whatever the two        *)
(* records of the compressor say, after a suppressed stop, a mode that     *)
(* changed between controller and gate or a restart that forgot the unit   *)
(* was running, a loop that ticks in SAFE_HOLD has stopped the unit within *)
(* one re-assertion interval.  For a path that loses nothing.              *)
SafeHoldStops == heldFor = Reassert + Late => ~unitOn

(* A stop the controller decides on reaches the unit at once, unless the   *)
(* unit itself was switched within V-4's interval: re-assertions are not   *)
(* changes and must not delay it (validator.py 217-225).  Until a restart, *)
(* after which the gate no longer knows when the unit was switched.        *)
StopsPromptly ==
  [][cOn /\ ~cOn' /\ unitOn' /\ restarts' = 0 => settled < MinInterval]_allVars

(* Whatever was lost, suppressed or forgotten, re-assertion brings the     *)
(* controller, the gate and the unit back to agreement once the room and   *)
(* the mode leave the loop alone (R-02, regulatory.py 203-210).            *)
BeliefsConverge ==
  <>[](mode = "NORMAL" /\ reading = "fair") => <>[](cOn = vOn /\ vOn = unitOn)

(* A room that stays hot is cooled for good, and one that stays cold is    *)
(* left alone for good (FR-10): dwell and rate limit may delay it, not     *)
(* starve it.                                                              *)
RoomIsAnswered ==
  /\ <>[](mode = "NORMAL" /\ reading = "hot") => <>[]unitOn
  /\ <>[](mode = "NORMAL" /\ reading = "cold") => <>[]~unitOn

(* A stop lost on the IR path in SAFE_HOLD is sent again until it lands    *)
(* (regulatory.py 125-130).                                                *)
SafeHoldLands == <>[](mode = "SAFE_HOLD" /\ reading # Unread) => <>[]~unitOn
=============================================================================
