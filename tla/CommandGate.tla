---------------------------- MODULE CommandGate ----------------------------
(***************************************************************************)
(* The actuation gate (src/src/control/validator.py, CommandValidator) and *)
(* the unit behind it: rules V-3, V-4 and V-5 over whatever is proposed.   *)
(* The gate has no knowledge of intent, so here the proposer is arbitrary: *)
(* "a controller bug must not be able to damage the compressor".           *)
(*                                                                         *)
(* Time is counted in regulatory periods.  A tick is followed by its       *)
(* sleep, which takes 1..Late periods.  A timestamp is kept as the time    *)
(* since it, up to the longest interval it is compared with: None, the     *)
(* timestamp of what never happened, is as good as "long ago" to every     *)
(* comparison the code makes.                                              *)
(***************************************************************************)
EXTENDS Integers

CONSTANTS
  MinOff,        \* validator.min_off_s: the rest a compressor is owed (V-3)
  MinInterval,   \* validator.min_command_interval_s (V-4)
  Late,          \* the longest a loop iteration takes, in periods
  Lossy          \* whether the IR path may lose a command (R-02)

ASSUME GateAssumption ==
  /\ MinOff \in Nat /\ MinInterval \in 0..MinOff
  /\ Late \in Nat \ {0}
  /\ Lossy \in BOOLEAN

VARIABLES
  mode,         \* the mode last heard, INIT until one is
  vOn,          \* CommandValidator._compressor_on
  vSinceOff,    \* the time since _last_off_ts
  vSinceChange, \* the time since _last_state_change_ts
  unitOn,       \* whether the unit runs
  settled       \* the time since the unit last switched on or off

gateVars == <<vOn, vSinceOff, vSinceChange>>
vars     == <<mode, gateVars, unitOn, settled>>

Mode == {"INIT", "NORMAL", "DEGRADED_SENSOR", "DEGRADED_ACTUATOR", "SAFE_HOLD"}
Kind == {"COOL", "OFF", "MAINTAIN", "HOLD"}
StateChanging == {"COOL", "OFF"}
NonActuating  == {"DEGRADED_ACTUATOR", "SAFE_HOLD"}

Capped(t, limit) == IF t < limit THEN t ELSE limit

TypeOK ==
  /\ mode \in Mode
  /\ vOn \in BOOLEAN /\ vSinceOff \in 0..MinOff /\ vSinceChange \in 0..MinInterval
  /\ unitOn \in BOOLEAN /\ settled \in 0..MinOff

(* A fresh CommandValidator: nothing to protect yet. *)
Booted == vOn = FALSE /\ vSinceOff = MinOff /\ vSinceChange = MinInterval

(* The system is commissioned with the unit at rest. *)
Init ==
  /\ Booted
  /\ mode = "INIT"
  /\ unitOn = FALSE /\ settled = MinOff

(***************************************************************************)
(* The verdict.                                                            *)
(***************************************************************************)
(* A command that asks for the state the compressor is already in. *)
Reassertion(kind) == (kind = "COOL") = vOn

(* V-3: no restart until the compressor has been off long enough. *)
DwellFromRunning(kind) == kind = "COOL" /\ vOn /\ vSinceOff < MinOff
ViolatesDwell(kind) == kind = "COOL" /\ ~vOn /\ vSinceOff < MinOff

(* V-4: caps how often the compressor state may be changed. *)
ViolatesRate == vSinceChange < MinInterval

(* V-5: nothing may be driven in these modes; stopping is not driving. *)
BlockedInHold(kind, m) == m = "SAFE_HOLD" /\ kind = "COOL"
Blocked(kind, m) == m \in NonActuating /\ kind = "COOL"
AlwaysAdmitted(kind, m) == m \in NonActuating /\ kind = "OFF"

(* What the gate lets through of a proposal. *)
Admitted(kind, m) ==
  IF Blocked(kind, m) THEN "HOLD"
  ELSE IF \/ AlwaysAdmitted(kind, m)
          \/ kind \notin StateChanging
          \/ Reassertion(kind) THEN kind
  ELSE IF ViolatesDwell(kind) \/ ViolatesRate THEN "MAINTAIN"
  ELSE kind

(* Whether an admitted command counts as a change of state. *)
RecordedAlways(kind, m) == Admitted(kind, m) = kind /\ kind \in StateChanging
Recorded(kind, m) ==
  /\ Admitted(kind, m) = kind
  /\ kind \in StateChanging
  /\ AlwaysAdmitted(kind, m) \/ ~Reassertion(kind)

(* The bookkeeping of a proposal, and the `d` periods until the next. *)
Record(kind, m, d) ==
  /\ vOn' = IF Recorded(kind, m) THEN kind = "COOL" ELSE vOn
  /\ vSinceOff' = IF Recorded(kind, m) /\ kind = "OFF" /\ vOn
                    THEN Capped(d, MinOff) ELSE Capped(vSinceOff + d, MinOff)
  /\ vSinceChange' = IF Recorded(kind, m)
                       THEN Capped(d, MinInterval) ELSE Capped(vSinceChange + d, MinInterval)

(***************************************************************************)
(* The unit.                                                               *)
(***************************************************************************)
(* The bridge carries COOL and OFF to the unit; MAINTAIN and HOLD ask for  *)
(* nothing new.                                                            *)
Carries(kind, delivered) == kind \in StateChanging /\ delivered

Unit(kind, delivered, d) ==
  /\ unitOn' = IF Carries(kind, delivered) THEN kind = "COOL" ELSE unitOn
  /\ settled' = IF unitOn' = unitOn THEN Capped(settled + d, MinOff) ELSE Capped(d, MinOff)

Delivery == IF Lossy THEN BOOLEAN ELSE {TRUE}

(* One tick of the loop: the gate judges by the mode heard when it runs,   *)
(* which may be newer than the one the proposal was made in.               *)
Gate(kind, m, delivered, d) ==
  /\ mode' = m
  /\ Record(kind, m, d)
  /\ Unit(Admitted(kind, m), delivered, d)

AnyTick ==
  \E kind \in Kind, m \in Mode, delivered \in Delivery, d \in 1..Late :
    Gate(kind, m, delivered, d)

OnMode ==
  /\ mode' \in Mode
  /\ UNCHANGED <<gateVars, unitOn, settled>>

Next == AnyTick \/ OnMode

(* Whatever proposes. *)
Spec == Init /\ [][Next]_vars

(***************************************************************************)
(* Properties.                                                             *)
(***************************************************************************)
Contract == INSTANCE CompressorContract
  WITH Rest <- MinOff, Driving <- Mode \ NonActuating,
       running <- unitOn, rested <- (IF unitOn THEN 0 ELSE settled), heard <- mode

(* Whatever is proposed and however the mode moves, the unit is started    *)
(* only on a rested compressor and in a mode that may drive it (V-3, V-5,  *)
(* validator.py 192-244): the gate's own bookkeeping is enough, although   *)
(* it never sees the unit.  For a path that loses nothing.                 *)
ImplementsContract == Contract!Spec
=============================================================================
