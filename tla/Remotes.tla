------------------------------ MODULE Remotes ------------------------------
(***************************************************************************)
(* A device's remote (remotes/registry.ts and the remotes of a fan, a      *)
(* light, the air conditioner and of any device): which remote a device    *)
(* gets, and which calls its controls make, against what its service makes *)
(* of a call (devices/service.py, common/tools.py) and what a switched     *)
(* device then does (devices/fan, devices/home).                           *)
(*                                                                         *)
(* A device is any of a set of manifests.  The page sees the state that    *)
(* the board had when it was last told; what it asks goes through the      *)
(* executor, in order.  The music player's remote and the robot's are in   *)
(* MusicPlayer and RobotErrands; the air conditioner's own asks for a      *)
(* target, as in RoomControls, and makes no call of a device.              *)
(***************************************************************************)
EXTENDS Naturals, Sequences, FiniteSets

CONSTANTS
  Manifests, \* the devices: [kind, capabilities]
  NoBound,   \* a bound that a parameter does not have
  MaxCalls   \* bound: calls on their way

(* A capability is [name, plant, sets, params], a parameter [name, type, low, *)
(* high, choices, system]; "sets" tells whether its name is set_...           *)
Numbers == {"integer", "number"}
Bounded(p) == p.type \in Numbers /\ p.low # NoBound /\ p.high # NoBound

(* What the devices of the house declare: each name once, a switch without  *)
(* parameters, bounds for every number, nothing that the system supplies.   *)
ASSUME RemotesAssumption ==
  /\ NoBound \notin Nat /\ MaxCalls \in Nat
  /\ \A m \in Manifests : \A c \in m.capabilities :
       /\ \A d \in m.capabilities : c.name = d.name => c = d
       /\ c.name \in {"turn_on", "turn_off"} => c.params = {}
       /\ IsFiniteSet(c.params)
       /\ \A p \in c.params : ~p.system
       /\ \A p \in c.params : p.type \in Numbers => p.low \in Nat /\ p.high \in Nat /\ p.low <= p.high

VARIABLES
  manifest,  \* the device
  on, level, \* what the device is: its switch, and the level it sets
  page,      \* the state the page has
  calls,     \* calls on their way, first to last
  last       \* last_result: the status of the last call

remoteVars == <<manifest, on, level, page, calls, last>>

-----------------------------------------------------------------------------
(* parts.tsx. *)

(* capability, and has. Mutant: what belongs to the plant is offered too.    *)
OpenAny(m) == m.capabilities
Open(m) == {c \in m.capabilities : ~c.plant}
Named(m, name) == {c \in Open(m) : c.name = name}
Has(m, name) == Named(m, name) # {}

(* onlyParameter, boundedNumber. *)
Shown(c) == {p \in c.params : ~p.system}
Only(c) == IF Cardinality(Shown(c)) = 1 THEN Shown(c) ELSE {}
BoundedNumber(c) == {p \in Only(c) : Bounded(p)}

Call(c, args) == [tool |-> c.name, args |-> args]
Given(p, value) == [name \in {p.name} |-> value]
Number(p, value) == Given(p, [of |-> "number", is |-> value])
Other(p, of, value) == Given(p, [of |-> of, is |-> value])
Nowhere == <<>>

(* PowerButton: turned off if the page has it on, else on.                   *)
Power == {[tool |-> IF page.on THEN "turn_off" ELSE "turn_on", args |-> Nowhere]}

(* Slider, let go at any of its values, or where it was.                     *)
Slid(c, p) == {Call(c, Number(p, value)) : value \in p.low..p.high}

-----------------------------------------------------------------------------
(* The remotes: the calls their controls make. *)

(* FanRemote: a switch, and the speeds from 1 up. *)
FanSteps(m) ==
  UNION {UNION {{Call(c, Number(p, step)) : step \in (IF p.low = 0 THEN 1 ELSE p.low)..p.high} : p \in BoundedNumber(c)} :
         c \in Named(m, "set_speed")}
FanFits(m) == Has(m, "turn_on") /\ Has(m, "turn_off") /\ \E c \in Named(m, "set_speed") : BoundedNumber(c) # {}
FanRemote(m) == Power \cup FanSteps(m)

(* LightRemote: a switch and, if it sets one, its level.                     *)
Dimmers(m) == {c \in Open(m) : c.sets /\ BoundedNumber(c) # {}}
LightFits(m) == Has(m, "turn_on") /\ Has(m, "turn_off")
LightRemote(m) ==
  Power \cup IF Dimmers(m) = {} THEN {}
             ELSE LET c == CHOOSE d \in Dimmers(m) : TRUE
                  IN UNION {Slid(c, p) : p \in BoundedNumber(c)}

(* GenericRemote: a control for each capability of one parameter or none.    *)
(* Mutant: only switches and sliders are drawn.                              *)
ControlNumbers(c) ==
  IF Shown(c) = {} THEN {Call(c, Nowhere)} ELSE UNION {IF Bounded(p) THEN Slid(c, p) ELSE {} : p \in Only(c)}
Control(c) ==
  IF Shown(c) = {} THEN {Call(c, Nowhere)}
  ELSE UNION {IF Bounded(p) THEN Slid(c, p)
              ELSE IF p.type = "boolean" THEN {Call(c, Other(p, "boolean", value)) : value \in BOOLEAN}
              ELSE IF p.choices # {} THEN {Call(c, Other(p, "string", choice)) : choice \in p.choices}
              ELSE {Call(c, Other(p, "string", "text"))} : p \in Only(c)}
GenericRemote(m) == UNION {Control(c) : c \in Open(m)}

(* remoteFor: the remote of its kind if it fits, else the generic one.       *)
Own(m) ==
  IF m.kind = "ac" \/ (m.kind = "fan" /\ FanFits(m)) \/ (m.kind = "light" /\ LightFits(m)) THEN m.kind ELSE "generic"
Offers(m) ==
  CASE Own(m) = "ac" -> {}
    [] Own(m) = "fan" -> FanRemote(m)
    [] Own(m) = "light" -> LightRemote(m)
    [] OTHER -> GenericRemote(m)

-----------------------------------------------------------------------------
(* The device's service: handle, validate_arguments. *)

Within(p, value) == (p.low # NoBound => p.low <= value) /\ (p.high # NoBound => value <= p.high)
Suits(p, value) ==
  CASE p.type \in Numbers -> value.of = "number" /\ Within(p, value.is)
    [] p.type = "boolean" -> value.of = "boolean"
    [] OTHER -> value.of = "string" /\ (p.choices # {} => value.is \in p.choices)
Verdict(m, call) ==
  LET found == {c \in m.capabilities : c.name = call.tool}
  IN IF found = {} THEN "UNKNOWN_TOOL"
     ELSE IF \E c \in found : c.plant THEN "UNAVAILABLE"
     ELSE IF \A c \in found :
               /\ DOMAIN call.args = {p.name : p \in c.params}
               /\ \A p \in c.params : Suits(p, call.args[p.name])
          THEN "OK" ELSE "BAD_ARGUMENTS"

(* A switched device: a level of 0 turns it off and keeps the level it had.  *)
Levels(call) == {value \in {call.args[name] : name \in DOMAIN call.args} : value.of = "number"}
Set(value) == IF value = 0 THEN on' = FALSE /\ UNCHANGED level ELSE on' = TRUE /\ level' = value
Carry(call) ==
  CASE call.tool = "turn_on" -> on' = TRUE /\ level' = IF level = 0 THEN 1 ELSE level
    [] call.tool = "turn_off" -> on' = FALSE /\ UNCHANGED level
    [] OTHER -> IF Levels(call) = {} THEN UNCHANGED <<on, level>> ELSE \E value \in Levels(call) : Set(value.is)

RemotesInit ==
  /\ manifest \in Manifests /\ on = FALSE /\ level = 0
  /\ page = [on |-> FALSE, level |-> 0] /\ calls = <<>> /\ last = "none"

(* A control is used. *)
Use ==
  /\ Len(calls) < MaxCalls
  /\ \E call \in Offers(manifest) : calls' = Append(calls, call)
  /\ UNCHANGED <<manifest, on, level, page, last>>
(* The first call reaches the service, which may fail at what it is asked.   *)
Handle ==
  /\ calls # <<>> /\ calls' = Tail(calls)
  /\ LET verdict == Verdict(manifest, Head(calls))
     IN \/ last' = verdict /\ IF verdict = "OK" THEN Carry(Head(calls)) ELSE UNCHANGED <<on, level>>
        \/ verdict = "OK" /\ last' = "FAILED" /\ UNCHANGED <<on, level>>
  /\ UNCHANGED <<manifest, page>>
(* The page is told of the device's state, changed or not. *)
Hear ==
  /\ page' = [on |-> on, level |-> level]
  /\ UNCHANGED <<manifest, on, level, calls, last>>

RemotesNext == Use \/ Handle \/ Hear
RemotesSpec == RemotesInit /\ [][RemotesNext]_remoteVars

-----------------------------------------------------------------------------
(* RemoteTile: the note of what went wrong last.  The schema's refusals start *)
(* with the capability's name; any other bad argument is noted as it came.   *)
Note ==
  CASE last \in {"none", "OK"} -> ""
    [] last = "BAD_ARGUMENTS" -> "asked it the wrong way"
    [] last = "UNKNOWN_TOOL" -> "something it can't do"
    [] OTHER -> "what the device said"

(* Whatever device is plugged in, no control of its remote asks for what the *)
(* device does not have, may not be asked or cannot read: the tile's note    *)
(* never says so of a remote's own call.                                     *)
ControlsAreUnderstood ==
  /\ Note \notin {"asked it the wrong way", "something it can't do"}
  /\ last # "UNAVAILABLE"

(* All that the remote offers. *)
Tools == {call.tool : call \in Offers(manifest)}

(* "still controllable": a device with a switch can be turned on and off     *)
(* from its remote, whichever it gets, and one drawn from its manifest has a *)
(* control for all that takes one parameter or none.                         *)
StillControllable ==
  /\ Own(manifest) = "generic" => {c.name : c \in {d \in Open(manifest) : Cardinality(Shown(d)) <= 1}} \subseteq Tools
  /\ Own(manifest) \in {"fan", "light"} => \E name \in {"turn_on", "turn_off"} : name \in Tools

(* A device is never on at no level once it has been told its level or been  *)
(* switched on.                                                              *)
OnMeansALevel == on => level > 0

(* A remote drawn from a manifest and the device behind it understand each *)
(* other: what a control sends the device has and can read, a device with  *)
(* a switch stays controllable whichever remote it gets, and a device      *)
(* switched on has a level (remotes/, devices/service.py).                 *)
RemotesAreUnderstood ==
  /\ ControlsAreUnderstood
  /\ StillControllable
  /\ OnMeansALevel
============================================================================
