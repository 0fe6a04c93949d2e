--------------------------- MODULE MCCommandGate ---------------------------
(***************************************************************************)
(* The actuation gate, the loop behind a gate whose path loses commands,   *)
(* the music player, the robot and the remotes, checked side by side: they *)
(* share nothing, so a behaviour is one of theirs, picked by "part", while *)
(* the others rest.  The music player is given three orders, or two and a  *)
(* stream that is refused.                                                 *)
(***************************************************************************)
EXTENDS CommandGate, MusicPlayer, RobotErrands, Remotes

CONSTANTS f1, f2, y1, y2

VARIABLE part

(* The loop over a path that loses commands.  A unit of time is 30 s, which *)
(* keeps the proportions: V-4 30 s, re-assertion 60 s, dwell 180 s.         *)
VARIABLES heard, gOn, sinceOff, sinceChange, runs, since,
          cOn, cSince, sinceAssert, age, reading, restarts, heldFor
Loop == INSTANCE CompressorControl WITH
  mode <- heard, vOn <- gOn, vSinceOff <- sinceOff, vSinceChange <- sinceChange,
  unitOn <- runs, settled <- since,
  MinOff <- 6, MinInterval <- 1, Late <- 1, Lossy <- TRUE,
  ControllerMinOff <- 6, Reassert <- 2, ExcitationTicks <- 0, HalfCycle <- 3,
  Modes <- {"NORMAL", "SAFE_HOLD", "DEGRADED_ACTUATOR"}, MaxRestarts <- 1

loopVars == <<heard, gOn, sinceOff, sinceChange, runs, since,
              cOn, cSince, sinceAssert, age, reading, restarts, heldFor>>
allVars == <<vars, loopVars, musicVars, robotVars, remoteVars, part>>

MCCharts == {<<>>, <<y1>>, <<y2>>}

(* The devices: a fan with speeds and one without, lights with a level, with *)
(* one that belongs to the plant and without a switch, a TV, an air          *)
(* conditioner and something behind the bridge.                              *)
Parameter(name, type, low, high, choices) ==
  [name |-> name, type |-> type, low |-> low, high |-> high, choices |-> choices, system |-> FALSE]
Plain(name, type, choices) == Parameter(name, type, NoBound, NoBound, choices)
Capability(name, params) == [name |-> name, plant |-> FALSE, sets |-> FALSE, params |-> params]
Setter(name, params) == [Capability(name, params) EXCEPT !.sets = TRUE]
OfThePlant(c) == [c EXCEPT !.plant = TRUE]
Device(kind, capabilities) == [kind |-> kind, capabilities |-> capabilities]
Switched == {Capability("turn_on", {}), Capability("turn_off", {}), Capability("status", {})}
Dimmer == Setter("set_brightness", {Parameter("level", "integer", 0, 2, {})})
Speeds == Setter("set_speed", {Parameter("speed", "integer", 0, 2, {})})
MCManifests ==
  {Device("fan", Switched \cup {Speeds}), Device("fan", Switched),
   Device("light", Switched \cup {Dimmer}), Device("light", Switched \cup {OfThePlant(Dimmer)}),
   Device("light", {Capability("status", {})}),
   Device("tv", Switched \cup {Setter("set_channel", {Parameter("channel", "integer", 1, 2, {})})}),
   Device("ac", {OfThePlant(Setter("set_target", {Parameter("target", "number", 1, 2, {})}))}),
   Device("other", {Setter("set_mode", {Plain("mode", "string", {"eco", "dry"})}),
                    Setter("set_swing", {Plain("swing", "boolean", {})}),
                    Capability("say", {Plain("words", "string", {})}),
                    Capability("mix", {Parameter("speed", "number", 0, 2, {}), Plain("words", "string", {})}),
                    OfThePlant(Capability("boost", {}))})}

PartInit ==
  /\ part \in {"gate", "loop", "music", "robot", "remotes"}
  /\ Init /\ Loop!ControlInit /\ MusicInit /\ RobotInit /\ RemotesInit
  /\ part # "remotes" => manifest = CHOOSE m \in Manifests : m.kind = "tv"
  /\ left.asked + left.refusals = IF part = "music" THEN 3 ELSE 0

GateStep == part = "gate" /\ Next /\ UNCHANGED <<loopVars, musicVars, robotVars, remoteVars, part>>
LoopStep == part = "loop" /\ Loop!ControlNext /\ UNCHANGED <<vars, musicVars, robotVars, remoteVars, part>>
MusicStep == part = "music" /\ MusicNext /\ UNCHANGED <<vars, loopVars, robotVars, remoteVars, part>>
RobotStep == part = "robot" /\ RobotNext /\ UNCHANGED <<vars, loopVars, musicVars, remoteVars, part>>
RemotesStep == part = "remotes" /\ RemotesNext /\ UNCHANGED <<vars, loopVars, musicVars, robotVars, part>>

(* The loop's, MusicFairness and RobotFairness, each for its own part.       *)
PartFairness ==
  /\ WF_loopVars(/\ part = "loop"
                 /\ Loop!BlindTick \/ \E delivered \in Loop!Delivery : Loop!SteadyTick(delivered))
  /\ SF_loopVars(part = "loop" /\ Loop!CarriedTick)
  /\ WF_musicVars(part = "music" /\ Check) /\ WF_musicVars(part = "music" /\ TimePasses)
  /\ WF_robotVars(part = "robot" /\ Tick) /\ WF_robotVars(part = "robot" /\ StepTimePasses)
  /\ WF_robotVars(part = "robot" /\ AnswerIsLate)

PartSpec == PartInit /\ [][GateStep \/ LoopStep \/ MusicStep \/ RobotStep \/ RemotesStep]_allVars /\ PartFairness

(* Whatever was lost, suppressed or forgotten, re-assertion brings the       *)
(* controller, the gate and the unit back to agreement (regulatory.py        *)
(* 203-210); a room that stays hot or cold is answered; and a stop lost in   *)
(* SAFE_HOLD is sent again until it lands (regulatory.py 125-130).           *)
BeliefsConverge == Loop!BeliefsConverge
RoomIsAnswered == Loop!RoomIsAnswered
SafeHoldLands == Loop!SafeHoldLands

(* The losses of a path that drops commands are made good: the controller, *)
(* the gate and the unit come to agree, a room that calls for cooling is   *)
(* answered, and a safe hold lands at the unit (regulatory.py re-asserts,  *)
(* validator.py paces).                                                    *)
LossesAreMadeGood ==
  /\ BeliefsConverge
  /\ RoomIsAnswered
  /\ SafeHoldLands

(* Nothing the music player or the robot has begun goes on for ever: a    *)
(* song that waits for the room's voice is let go, the end of a song is   *)
(* noticed, every errand ends, and every press of the television's button *)
(* is answered (devices/music, devices/robot).                            *)
NothingHangs ==
  /\ HeldSongStarts
  /\ EndIsNoticed
  /\ ErrandsEnd
  /\ PressIsAnswered
============================================================================
