----------------------------- MODULE MCGoalPath -----------------------------
(***************************************************************************)
(* The two ends of what an occupant asks for, checked side by side: they   *)
(* share nothing, so a behaviour is of one of them, picked by "part".      *)
(*                                                                         *)
(* goal: three temperatures within the bounds, one asked for above them    *)
(* and one, as "cooler", below; from one bound to the other takes two      *)
(* steps of V-2.                                                           *)
(*                                                                         *)
(* speech: a room in which a few things are said, by the room and to it,   *)
(* with the microphone muted or the service restarted in between.          *)
(***************************************************************************)
EXTENDS GoalPath, SpeechRoom

VARIABLE part

MCAsked == {3}

Doing(v, r, a, m, t, u, s) ==
  [voices |-> v, replies |-> r, alerts |-> a, messages |-> m, typed |-> t, mutings |-> u, restarts |-> s]
MCDoings ==
  {Doing(3, 1, 0, 1, 0, 0, 0), Doing(2, 0, 2, 1, 0, 0, 0),
   Doing(3, 1, 0, 0, 1, 1, 0), Doing(2, 0, 0, 1, 0, 2, 1)}

PartInit ==
  /\ part \in {"goal", "speech"} /\ Init /\ RoomInit
  /\ part = "goal" => doings = Doing(2, 0, 0, 1, 0, 2, 1)
  /\ part = "speech" => paced

GoalStep == part = "goal" /\ Next /\ UNCHANGED <<roomVars, part>>
SpeechStep == part = "speech" /\ RoomNext /\ UNCHANGED <<vars, part>>

(* Fairness and RoomFairness, each for its own part.                       *)
PartFairness ==
  /\ WF_vars(part = "goal" /\ Handle) /\ WF_vars(part = "goal" /\ MainStep)
  /\ WF_vars(part = "goal" /\ ComesDue)
  /\ WF_roomVars(part = "speech" /\ Ears) /\ WF_roomVars(part = "speech" /\ Words)
  /\ WF_roomVars(part = "speech" /\ (TakeLine \/ StartSpeaking \/ EndSpeaking))
  /\ WF_roomVars(part = "speech" /\ TailEnds) /\ WF_roomVars(part = "speech" /\ ChimeEnds)
  /\ WF_roomVars(part = "speech" /\ TurnAges) /\ WF_roomVars(part = "speech" /\ Restart)
  /\ WF_roomVars(part = "speech" /\ (Heartbeat \/ StatusAges))

PartSpec == PartInit /\ [][GoalStep \/ SpeechStep]_<<vars, roomVars, part>> /\ PartFairness
=============================================================================
