------------------------------- MODULE MCPanel -------------------------------
(***************************************************************************)
(* One of three things in the occupant's hands.                            *)
(*                                                                         *)
(* device: two calls, from two tiles of Home, or one of them the full      *)
(* page's; a device that reports, or one that only answers; a link that    *)
(* drops, a request or an event that is lost.                              *)
(*                                                                         *)
(* room: a range of a degree in quarters, a dial of two of them, strides   *)
(* of three; two controls used, or one and one goal of the supervisor's or *)
(* one request lost.                                                       *)
(*                                                                         *)
(* voice: two pages, two changes, one restart or one lost request.         *)
(***************************************************************************)
EXTENDS DevicePanel, RoomControls, VoiceSettings

VARIABLE part  \* bound: which of the three

CONSTANTS c1, c2, home, remote

MCCalls == {c1, c2}
MCViewers == {home, remote}
MCLevels == {1, 2}
MCPresets == {4}
MCVolumes == {1, 2}

Scene(from, calls, silent, open, slow, n) ==
  [asker |-> (c1 :> home) @@ (c2 :> from), calls |-> calls, quiet |-> silent, open |-> open,
   mute |-> silent # {}, limited |-> slow, faults |-> n]

NoScene == Scene(home, {}, {}, {}, FALSE, 0)

MCScenes == {Scene(home, MCCalls, {}, {home}, FALSE, 0),
             Scene(home, {c1}, {}, MCViewers, FALSE, 1),
             Scene(home, MCCalls, {c2}, {home}, TRUE, 0),
             Scene(remote, {c2}, {c2}, {remote}, FALSE, 1),
             NoScene}

HandInit ==
  /\ PanelInit /\ RoomInit /\ VoiceInit
  /\ part \in {"device", "room", "voice"}
  /\ part = "device" <=> scene # NoScene
  /\ pressed + moved = 1
  /\ part # "room" => paced /\ pressed = 0

HandNext ==
  \/ part = "device" /\ PanelNext /\ UNCHANGED <<roomVars, voiceVars, part>>
  \/ part = "room" /\ RoomNext /\ UNCHANGED <<panelVars, voiceVars, part>>
  \/ part = "voice" /\ VoiceNext /\ UNCHANGED <<panelVars, roomVars, part>>

HandSpec ==
  /\ HandInit /\ [][HandNext]_<<panelVars, roomVars, voiceVars, part>>
  /\ PanelFairness /\ RoomFairness /\ VoiceFairness

(* What is asked on a page comes true and is shown: every press is       *)
(* answered, every page shows the device as it is, the room comes to the *)
(* last wish and its draft is answered, and all who keep the voice       *)
(* settings, the slider too, end with the board's (devices/service.py,   *)
(* state.py, Climate.tsx, Settings.tsx).                                 *)
WishesComeTrue ==
  /\ EveryPressIsAnswered
  /\ PanelComesTrue
  /\ LastWishWins
  /\ DraftIsAnswered
  /\ AllObeyTheBoard
  /\ SliderComesBack
=============================================================================
