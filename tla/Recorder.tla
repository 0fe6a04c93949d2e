------------------------------ MODULE Recorder ------------------------------
(***************************************************************************)
(* One device's microphone behind one button, useRecorder.ts: held to      *)
(* record, or tapped to start and tapped again to finish.                  *)
(*                                                                         *)
(* getUserMedia is asynchronous (a prompt the person may leave open), and  *)
(* so is the end of a MediaRecorder: stop() only asks, the recording and   *)
(* the release of the microphone come with its stop event.  Whether a      *)
(* press lasted TAP_MS is a free choice.  A component that is unmounted    *)
(* (another tab of the page) leaves its recorders to themselves.  What was *)
(* recorded is left out.                                                   *)
(***************************************************************************)
EXTENDS Naturals, FiniteSetsExt

CONSTANTS
  MaxTakes,  \* bound: recordings ever asked for
  None

ASSUME RecorderAssumption == MaxTakes \in Nat /\ None \notin Nat

VARIABLES
  mic,         \* each take's stream and MediaRecorder
  recording,   \* useState recording
  held,        \* useState held
  current,     \* recorder.current: the take stop() would end
  orphans,     \* takes of a component that is no longer mounted
  overlapped   \* history: a take was asked for before an earlier one was granted

recorderVars == <<mic, recording, held, current, orphans, overlapped>>

Takes == 1..MaxTakes
MicState == {"new", "asking", "open", "stopping", "closed"}

RecorderTypeOK ==
  /\ mic \in [Takes -> MicState]
  /\ recording \in BOOLEAN /\ held \in BOOLEAN
  /\ current \in Takes \cup {None}
  /\ orphans \subseteq Takes /\ overlapped \in BOOLEAN

RecorderInit(takes) ==
  /\ mic = [t \in Takes |-> IF t <= takes THEN "new" ELSE "closed"]
  /\ recording = FALSE /\ held = FALSE /\ current = None
  /\ orphans = {} /\ overlapped = FALSE

-----------------------------------------------------------------------------
(* stop(): a second one, before the stop event, finds no recorder.          *)
Stop ==
  /\ mic' = IF current = None THEN mic ELSE [mic EXCEPT ![current] = "stopping"]
  /\ current' = None
  /\ held' = FALSE
  /\ UNCHANGED <<recording, orphans, overlapped>>

(* start(), up to its await.                                                *)
Ask ==
  LET fresh == {t \in Takes : mic[t] = "new"} IN
    /\ fresh # {}
    /\ mic' = [mic EXCEPT ![Min(fresh)] = "asking"]
    /\ held' = TRUE
    /\ overlapped' = (overlapped \/ \E t \in Takes \ orphans : mic[t] = "asking")
    /\ UNCHANGED <<recording, current, orphans>>

(* press(mayStart) *)
PressButton(mayStart) ==
  \/ recording /\ Stop
  \/ ~recording /\ mayStart /\ Ask

(* release(): long is whether TAP_MS have passed since the recording began. *)
ReleaseButton(long) ==
  IF recording /\ held /\ long
    THEN Stop
    ELSE held' = FALSE /\ UNCHANGED <<mic, recording, current, orphans, overlapped>>

(* start(), once the stream is there.                                       *)
Granted(t) ==
  /\ mic[t] = "asking"
  /\ mic' = [mic EXCEPT ![t] = "open"]
  /\ IF t \in orphans
       THEN UNCHANGED <<recording, current>>
       ELSE recording' = TRUE /\ current' = t
  /\ UNCHANGED <<held, orphans, overlapped>>

Denied(t) ==
  /\ mic[t] = "asking"
  /\ mic' = [mic EXCEPT ![t] = "closed"]
  /\ UNCHANGED <<recording, held, current, orphans, overlapped>>

(* ondataavailable and onstop of a recorder that was stopped.               *)
Stopped(t) ==
  /\ mic[t] = "stopping"
  /\ mic' = [mic EXCEPT ![t] = "closed"]
  /\ recording' = (recording /\ t \in orphans)
  /\ UNCHANGED <<held, current, orphans, overlapped>>

(* The component is unmounted and a new one mounted.  Nothing is stopped.   *)
Remount ==
  /\ orphans' = {t \in Takes : mic[t] # "new"}
  /\ recording' = FALSE /\ held' = FALSE /\ current' = None
  /\ UNCHANGED <<mic, overlapped>>

-----------------------------------------------------------------------------
(* An open microphone is the one the button shows and would stop: nobody is *)
(* recorded behind an idle button, however prompts, presses and stop events *)
(* follow one another -- as long as the button is not pressed twice before  *)
(* the first prompt is answered, and the component stays mounted.           *)
MicrophoneIsShown ==
  \A t \in Takes \ orphans :
    (mic[t] = "open" /\ ~overlapped) => (recording /\ current = t)
=============================================================================
