----------------------------- MODULE SpeechRoom -----------------------------
(***************************************************************************)
(* The room's ears and mouth (FR-50, FR-76, FR-79, FR-82, FR-93, FR-95)    *)
(* and what every page shows of them.                                      *)
(*                                                                         *)
(* Three threads of the speech service: the main loop takes a frame,       *)
(* decides whether the microphone is held and feeds the pipeline, and is   *)
(* blocked while it transcribes; the voice says what is queued; MQTT's     *)
(* brings settings, replies, changes of mode and messages home.  A page    *)
(* sees the retained status and the conversation.                          *)
(*                                                                         *)
(* One frame is one step, and what is heard in it is chosen when it is     *)
(* taken.  Listening is continuous, the chime is on, and a frame that a    *)
(* window drops while the chime sounds is a step of its own.  The status   *)
(* has one writer and reaches the page at once.                            *)
(***************************************************************************)
EXTENDS Naturals, Sequences, SequencesExt

CONSTANTS
  VoiceQueue,   \* _QUEUE_LENGTH
  NoSpeech,     \* no_speech_timeout_s, in frames
  ReplyWait,    \* reply_wait_s, in frames
  Command,      \* command_timeout_s, in frames
  Doings,       \* bound: frames somebody speaks in, sentences queued, mutings, restarts
  Silent        \* no presence

ASSUME RoomAssumption ==
  /\ VoiceQueue \in Nat \ {0} /\ NoSpeech \in Nat \ {0} /\ Command \in Nat \ {0}
  /\ ReplyWait \in Nat /\ ReplyWait >= NoSpeech
  /\ Silent \notin {"listening", "transcribing", "speaking", "thinking"}
  /\ Doings \subseteq [voices : Nat, replies : Nat, alerts : Nat, messages : Nat, typed : Nat,
                       mutings : Nat, restarts : Nat]

VARIABLES
  running,     \* the speech service is up
  hushed,      \* settings.listening is off
  lines,       \* Voice._queue: what is to be said, oldest first
  line,        \* what the voice's thread has taken from it
  aloud,       \* Voice._speaking
  tail,        \* _quiet_after_s has not passed
  chiming,     \* _chiming_until_s has not passed
  answerDue,   \* _answer_awaited
  messageDue,  \* _message_awaited: "no", "fresh" or "past" its 30 s
  ear,         \* PipelineState and _addressed
  replyTo,     \* _reply_to names a message
  buffer,      \* frames held, by whether they came before a hold
  preroll,     \* the same, from before speech
  started,     \* UtteranceDetector._speech_started
  seen,        \* UtteranceDetector._frames_seen
  windowed,    \* _window_frames
  job,         \* the utterance the main loop is blocked on
  activity,    \* the retained status
  beating,     \* the page: the status is not 2.5 heartbeats old
  turn,        \* the page: the last of the conversation
  doings       \* what may still happen

mouth == <<hushed, lines, line, aloud, tail, chiming, answerDue, messageDue>>
detector == <<started, seen>>
pipeline == <<ear, replyTo, buffer, preroll, detector, windowed>>
page == <<activity, beating, turn>>
roomVars == <<running, mouth, pipeline, job, page, doings>>

Line == {"reply", "alert", "message"}
NoJob == [for |-> "nothing"]
Job == [for : {"sender", "assistant", "ambient"}, addressed : BOOLEAN,
        at : {"transcribing", "understanding"}, of : SUBSET {"now", "before"}]
Turn == [of : {"nobody", "voice", "typed", "assistant"}, age : {"new", "a minute", "old"}]

SpeechTypeOK ==
  /\ running \in BOOLEAN /\ hushed \in BOOLEAN
  /\ lines \in Seq(Line) /\ Len(lines) <= VoiceQueue /\ line \in Line \cup {"none"}
  /\ aloud \in BOOLEAN /\ (aloud => line # "none") /\ tail \in BOOLEAN /\ chiming \in BOOLEAN
  /\ answerDue \in BOOLEAN /\ messageDue \in {"no", "fresh", "past"}
  /\ ear \in {"waiting", "addressed", "overhearing"} /\ replyTo \in BOOLEAN
  /\ buffer \in SUBSET {"now", "before"} /\ preroll \in SUBSET {"now", "before"}
  /\ ear = "waiting" => buffer = {}
  /\ started \in BOOLEAN /\ seen \in 0..(Command + NoSpeech + 1) /\ windowed \in 0..(ReplyWait + 1)
  /\ job \in Job \cup {NoJob} /\ (job # NoJob => ear = "waiting")
  /\ activity \in {"waiting", "listening", "overhearing", "transcribing", "understanding", "speaking", "muted"}
  /\ beating \in BOOLEAN /\ turn \in Turn

Fresh ==
  /\ hushed = FALSE /\ lines = <<>> /\ line = "none" /\ aloud = FALSE /\ tail = FALSE
  /\ chiming = FALSE /\ answerDue = FALSE /\ messageDue = "no"
  /\ ear = "waiting" /\ replyTo = FALSE /\ buffer = {} /\ preroll = {}
  /\ started = FALSE /\ seen = 0 /\ windowed = 0 /\ job = NoJob

RoomInit ==
  /\ Fresh /\ running = TRUE /\ doings \in Doings
  /\ activity = "waiting" /\ beating = TRUE /\ turn = [of |-> "nobody", age |-> "old"]

May(what) == doings[what] > 0 /\ doings' = [doings EXCEPT ![what] = @ - 1]

-----------------------------------------------------------------------------
(* The voice *)

(* busy                                                                     *)
Busy == aloud \/ tail \/ lines # <<>>

(* _held: why the microphone is ignored, if it is.                          *)
Held == IF hushed THEN "muted" ELSE IF Busy THEN "speaking" ELSE "no"

(* _enqueue: when the backlog is full the oldest goes.                      *)
Enqueue(what) == lines' = Append(IF Len(lines) = VoiceQueue THEN Tail(lines) ELSE lines, what)

(* on_settings, of listening.                                               *)
Mute ==
  /\ running /\ May("mutings") /\ hushed' = ~hushed
  /\ UNCHANGED <<running, lines, line, aloud, tail, chiming, answerDue, messageDue, pipeline, job, page>>

(* on_reply: the assistant's answer to the last request; said, or not when  *)
(* the settings ask for silence.                                            *)
Answered ==
  /\ turn.of \in {"voice", "typed"} /\ turn' = [of |-> "assistant", age |-> "new"]
  /\ \/ running /\ May("replies") /\ Enqueue("reply")
     \/ UNCHANGED <<lines, doings>>
  /\ UNCHANGED <<running, hushed, line, aloud, tail, chiming, answerDue, messageDue, pipeline, job, activity, beating>>

(* on_mode of a change, and play_message.                                   *)
Announced ==
  /\ running
  /\ \/ May("alerts") /\ Enqueue("alert")
     \/ May("messages") /\ Enqueue("message")
  /\ UNCHANGED <<running, hushed, line, aloud, tail, chiming, answerDue, messageDue, pipeline, job, page>>

(* speak_next, up to the get: nothing says yet that the room is speaking.   *)
TakeLine ==
  /\ running /\ line = "none" /\ lines # <<>>
  /\ line' = Head(lines) /\ lines' = Tail(lines)
  /\ UNCHANGED <<running, hushed, aloud, tail, chiming, answerDue, messageDue, pipeline, job, page, doings>>

StartSpeaking ==
  /\ running /\ line # "none" /\ ~aloud /\ aloud' = TRUE
  /\ UNCHANGED <<running, hushed, lines, line, tail, chiming, answerDue, messageDue, pipeline, job, page, doings>>

(* speak_next's finally: after a reply the room waits for an answer, after  *)
(* a message for one to its sender.                                         *)
EndSpeaking ==
  /\ aloud
  /\ aloud' = FALSE /\ line' = "none" /\ tail' = TRUE
  /\ answerDue' = (answerDue \/ line = "reply")
  /\ messageDue' = IF line = "message" THEN "fresh" ELSE messageDue
  /\ UNCHANGED <<running, hushed, lines, chiming, pipeline, job, page, doings>>

(* Time: the tail, the chime, the 30 s of _MESSAGE_WINDOW_FRESH_S.          *)
TailEnds ==
  /\ tail /\ tail' = FALSE
  /\ UNCHANGED <<running, hushed, lines, line, aloud, chiming, answerDue, messageDue, pipeline, job, page, doings>>
ChimeEnds ==
  /\ chiming /\ chiming' = FALSE
  /\ UNCHANGED <<running, hushed, lines, line, aloud, tail, answerDue, messageDue, pipeline, job, page, doings>>
MessagePasses ==
  /\ messageDue = "fresh" /\ (hushed \/ Busy \/ job # NoJob) /\ messageDue' = "past"
  /\ UNCHANGED <<running, hushed, lines, line, aloud, tail, chiming, answerDue, pipeline, job, page, doings>>

-----------------------------------------------------------------------------
(* The main loop *)

(* StatusPublisher.changed                                                  *)
Say(what) == activity' = what /\ beating' = TRUE

Listens == running /\ job = NoJob

(* Mutant: pause looks at the window only, and keeps the moment before.     *)
PausedKeepingPreroll == [ear |-> "waiting", buffer |-> {}, preroll |-> preroll, started |-> FALSE, seen |-> 0]

(* pause: drop whatever is being heard; the message it was for stays.       *)
Paused ==
  IF ear # "waiting" \/ buffer # {} \/ preroll # {}
    THEN [ear |-> "waiting", buffer |-> {}, preroll |-> {}, started |-> FALSE, seen |-> 0]
    ELSE [ear |-> ear, buffer |-> buffer, preroll |-> preroll, started |-> started, seen |-> seen]

(* Frames kept over a hold came before it.                                  *)
Kept(frames) == IF frames = {} THEN {} ELSE {"before"}

HoldShown == IF activity # Held THEN Say(Held) ELSE UNCHANGED <<activity, beating>>

(* run, of a frame while the room speaks or is muted: dropped unheard.      *)
DropHeld ==
  /\ Listens /\ Held # "no"
  /\ ear' = Paused.ear /\ buffer' = Kept(Paused.buffer) /\ preroll' = Kept(Paused.preroll)
  /\ started' = Paused.started /\ seen' = Paused.seen
  /\ HoldShown
  /\ UNCHANGED <<running, mouth, replyTo, windowed, job, turn, doings>>

(* The status once nothing holds the microphone.                            *)
Now == IF activity \in {"speaking", "muted"} THEN "waiting" ELSE activity

(* _open_addressed                                                          *)
OpenAddressed(kept) ==
  /\ ear' = "addressed" /\ buffer' = kept /\ preroll' = {}
  /\ started' = FALSE /\ seen' = 0 /\ windowed' = 0

(* take_message_window and listen_for_reply; a message played too long ago  *)
(* is let go, and the frame goes on.                                        *)
OpenForMessage ==
  /\ Listens /\ Held = "no" /\ messageDue = "fresh"
  /\ messageDue' = "no" /\ OpenAddressed({}) /\ replyTo' = TRUE
  /\ chiming' = TRUE /\ Say("listening")
  /\ UNCHANGED <<running, hushed, lines, line, aloud, tail, answerDue, job, turn, doings>>

(* take_follow_up and listen_for_answer: the room has just replied.         *)
OpenForAnswer ==
  /\ Listens /\ Held = "no" /\ messageDue # "fresh" /\ answerDue
  /\ answerDue' = FALSE /\ messageDue' = "no" /\ OpenAddressed({}) /\ replyTo' = FALSE
  /\ chiming' = TRUE /\ Say("listening")
  /\ UNCHANGED <<running, hushed, lines, line, aloud, tail, job, turn, doings>>

(* A frame that is heard: nothing holds it and no window opens before it.   *)
Taken == Listens /\ Held = "no" /\ messageDue # "fresh" /\ ~answerDue

(* The chime's own sound is not speech.                                     *)
DropChime ==
  /\ Taken /\ chiming /\ (activity \in {"speaking", "muted"} \/ messageDue = "past")
  /\ messageDue' = "no" /\ Say(Now)
  /\ UNCHANGED <<running, hushed, lines, line, aloud, tail, chiming, answerDue, pipeline, job, turn, doings>>

(* _wake: the wake word, alone or in the middle of something else; what was *)
(* just heard is kept, and the chime is left out mid-speech.                *)
WakeWord ==
  /\ Taken /\ ~chiming /\ ear # "addressed" /\ May("voices")
  /\ OpenAddressed(IF buffer # {} THEN buffer ELSE preroll) /\ replyTo' = FALSE
  /\ messageDue' = "no" /\ chiming' = (ear = "waiting") /\ Say("listening")
  /\ UNCHANGED <<running, hushed, lines, line, aloud, tail, answerDue, job, turn>>

(* _maybe_overhear: a quiet frame joins the preroll, speech opens a window. *)
Quiet ==
  /\ Taken /\ ~chiming /\ ear = "waiting"
  /\ preroll' = preroll \cup {"now"} /\ messageDue' = "no"
  /\ IF Now # activity THEN Say(Now) ELSE UNCHANGED <<activity, beating>>
  /\ UNCHANGED <<running, hushed, lines, line, aloud, tail, chiming, answerDue,
                 ear, replyTo, buffer, detector, windowed, job, turn, doings>>
Overhear ==
  /\ Taken /\ ~chiming /\ ear = "waiting" /\ May("voices")
  /\ ear' = "overhearing" /\ buffer' = preroll \cup {"now"} /\ preroll' = {}
  /\ started' = TRUE /\ seen' = 1 /\ messageDue' = "no" /\ Say("overhearing")
  /\ UNCHANGED <<running, hushed, lines, line, aloud, tail, chiming, answerDue, replyTo, windowed, job, turn>>

(* Mutant: a window for a reply never gives up.                             *)
WaitingLongerAlways == replyTo

(* A window for a reply waits longer for somebody to start speaking.        *)
WaitingLonger == replyTo /\ windowed' <= ReplyWait

ShownWhileTranscribing(addressed) == IF addressed THEN "transcribing" ELSE "overhearing"

(* _close: the window, its audio and the message it answers go to the       *)
(* transcriber, or nowhere when nobody spoke.                               *)
Close(transcribe) ==
  LET addressed == ear = "addressed"
      whose == IF replyTo THEN "sender" ELSE IF addressed THEN "assistant" ELSE "ambient"
  IN  /\ ear' = "waiting" /\ buffer' = {} /\ replyTo' = FALSE /\ started' = FALSE /\ seen' = 0
      /\ IF transcribe
           THEN /\ job' = [for |-> whose, addressed |-> addressed, at |-> "transcribing", of |-> buffer \cup {"now"}]
                /\ Say(ShownWhileTranscribing(addressed))
           ELSE job' = NoJob /\ Say("waiting")

(* _listen, of a frame in an open window: UtteranceDetector.accept ends it  *)
(* at a pause or its hard cap, silence_timed_out when nobody spoke.         *)
Listen ==
  /\ Taken /\ ~chiming /\ ear # "waiting"
  /\ windowed' = IF windowed <= ReplyWait THEN windowed + 1 ELSE windowed
  /\ messageDue' = "no" /\ preroll' = preroll
  /\ \E speech \in BOOLEAN :
       LET heard == started \/ speech
           ended == (started /\ ~speech) \/ (heard /\ seen + 1 > Command)
           nobody == ~heard /\ seen + 1 > NoSpeech /\ ~WaitingLonger
       IN  /\ IF speech THEN May("voices") ELSE UNCHANGED doings
           /\ IF ended \/ nobody
                THEN Close(ended)
                ELSE /\ started' = heard /\ seen' = (IF seen <= Command + NoSpeech THEN seen + 1 ELSE seen) /\ buffer' = buffer \cup {"now"}
                     /\ UNCHANGED <<ear, replyTo, job, activity, beating>>
  /\ UNCHANGED <<running, hushed, lines, line, aloud, tail, chiming, answerDue, turn>>

-----------------------------------------------------------------------------
(* The transcript *)

(* _reply, or _overheard of words for the ambient reader, or nothing        *)
(* understood: the loop goes on.                                            *)
Transcribed ==
  /\ running /\ job # NoJob
  /\ job' = NoJob /\ Say("waiting")
  /\ UNCHANGED <<running, mouth, pipeline, turn, doings>>

(* _understand: of a request, or of overheard words that open by calling    *)
(* the assistant by name.                                                   *)
Understand ==
  /\ running /\ job # NoJob /\ job.for # "sender" /\ job.at = "transcribing"
  /\ job' = [job EXCEPT !.for = "assistant", !.at = "understanding"] /\ Say("understanding")
  /\ UNCHANGED <<running, mouth, pipeline, turn, doings>>

(* The hint is published: a request of the occupant's, by voice.            *)
Ask ==
  /\ running /\ job # NoJob /\ job.at = "understanding"
  /\ job' = NoJob /\ Say("waiting") /\ turn' = [of |-> "voice", age |-> "new"]
  /\ UNCHANGED <<running, mouth, pipeline, doings>>

(* A request typed on a page meanwhile.                                     *)
TypeRequest ==
  /\ May("typed") /\ turn' = [of |-> "typed", age |-> "new"]
  /\ UNCHANGED <<running, mouth, pipeline, job, activity, beating>>

(* Time on the page: THINKING_S, then Chat's 90 s; and a status nobody      *)
(* restates, the loop being blocked or the service down.                    *)
TurnAges ==
  /\ turn.age # "old" /\ turn' = [turn EXCEPT !.age = IF @ = "new" THEN "a minute" ELSE "old"]
  /\ UNCHANGED <<running, mouth, pipeline, job, activity, beating, doings>>
StatusAges ==
  /\ beating /\ ~Listens /\ beating' = FALSE
  /\ UNCHANGED <<running, mouth, pipeline, job, activity, turn, doings>>

(* heartbeat                                                                *)
Heartbeat ==
  /\ Listens /\ ~beating /\ beating' = TRUE
  /\ UNCHANGED <<running, mouth, pipeline, job, activity, turn, doings>>

Die ==
  /\ running /\ May("restarts") /\ running' = FALSE
  /\ hushed' = FALSE /\ lines' = <<>> /\ line' = "none" /\ aloud' = FALSE /\ tail' = FALSE
  /\ chiming' = FALSE /\ answerDue' = FALSE /\ messageDue' = "no"
  /\ ear' = "waiting" /\ replyTo' = FALSE /\ buffer' = {} /\ preroll' = {}
  /\ started' = FALSE /\ seen' = 0 /\ windowed' = 0 /\ job' = NoJob
  /\ UNCHANGED page
(* The service again: its first status is that it waits.                    *)
Restart ==
  /\ ~running /\ running' = TRUE /\ Say("waiting")
  /\ UNCHANGED <<mouth, pipeline, job, turn, doings>>

-----------------------------------------------------------------------------
(* The pages *)

(* Between the request and the spoken reply, for THINKING_S.                *)
StillThinking == turn.of = "voice" /\ turn.age = "new"

(* VoiceIndicator.shown                                                     *)
Shown ==
  CASE ~beating -> Silent
    [] beating /\ activity \in {"listening", "transcribing", "speaking"} -> activity
    [] beating /\ activity = "understanding" -> "thinking"
    [] OTHER -> IF StillThinking THEN "thinking" ELSE Silent

(* Chat.presenceOf, online.                                                 *)
PresenceOf ==
  CASE beating /\ activity \in {"listening", "transcribing"} -> activity
    [] beating /\ activity = "understanding" -> "thinking"
    [] OTHER -> IF turn.of \in {"voice", "typed"} /\ turn.age # "old" THEN "thinking" ELSE "idle"

(* The orb that leads the sidebar.                                          *)
SidebarOrb == IF Shown = Silent THEN "idle" ELSE Shown

(* Orb: the rings that spread while somebody is listened to, and the turning *)
(* while something is worked out.                                           *)
Orb(presence) ==
  [still |-> presence \in {"offline", "idle"}, rings |-> presence = "listening",
   turns |-> presence \in {"thinking", "transcribing"}]

-----------------------------------------------------------------------------
Ears == DropHeld \/ OpenForMessage \/ OpenForAnswer \/ DropChime \/ WakeWord \/ Quiet \/ Overhear \/ Listen
Words == Transcribed \/ Understand \/ Ask
Mouth == TakeLine \/ StartSpeaking \/ EndSpeaking \/ TailEnds \/ ChimeEnds
Clocks == TurnAges \/ StatusAges \/ Heartbeat
RoomNext == Ears \/ Words \/ Mouth \/ Clocks \/ MessagePasses \/ Mute \/ Answered \/ Announced \/ TypeRequest \/ Die \/ Restart

(* The microphone delivers, the transcriber and the player return, time     *)
(* passes, systemd restarts the service.  Nobody need speak or answer.      *)
RoomFairness ==
  /\ WF_roomVars(Ears) /\ WF_roomVars(Words) /\ WF_roomVars(TakeLine \/ StartSpeaking \/ EndSpeaking)
  /\ WF_roomVars(TailEnds) /\ WF_roomVars(ChimeEnds) /\ WF_roomVars(TurnAges) /\ WF_roomVars(Restart)
  /\ WF_roomVars(Heartbeat \/ StatusAges)

RoomSpec == RoomInit /\ [][RoomNext]_roomVars /\ RoomFairness

-----------------------------------------------------------------------------
(* Nothing that was heard before the room spoke or was muted is transcribed *)
(* after it: what a hold interrupts is gone, the moment before speech       *)
(* included.                                                                *)
NothingAcrossAHold == job # NoJob => "before" \notin job.of

(* The room never listens for somebody without saying so: while the status  *)
(* is fresh, every page lights "Listening..." and the orb's rings exactly   *)
(* while a window is open for the assistant or for a message's sender.      *)
ListeningIsShown ==
  running /\ beating =>
    /\ Shown = "listening" <=> ear = "addressed"
    /\ Orb(SidebarOrb).rings <=> Orb(PresenceOf).rings
    /\ Orb(SidebarOrb).rings <=> ear = "addressed"

(* Speech that nobody addressed to the assistant never lights the           *)
(* indicator, not even while it is transcribed: what is lit then is an      *)
(* earlier request waiting for its reply.                                   *)
OverhearingIsDark ==
  ear = "overhearing" \/ (job # NoJob /\ job.for = "ambient") =>
    Shown \in {Silent, "thinking"} /\ (Shown = "thinking" => turn.of = "voice")

(* A window opened for an answer closes, whoever keeps silent.              *)
WindowCloses == ear = "addressed" ~> ear # "addressed"

(* The indicator goes out in the end, answered or not.                      *)
IndicatorGoesOut == []<>(Shown = Silent)

(* FR-76, and the pipeline's own words: overheard speech is published as    *)
(* ambient and its audio never kept.  Only a window opened for a message's  *)
(* answer may be sent to the message's sender.                              *)
OverheardIsNotSent == job # NoJob /\ job.for = "sender" => job.addressed

(* The room does not listen behind anyone's back: nothing heard before the *)
(* room spoke or was muted is transcribed after it, a window open for      *)
(* somebody is shown and only that, and overhearing leaves the indicator   *)
(* dark (speech/pipeline.py).                                              *)
RoomIsHonest ==
  /\ SpeechTypeOK
  /\ NothingAcrossAHold
  /\ ListeningIsShown
  /\ OverhearingIsDark

(* The room comes to rest: a window opened for an answer closes, and the *)
(* indicator on the page goes out (speech/pipeline.py,                   *)
(* VoiceIndicator.tsx).                                                  *)
RoomComesToRest ==
  /\ WindowCloses
  /\ IndicatorGoesOut
=============================================================================
