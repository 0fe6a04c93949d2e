------------------------ MODULE GoalAndSpeech_proofs ------------------------
(***************************************************************************)
(* What is asked of the room is kept, and the room says when it listens.   *)
(*                                                                         *)
(* The microphone, for any length of its windows, any backlog of the       *)
(* voice, and anything said, typed, muted or restarted: the loop that      *)
(* hears is the one that publishes, so the status and the window change in *)
(* the same step (Shows); a hold leaves no frame behind                    *)
(* (NothingFromBefore); and a service that is down has neither a window    *)
(* nor an utterance (Deaf).                                                *)
(*                                                                         *)
(* The goal path keeps V-1 and V-2 for as long as its two threads take     *)
(* turns, and keeps the occupant's precedence however they interleave: the *)
(* rules read the setpoint in force twice and assign it later.  What a     *)
(* thread knows of it between those steps is Judged, and it stays true     *)
(* only because nobody else is between its own steps, which is Alone.      *)
(***************************************************************************)
EXTENDS GoalPath, SpeechRoom, TLAPS

-----------------------------------------------------------------------------
(* The microphone. *)

NothingFromBefore == "before" \notin buffer \cup preroll

(* What the status says, by what the loop is in the middle of. *)
Shows ==
  /\ running => (activity = "listening" <=> ear = "addressed")
  /\ ear = "overhearing" => activity = "overhearing"
  /\ job # NoJob /\ job.for = "ambient" => activity = "overhearing"

Deaf == ~running => ear = "waiting" /\ job = NoJob

IInv ==
  /\ SpeechTypeOK
  /\ NothingAcrossAHold /\ NothingFromBefore
  /\ Shows
  /\ Deaf

-----------------------------------------------------------------------------
LEMMA Jobs ==
  /\ \A j \in Job : /\ j # NoJob
                    /\ j.for \in {"sender", "assistant", "ambient"}
                    /\ [j EXCEPT !.for = "assistant", !.at = "understanding"] \in Job
                    /\ [j EXCEPT !.for = "assistant", !.at = "understanding"].for = "assistant"
                    /\ [j EXCEPT !.for = "assistant", !.at = "understanding"].of = j.of
  /\ \A who \in {"sender", "assistant", "ambient"}, addressed \in BOOLEAN, of \in SUBSET {"now", "before"} :
       LET j == [for |-> who, addressed |-> addressed, at |-> "transcribing", of |-> of]
       IN  j \in Job /\ j.for = who /\ j.of = of
<1>1. \A j \in Job : j # NoJob
  <2>1. \A j \in Job : j.for # "nothing"
    BY DEF Job
  <2>2. NoJob.for = "nothing"
    BY DEF NoJob
  <2> QED BY <2>1, <2>2
<1> QED BY <1>1 DEF Job

LEMMA Lines ==
  ASSUME NEW q \in Seq(Line), Len(q) <= VoiceQueue, NEW what \in Line
  PROVE  /\ LET r == Append(IF Len(q) = VoiceQueue THEN Tail(q) ELSE q, what)
            IN  r \in Seq(Line) /\ Len(r) <= VoiceQueue
         /\ q # <<>> => Head(q) \in Line /\ Tail(q) \in Seq(Line) /\ Len(Tail(q)) <= VoiceQueue
<1>1. VoiceQueue \in Nat \ {0} /\ Len(q) \in Nat
  BY RoomAssumption DEF RoomAssumption
<1>2. q # <<>> => Head(q) \in Line /\ Tail(q) \in Seq(Line) /\ Len(Tail(q)) = Len(q) - 1
  OBVIOUS
<1>3. q # <<>> <=> Len(q) # 0
  OBVIOUS
<1>4. CASE Len(q) = VoiceQueue
  <2>1. Append(Tail(q), what) \in Seq(Line) /\ Len(Append(Tail(q), what)) = Len(Tail(q)) + 1
    BY <1>1, <1>2, <1>3, <1>4
  <2> QED BY <1>1, <1>2, <1>3, <1>4, <2>1
<1>5. CASE Len(q) # VoiceQueue
  <2>1. Append(q, what) \in Seq(Line) /\ Len(Append(q, what)) = Len(q) + 1
    OBVIOUS
  <2> QED BY <1>1, <1>2, <1>3, <1>5, <2>1
<1> QED BY <1>4, <1>5

LEMMA NoLines == <<>> \in Seq(Line) /\ Len(<<>>) <= VoiceQueue
BY RoomAssumption DEF RoomAssumption

LEMMA Turns ==
  /\ \A t \in Turn, a \in {"new", "a minute", "old"} : [t EXCEPT !.age = a] \in Turn
  /\ \A of \in {"nobody", "voice", "typed", "assistant"} : [of |-> of, age |-> "new"] \in Turn
  /\ [of |-> "nobody", age |-> "old"] \in Turn
BY DEF Turn

(* The parts of the type invariant, by who changes them. *)
VoiceTyped ==
  /\ running \in BOOLEAN /\ hushed \in BOOLEAN
  /\ lines \in Seq(Line) /\ Len(lines) <= VoiceQueue /\ line \in Line \cup {"none"}
  /\ aloud \in BOOLEAN /\ (aloud => line # "none") /\ tail \in BOOLEAN /\ chiming \in BOOLEAN
  /\ answerDue \in BOOLEAN /\ messageDue \in {"no", "fresh", "past"}
EarTyped ==
  /\ ear \in {"waiting", "addressed", "overhearing"} /\ replyTo \in BOOLEAN
  /\ buffer \in SUBSET {"now", "before"} /\ preroll \in SUBSET {"now", "before"}
  /\ ear = "waiting" => buffer = {}
  /\ started \in BOOLEAN /\ seen \in 0..(Command + NoSpeech + 1) /\ windowed \in 0..(ReplyWait + 1)
  /\ job \in Job \cup {NoJob} /\ (job # NoJob => ear = "waiting")
PageTyped ==
  /\ activity \in {"waiting", "listening", "overhearing", "transcribing", "understanding", "speaking", "muted"}
  /\ beating \in BOOLEAN /\ turn \in Turn

LEMMA Parts == SpeechTypeOK <=> VoiceTyped /\ EarTyped /\ PageTyped
BY DEF SpeechTypeOK, VoiceTyped, EarTyped, PageTyped

(* What is about the microphone, taken together. *)
EarInv == EarTyped /\ PageTyped /\ NothingAcrossAHold /\ NothingFromBefore /\ Shows /\ Deaf

LEMMA Bounds ==
  /\ 0 \in 0..(Command + NoSpeech + 1) /\ 1 \in 0..(Command + NoSpeech + 1) /\ 0 \in 0..(ReplyWait + 1)
  /\ \A n \in 0..(Command + NoSpeech + 1) : n <= Command + NoSpeech => n + 1 \in 0..(Command + NoSpeech + 1)
  /\ \A n \in 0..(ReplyWait + 1) : n <= ReplyWait => n + 1 \in 0..(ReplyWait + 1)
BY RoomAssumption DEF RoomAssumption

LEMMA InitInv == RoomInit => IInv
<1> SUFFICES ASSUME RoomInit PROVE IInv
  OBVIOUS
<1>1. VoiceTyped
  BY NoLines DEF RoomInit, Fresh, VoiceTyped
<1>2. EarTyped
  BY Bounds DEF RoomInit, Fresh, EarTyped
<1>3. PageTyped
  BY Turns DEF RoomInit, PageTyped
<1> QED
  BY <1>1, <1>2, <1>3, Parts
     DEF RoomInit, Fresh, IInv, NothingAcrossAHold, NothingFromBefore, Shows, Deaf

-----------------------------------------------------------------------------
(* The voice. *)
LEMMA VoiceStep ==
  ASSUME VoiceTyped, [RoomNext]_roomVars
  PROVE  VoiceTyped'
<1>1. ASSUME UNCHANGED <<running, hushed, lines, line, aloud, tail, answerDue>>,
             chiming' \in {chiming, TRUE, FALSE}, messageDue' \in {messageDue, "no", "past"}
      PROVE  VoiceTyped'
  BY <1>1 DEF VoiceTyped
<1>2. CASE DropHeld \/ OpenForMessage \/ DropChime \/ WakeWord \/ Quiet \/ Overhear \/ Listen
  BY <1>1, <1>2 DEF DropHeld, OpenForMessage, DropChime, WakeWord, Quiet, Overhear, Listen, mouth
<1>3. CASE OpenForAnswer
  BY <1>3 DEF OpenForAnswer, VoiceTyped
<1>4. CASE Words \/ Clocks \/ TypeRequest \/ UNCHANGED roomVars
  BY <1>1, <1>4 DEF Words, Clocks, Transcribed, Understand, Ask, TurnAges, StatusAges, Heartbeat, TypeRequest,
                    mouth, roomVars
<1>5. CASE TakeLine
  <2>1. /\ line = "none" /\ line' = Head(lines) /\ lines' = Tail(lines) /\ lines # <<>>
        /\ UNCHANGED <<running, hushed, aloud, tail, chiming, answerDue, messageDue>>
    BY <1>5 DEF TakeLine
  <2>2. line' \in Line /\ lines' \in Seq(Line) /\ Len(lines') <= VoiceQueue
    <3>1. "reply" \in Line
      BY DEF Line
    <3> QED BY <2>1, <3>1, Lines DEF VoiceTyped
  <2> QED BY <2>1, <2>2 DEF VoiceTyped
<1>6. CASE StartSpeaking \/ EndSpeaking
  BY <1>6 DEF StartSpeaking, EndSpeaking, VoiceTyped
<1>7. CASE TailEnds \/ ChimeEnds \/ MessagePasses \/ Mute
  <2>1. /\ UNCHANGED <<running, lines, line, aloud, answerDue>>
        /\ tail' \in {tail, FALSE} /\ chiming' \in {chiming, FALSE} /\ messageDue' \in {messageDue, "past"}
        /\ hushed' = hushed \/ hushed' = ~hushed
    BY <1>7 DEF TailEnds, ChimeEnds, MessagePasses, Mute
  <2> QED BY <2>1 DEF VoiceTyped
<1>8. CASE Answered \/ Announced
  <2>1. PICK what \in Line : UNCHANGED lines \/ Enqueue(what)
    BY <1>8 DEF Answered, Announced, Line
  <2>2. lines' \in Seq(Line) /\ Len(lines') <= VoiceQueue
    BY <2>1, Lines DEF Enqueue, VoiceTyped
  <2> QED BY <1>8, <2>2 DEF Answered, Announced, VoiceTyped
<1>9. CASE Die
  BY <1>9, NoLines DEF Die, VoiceTyped
<1>10. CASE Restart
  BY <1>10 DEF Restart, VoiceTyped, mouth
<1> QED
  BY <1>2, <1>3, <1>4, <1>5, <1>6, <1>7, <1>8, <1>9, <1>10 DEF RoomNext, Ears, Mouth

-----------------------------------------------------------------------------
(* The microphone. *)
LEMMA HoldStep ==
  ASSUME EarInv, VoiceTyped, DropHeld \/ DropChime
  PROVE  EarInv'
<1> USE DEF EarInv
<1>1. CASE DropHeld
  <2>1. /\ ear' = "waiting" /\ buffer' = {} /\ preroll' = {}
    BY <1>1 DEF DropHeld, Paused, Kept
  <2>2. /\ started' \in BOOLEAN /\ seen' \in 0..(Command + NoSpeech + 1)
    BY <1>1, Bounds DEF DropHeld, Paused, EarTyped
  <2>3. running /\ job = NoJob /\ UNCHANGED <<running, replyTo, windowed, job, turn>>
    BY <1>1 DEF DropHeld, Listens
  <2>4. activity' \in {"speaking", "muted"} /\ beating' \in BOOLEAN
    BY <1>1 DEF DropHeld, HoldShown, Held, Say, PageTyped
  <2>5. EarTyped'
    BY <2>1, <2>2, <2>3 DEF EarTyped
  <2> QED BY <2>1, <2>3, <2>4, <2>5 DEF PageTyped, NothingAcrossAHold, NothingFromBefore, Shows, Deaf
<1>2. CASE DropChime
  <2>1. /\ running /\ activity' \in {activity, "waiting"} /\ beating' = TRUE
        /\ (activity' # activity => activity \in {"speaking", "muted"})
        /\ UNCHANGED <<running, ear, replyTo, buffer, preroll, started, seen, windowed, job, turn>>
    BY <1>2 DEF DropChime, Taken, Listens, Say, Now, pipeline, detector
  <2> QED BY <2>1 DEF EarTyped, PageTyped, NothingAcrossAHold, NothingFromBefore, Shows, Deaf
<1> QED BY <1>1, <1>2

LEMMA OpenStep ==
  ASSUME EarInv, OpenForMessage \/ OpenForAnswer \/ WakeWord
  PROVE  EarInv'
<1> USE DEF EarInv
<1>1. /\ running /\ job = NoJob /\ UNCHANGED <<running, job, turn>>
      /\ activity' = "listening" /\ beating' = TRUE /\ replyTo' \in BOOLEAN
  BY DEF OpenForMessage, OpenForAnswer, WakeWord, Taken, Listens, Say
<1>2. /\ ear' = "addressed" /\ preroll' = {} /\ buffer' \in {{}, buffer, preroll}
      /\ started' = FALSE /\ seen' = 0 /\ windowed' = 0
  BY DEF OpenForMessage, OpenForAnswer, WakeWord, OpenAddressed
<1>3. EarTyped'
  BY <1>1, <1>2, Bounds DEF EarTyped
<1> QED BY <1>1, <1>2, <1>3 DEF PageTyped, NothingAcrossAHold, NothingFromBefore, Shows, Deaf

LEMMA OverhearStep ==
  ASSUME EarInv, Quiet \/ Overhear
  PROVE  EarInv'
<1> USE DEF EarInv
<1>1. CASE Quiet
  <2>1. /\ running /\ ear = "waiting" /\ preroll' = preroll \cup {"now"}
        /\ activity' \in {activity, "waiting"} /\ beating' \in {beating, TRUE}
        /\ UNCHANGED <<running, ear, replyTo, buffer, started, seen, windowed, job, turn>> /\ job = NoJob
    BY <1>1 DEF Quiet, Taken, Listens, Say, Now, detector
  <2> QED BY <2>1 DEF EarTyped, PageTyped, NothingAcrossAHold, NothingFromBefore, Shows, Deaf
<1>2. CASE Overhear
  <2>1. /\ running /\ job = NoJob /\ ear' = "overhearing" /\ buffer' = preroll \cup {"now"} /\ preroll' = {}
        /\ started' = TRUE /\ seen' = 1 /\ activity' = "overhearing" /\ beating' = TRUE
        /\ UNCHANGED <<running, replyTo, windowed, job, turn>>
    BY <1>2 DEF Overhear, Taken, Listens, Say
  <2>2. EarTyped'
    BY <2>1, Bounds DEF EarTyped
  <2> QED BY <2>1, <2>2 DEF PageTyped, NothingAcrossAHold, NothingFromBefore, Shows, Deaf
<1> QED BY <1>1, <1>2

(* A window that closes gives its audio to the transcriber, or to nobody. *)
LEMMA ListenStep ==
  ASSUME EarInv, Listen
  PROVE  EarInv'
<1> USE DEF EarInv
<1>1. /\ running /\ job = NoJob /\ ear # "waiting" /\ UNCHANGED <<running, turn>> /\ preroll' = preroll
      /\ windowed' = IF windowed <= ReplyWait THEN windowed + 1 ELSE windowed
  BY DEF Listen, Taken, Listens
<1>2. windowed' \in 0..(ReplyWait + 1)
  BY <1>1, Bounds DEF EarTyped
<1>3. CASE \E transcribe \in BOOLEAN : Close(transcribe)
  <2>1. PICK transcribe \in BOOLEAN : Close(transcribe)
    BY <1>3
  <2>2. ear' = "waiting" /\ buffer' = {} /\ replyTo' = FALSE /\ started' = FALSE /\ seen' = 0
    BY <2>1 DEF Close
  <2>3. CASE transcribe
    <3> DEFINE addressed == ear = "addressed"
               whose == IF replyTo THEN "sender" ELSE IF addressed THEN "assistant" ELSE "ambient"
    <3>1. /\ job' = [for |-> whose, addressed |-> addressed, at |-> "transcribing", of |-> buffer \cup {"now"}]
          /\ activity' = ShownWhileTranscribing(addressed) /\ beating' = TRUE
      BY <2>1, <2>3 DEF Close, Say
    <3>2. /\ job' \in Job /\ job'.of = buffer \cup {"now"} /\ job'.for = whose
      <4>1. whose \in {"sender", "assistant", "ambient"} /\ addressed \in BOOLEAN
        OBVIOUS
      <4>2. buffer \cup {"now"} \in SUBSET {"now", "before"}
        BY DEF EarTyped
      <4> HIDE DEF whose, addressed
      <4> QED BY <3>1, <4>1, <4>2, Jobs
    <3>3. activity' \in {"transcribing", "overhearing"} /\ (job'.for = "ambient" => activity' = "overhearing")
      BY <3>1, <3>2 DEF ShownWhileTranscribing
    <3>4. EarTyped'
      BY <1>2, <2>2, <3>2, <1>1, Bounds DEF EarTyped
    <3> QED BY <1>1, <2>2, <3>1, <3>2, <3>3, <3>4 DEF PageTyped, NothingAcrossAHold, NothingFromBefore, Shows, Deaf
  <2>4. CASE ~transcribe
    <3>1. job' = NoJob /\ activity' = "waiting" /\ beating' = TRUE
      BY <2>1, <2>4 DEF Close, Say
    <3>2. EarTyped'
      BY <1>1, <1>2, <2>2, <3>1, Bounds DEF EarTyped
    <3> QED BY <1>1, <2>2, <3>1, <3>2 DEF PageTyped, NothingAcrossAHold, NothingFromBefore, Shows, Deaf
  <2> QED BY <2>3, <2>4
<1>4. CASE /\ started' \in BOOLEAN /\ seen' = (IF seen <= Command + NoSpeech THEN seen + 1 ELSE seen)
           /\ buffer' = buffer \cup {"now"} /\ UNCHANGED <<ear, replyTo, job, activity, beating>>
  <2>1. seen' \in 0..(Command + NoSpeech + 1)
    BY <1>4, Bounds DEF EarTyped
  <2>2. EarTyped'
    BY <1>1, <1>2, <1>4, <2>1 DEF EarTyped
  <2> QED BY <1>1, <1>4, <2>2 DEF PageTyped, NothingAcrossAHold, NothingFromBefore, Shows, Deaf
<1>5. started \in BOOLEAN
  BY DEF EarTyped
<1> QED BY <1>3, <1>4, <1>5 DEF Listen

LEMMA WordsStep ==
  ASSUME EarInv, Words
  PROVE  EarInv'
<1> USE DEF EarInv
<1>1. /\ running /\ job # NoJob /\ job \in Job /\ ear = "waiting"
      /\ UNCHANGED <<running, ear, replyTo, buffer, preroll, started, seen, windowed>>
  BY DEF Words, Transcribed, Understand, Ask, pipeline, detector, EarTyped
<1>2. CASE Transcribed \/ Ask
  <2>1. job' = NoJob /\ activity' = "waiting" /\ beating' = TRUE /\ turn' \in Turn
    BY <1>2, Turns DEF Transcribed, Ask, Say, PageTyped
  <2> QED BY <1>1, <2>1 DEF EarTyped, PageTyped, NothingAcrossAHold, NothingFromBefore, Shows, Deaf
<1>3. CASE Understand
  <2>1. /\ job' = [job EXCEPT !.for = "assistant", !.at = "understanding"]
        /\ activity' = "understanding" /\ beating' = TRUE /\ turn' = turn
    BY <1>3 DEF Understand, Say
  <2>2. job' \in Job /\ job'.for = "assistant" /\ job'.of = job.of
    BY <1>1, <2>1, Jobs
  <2> QED BY <1>1, <2>1, <2>2 DEF EarTyped, PageTyped, NothingAcrossAHold, NothingFromBefore, Shows, Deaf
<1> QED BY <1>2, <1>3 DEF Words

LEMMA EarStep ==
  ASSUME EarInv, VoiceTyped, [RoomNext]_roomVars
  PROVE  EarInv'
<1>1. ASSUME UNCHANGED <<running, ear, replyTo, buffer, preroll, started, seen, windowed, job, activity>>,
             beating' \in BOOLEAN, turn' \in Turn
      PROVE  EarInv'
  BY <1>1 DEF EarInv, EarTyped, PageTyped, NothingAcrossAHold, NothingFromBefore, Shows, Deaf
<1>2. beating \in BOOLEAN /\ turn \in Turn
  BY DEF EarInv, PageTyped
<1>3. CASE Mouth \/ MessagePasses \/ Mute \/ Announced \/ UNCHANGED roomVars
  <2>1. UNCHANGED <<running, ear, replyTo, buffer, preroll, started, seen, windowed, job, activity, beating, turn>>
    BY <1>3 DEF Mouth, TakeLine, StartSpeaking, EndSpeaking, TailEnds, ChimeEnds, MessagePasses, Mute, Announced,
                pipeline, detector, page, roomVars
  <2> QED BY <1>1, <1>2, <2>1
<1>4. CASE Answered \/ TypeRequest \/ Clocks
  <2>1. UNCHANGED <<running, ear, replyTo, buffer, preroll, started, seen, windowed, job, activity>>
    BY <1>4 DEF Answered, TypeRequest, Clocks, TurnAges, StatusAges, Heartbeat, pipeline, detector
  <2>2. beating' \in BOOLEAN
    BY <1>2, <1>4 DEF Answered, TypeRequest, Clocks, TurnAges, StatusAges, Heartbeat
  <2>3. turn' \in Turn
    BY <1>2, <1>4, Turns DEF Answered, TypeRequest, Clocks, TurnAges, StatusAges, Heartbeat
  <2> QED BY <1>1, <2>1, <2>2, <2>3
<1>5. CASE Die
  <2>1. /\ running' = FALSE /\ ear' = "waiting" /\ replyTo' = FALSE /\ buffer' = {} /\ preroll' = {}
        /\ started' = FALSE /\ seen' = 0 /\ windowed' = 0 /\ job' = NoJob /\ UNCHANGED <<activity, beating, turn>>
    BY <1>5 DEF Die, page
  <2>2. EarTyped'
    BY <2>1, Bounds DEF EarTyped
  <2> QED BY <2>1, <2>2 DEF EarInv, PageTyped, NothingAcrossAHold, NothingFromBefore, Shows, Deaf
<1>6. CASE Restart
  <2>1. /\ ~running /\ activity' = "waiting" /\ beating' = TRUE
        /\ UNCHANGED <<ear, replyTo, buffer, preroll, started, seen, windowed, job, turn>>
    BY <1>6 DEF Restart, Say, pipeline, detector
  <2> QED BY <2>1 DEF EarInv, EarTyped, PageTyped, NothingAcrossAHold, NothingFromBefore, Shows, Deaf
<1> QED
  BY <1>3, <1>4, <1>5, <1>6, HoldStep, OpenStep, OverhearStep, ListenStep, WordsStep DEF RoomNext, Ears

LEMMA InvStep == IInv /\ [RoomNext]_roomVars => IInv'
<1>1. IInv <=> VoiceTyped /\ EarInv
  BY Parts DEF IInv, EarInv
<1>2. IInv' <=> VoiceTyped' /\ EarInv'
  BY <1>1, Parts DEF IInv, EarInv, SpeechTypeOK, VoiceTyped, EarTyped, PageTyped
<1> QED BY <1>1, <1>2, VoiceStep, EarStep

(* What the pages light follows from the status. *)
LEMMA InvImplies == IInv => RoomIsHonest
<1> SUFFICES ASSUME IInv PROVE RoomIsHonest
  OBVIOUS
<1>1. Silent \notin {"listening", "transcribing", "speaking", "thinking"}
  BY RoomAssumption DEF RoomAssumption
<1>2. ListeningIsShown
  <2> SUFFICES ASSUME running, beating
               PROVE  /\ Shown = "listening" <=> ear = "addressed"
                      /\ Orb(SidebarOrb).rings <=> Orb(PresenceOf).rings
                      /\ Orb(SidebarOrb).rings <=> ear = "addressed"
    BY DEF ListeningIsShown
  <2>1. activity = "listening" <=> ear = "addressed"
    BY DEF IInv, Shows
  <2>2. Shown = "listening" <=> activity = "listening"
    BY <1>1 DEF Shown
  <2>3. PresenceOf = "listening" <=> activity = "listening"
    BY DEF PresenceOf
  <2>4. SidebarOrb = "listening" <=> Shown = "listening"
    BY <1>1 DEF SidebarOrb
  <2>5. \A presence : Orb(presence).rings <=> presence = "listening"
    BY DEF Orb
  <2> QED BY <2>1, <2>2, <2>3, <2>4, <2>5
<1>3. OverhearingIsDark
  <2> SUFFICES ASSUME activity = "overhearing"
               PROVE  Shown \in {Silent, "thinking"} /\ (Shown = "thinking" => turn.of = "voice")
    BY DEF OverhearingIsDark, IInv, Shows
  <2> QED BY <1>1 DEF Shown, StillThinking
<1> QED BY <1>2, <1>3 DEF IInv, RoomIsHonest

(* Whatever is said, typed, muted, played or restarted: nothing heard       *)
(* before the room spoke or was muted is transcribed after it; every page   *)
(* that has a fresh status lights "Listening..." exactly while a window is  *)
(* open for somebody; and overheard speech lights nothing (pipeline.py,     *)
(* VoiceIndicator.tsx, Chat.tsx).                                           *)
THEOREM RoomKept == RoomSpec => []RoomIsHonest
<1> QED BY InitInv, InvStep, InvImplies, PTL DEF RoomSpec

-----------------------------------------------------------------------------
(* The goal path. *)

USE GoalAssumption DEF GoalAssumption

(* At most one thread is adopting anything. *)
Alone == pc["net"] = "idle" \/ pc["main"] = "idle"

(* What the rules have established for the goal in a thread's hand. *)
Known(t) ==
  /\ pc[t] \in {"up", "down", "assign"} => hand[t].setpoint \in Low..High
  /\ pc[t] = "up" => hand[t].setpoint - applied > MaxStep
  /\ pc[t] = "down" => applied - hand[t].setpoint > MaxStep
  /\ pc[t] = "assign" => ~Paced(hand[t]) \/ Within(hand[t].setpoint)

Judged ==
  ~overlapped => /\ Alone
                 /\ applied \in Low..High
                 /\ Known("net") /\ Known("main")

(* Whose goals the threads have in hand. *)
Sourced ==
  /\ pc["main"] \notin {"idle", "pursue"} => hand["main"].source = "PREFERENCE"
  /\ holding /\ pc["net"] # "idle" => hand["net"].source \in {"PREFERENCE", "OPERATOR"}

GoalInv == TypeOK /\ Judged /\ Sourced

----------------------------------------------------------------------------
(* The rules. *)

LEMMA BoundedInBounds ==
  ASSUME NEW asked \in Int
  PROVE  Bounded(asked) \in Low..High
  BY DEF Bounded

LEMMA ProposalTyped ==
  ASSUME NEW source \in Source, NEW asked \in Int
  PROVE  /\ Propose(source, asked) \in Goal
         /\ Propose(source, asked).source = source
  BY DEF Propose, Goal

LEMMA NoGoalTyped == NoGoal \in Goal
  BY ProposalTyped DEF NoGoal, Source

LEMMA InitTyped == Init => TypeOK
  <1> SUFFICES ASSUME Init PROVE TypeOK
    OBVIOUS
  <1>1. applied \in Int /\ left \in 0..Pursuits
    BY DEF Init
  <1>2. pc \in [Thread -> Pc]
    BY DEF Init, Idle, Pc
  <1>3. hand \in [Thread -> Goal]
    BY NoGoalTyped DEF Init, Empty
  <1> QED BY <1>1, <1>2, <1>3 DEF Init, TypeOK

----------------------------------------------------------------------------
(* Types. *)

LEMMA StepTyped == TypeOK /\ [Next]_vars => TypeOK'
  <1> SUFFICES ASSUME TypeOK, [Next]_vars PROVE TypeOK'
    OBVIOUS
  <1>1. ASSUME NEW source \in {"SUPERVISOR", "OPERATOR"}, NEW asked \in Asked,
               OnGoal(source, asked)
        PROVE  TypeOK'
    <2>1. Propose(source, asked) \in Goal
      BY ProposalTyped DEF Source
    <2> QED BY <1>1, <2>1 DEF OnGoal, Enters, Goes, Holds, Wants, TypeOK, managerVars, Thread, Pc
  <1>2. ASSUME NEW asked \in Asked \cup {applied - ComfortStep, applied + ComfortStep},
               OnPreference(asked)
        PROVE  TypeOK'
    <2>1. asked \in Int
      BY DEF TypeOK
    <2>2. Propose("PREFERENCE", asked) \in Goal
      BY <2>1, ProposalTyped DEF Source
    <2>3. left' \in 0..Pursuits
      BY <1>2 DEF OnPreference
    <2> QED BY <1>2, <2>1, <2>2, <2>3
            DEF OnPreference, Enters, Goes, Holds, Wants, TypeOK, Thread, Pc
  <1>3. CASE OnRelease
    <2>1. Propose("DEFAULT", Default) \in Goal
      BY ProposalTyped DEF Source
    <2>2. left' \in 0..Pursuits
      BY <1>3 DEF OnRelease
    <2> QED BY <1>3, <2>1, <2>2 DEF OnRelease, Enters, Goes, Holds, Wants, TypeOK, Thread, Pc
  <1>4. CASE Stamp
    BY <1>4 DEF Stamp, Goes, TypeOK, Thread, Pc
  <1>5. CASE StartPursuit
    BY <1>5 DEF StartPursuit, Enters, Goes, Wants, TypeOK, managerVars, Thread, Pc
  <1>6. CASE Pursue
    <2>1. pc' \in [Thread -> Pc] /\ stamp' \in {"unset", "recent", "due"}
      BY <1>6 DEF Pursue, Goes, TypeOK, Thread, Pc
    <2>3. left' \in 0..Pursuits
      BY <1>6 DEF Pursue, TypeOK, Expired
    <2>4. hand' \in [Thread -> Goal]
      <3>1. Propose("PREFERENCE", pursuing) \in Goal
        BY <1>6, ProposalTyped DEF Pursue, Source, TypeOK
      <3> QED BY <1>6, <3>1 DEF Pursue, Holds, TypeOK, Thread
    <2> QED BY <1>6, <2>1, <2>3, <2>4 DEF Pursue, TypeOK
  <1>13. CASE NotNow
    BY <1>13 DEF NotNow, Goes, TypeOK, Thread, Pc
  <1>7. ASSUME NEW t \in Thread, Adopt(t) PROVE TypeOK'
    <2>1. CASE Stale(t)
      BY <2>1 DEF Stale, Goes, TypeOK, managerVars, Pc
    <2>2. CASE Judge(t)
      <3>1. hand[t].setpoint \in Int
        BY DEF TypeOK, Goal
      <3>2. Bounded(hand[t].setpoint) \in Int
        BY <3>1, BoundedInBounds
      <3>3. hand' \in [Thread -> Goal]
        BY <2>2, <3>2 DEF Judge, Holds, TypeOK, Goal
      <3>4. pc' \in [Thread -> Pc]
        BY <2>2 DEF Judge, Goes, TypeOK, Pc
      <3> QED BY <2>2, <3>3, <3>4 DEF Judge, TypeOK, managerVars
    <2>3. CASE Limit(t)
      <3>1. OneStep(pc[t]) \in Int
        BY DEF OneStep, TypeOK
      <3>2. hand' \in [Thread -> Goal]
        <4>1. hand \in [Thread -> Goal]
          BY DEF TypeOK
        <4>2. \A limited \in BOOLEAN : [hand[t] EXCEPT !.setpoint = OneStep(pc[t]), !.limited = limited] \in Goal
          BY <3>1, <4>1 DEF Goal
        <4>3. hand' = [hand EXCEPT ![t] = [hand[t] EXCEPT !.setpoint = OneStep(pc[t]),
                                                         !.limited = OneStep(pc[t]) # hand[t].setpoint]]
          BY <2>3 DEF Limit, Holds
        <4> QED BY <4>1, <4>2, <4>3
      <3>3. pc' \in [Thread -> Pc]
        BY <2>3 DEF Limit, Goes, TypeOK, Pc
      <3> QED BY <2>3, <3>2, <3>3 DEF Limit, TypeOK, managerVars
    <2>4. CASE Assign(t)
      <3>1. applied' \in Int
        BY <2>4 DEF Assign, TypeOK, Goal
      <3> QED BY <2>4, <3>1 DEF Assign, Goes, TypeOK, managerVars, Pc
    <2>5. CASE Settle(t)
      BY <2>5 DEF Settle, Goes, TypeOK, Pc
    <2>6. CASE Show(t)
      BY <2>6, NoGoalTyped DEF Show, InForce, Goes, Holds, TypeOK, managerVars, Pc
    <2> QED BY <1>7, <2>1, <2>2, <2>3, <2>4, <2>5, <2>6 DEF Adopt
  <1>8. CASE HoldLapses
    BY <1>8 DEF HoldLapses, TypeOK
  <1>9. CASE ComesDue
    BY <1>9 DEF ComesDue, TypeOK
  <1>10. CASE Boot
    <2>1. left' \in 0..Pursuits /\ applied' \in Int
      BY <1>10 DEF Boot
    <2> QED BY <1>10, <2>1, NoGoalTyped DEF Boot, TypeOK, Idle, Empty, Pc
  <1>11. CASE UNCHANGED vars
    BY <1>11 DEF vars, managerVars, TypeOK
  <1>12. CASE TickDies
    BY <1>10, <1>12 DEF TickDies
  <1> QED
    BY <1>1, <1>2, <1>3, <1>4, <1>5, <1>6, <1>7, <1>8, <1>9, <1>10, <1>11, <1>12, <1>13
    DEF Next, Hear, Handle, MainStep, Thread

(* The goal path keeps its types, however the threads interleave and       *)
(* whenever it is restarted.                                               *)
THEOREM GoalTypeCorrect == Spec => []TypeOK
  BY InitTyped, StepTyped, PTL DEF Spec

----------------------------------------------------------------------------
(* V-1 and V-2. *)

LEMMA InitJudged == Init => Judged /\ Sourced
  <1> SUFFICES ASSUME Init PROVE Judged /\ Sourced
    OBVIOUS
  <1>1. pc["net"] = "idle" /\ pc["main"] = "idle"
    BY DEF Init, Idle, Thread
  <1>2. applied \in Low..High
    BY DEF Init
  <1> QED BY <1>1, <1>2 DEF Judged, Sourced, Alone, Known

(* A thread that is not between its own steps has nothing to know. *)
LEMMA IdleKnows ==
  ASSUME NEW t \in Thread, pc[t] \notin {"up", "down", "assign"}
  PROVE  Known(t)
  BY DEF Known

(* What V-2 lets through after V-1 is within V-1's bounds and one step of  *)
(* the setpoint in force.                                                  *)
LEMMA StepInBounds ==
  ASSUME NEW a \in Low..High, NEW g \in Low..High
  PROVE  /\ g - a > MaxStep => /\ a + MaxStep \in Low..High
                               /\ (a + MaxStep) - a <= MaxStep
                               /\ a - (a + MaxStep) <= MaxStep
         /\ a - g > MaxStep => /\ a - MaxStep \in Low..High
                               /\ (a - MaxStep) - a <= MaxStep
                               /\ a - (a - MaxStep) <= MaxStep
  OBVIOUS

LEMMA AdoptJudged ==
  ASSUME TypeOK, Judged, NEW t \in Thread, Adopt(t)
  PROVE  Judged'
  <1> SUFFICES ASSUME ~overlapped' PROVE Alone' /\ (applied \in Low..High)'
                                         /\ \A o \in Thread : Known(o)'
    BY DEF Judged, Thread
  <1>1. ~overlapped /\ pc[t] # "idle"
    BY DEF Adopt, Stale, Judge, Limit, Assign, Settle, Show
  <1>2. Alone /\ applied \in Low..High /\ Known(t)
    BY <1>1 DEF Judged, Thread
  <1>3. \A o \in Thread \ {t} : pc[o] = "idle" /\ pc'[o] = "idle"
    <2>1. \A o \in Thread \ {t} : pc[o] = "idle"
      BY <1>1, <1>2 DEF Alone, Thread
    <2>2. \A o \in Thread \ {t} : pc'[o] = pc[o]
      BY DEF Adopt, Stale, Judge, Limit, Assign, Settle, Show, Goes, TypeOK
    <2> QED BY <2>1, <2>2
  <1>4. Alone'
    BY <1>3 DEF Alone, Thread
  <1>5. \A o \in Thread \ {t} : Known(o)'
    BY <1>3 DEF Known
  <1>6. (applied \in Low..High)' /\ Known(t)'
    <2>1. CASE Stale(t) \/ Settle(t) \/ Show(t)
      <3>1. pc'[t] \in {"show", "idle"} /\ applied' = applied
        BY <2>1 DEF Stale, Settle, Show, Goes, TypeOK
      <3> QED BY <1>2, <3>1 DEF Known
    <2>2. CASE Judge(t)
      <3> DEFINE g == Bounded(hand[t].setpoint)
      <3>1. g \in Low..High
        BY BoundedInBounds DEF TypeOK, Goal
      <3>2. /\ hand'[t].setpoint = g /\ hand'[t].source = hand[t].source
            /\ applied' = applied /\ paced' = paced
        BY <2>2 DEF Judge, Holds, TypeOK, Goal
      <3>3. pc'[t] = IF ~Paced(hand[t]) \/ Within(g) THEN "assign"
                     ELSE IF g > applied THEN "up" ELSE "down"
        BY <2>2 DEF Judge, Goes, TypeOK
      <3>4. ~Within(g) => g - applied > MaxStep \/ applied - g > MaxStep
        BY <1>2, <3>1 DEF Within
      <3>5. g > applied => ~(applied - g > MaxStep)
        BY <1>2, <3>1
      <3>6. ~(g > applied) => ~(g - applied > MaxStep)
        BY <1>2, <3>1
      <3>7. Paced(hand[t])' = Paced(hand[t]) /\ Within(hand[t].setpoint)' = Within(g)
        BY <3>2 DEF Paced, Within
      <3> HIDE DEF g
      <3> QED BY <1>2, <3>1, <3>2, <3>3, <3>4, <3>5, <3>6, <3>7 DEF Known
    <2>3. CASE Limit(t)
      <3>1. /\ hand'[t].setpoint = OneStep(pc[t])
            /\ applied' = applied /\ pc'[t] = "assign"
        BY <2>3 DEF Limit, Holds, Goes, TypeOK, Goal
      <3>2. /\ OneStep(pc[t]) \in Low..High
            /\ Within(OneStep(pc[t]))
        <4>1. pc[t] \in {"up", "down"} /\ hand[t].setpoint \in Low..High
          BY <1>2, <2>3 DEF Limit, Known
        <4>2. CASE pc[t] = "up"
          BY <1>2, <4>1, <4>2, StepInBounds DEF Known, OneStep, Within
        <4>3. CASE pc[t] = "down"
          BY <1>2, <4>1, <4>3, StepInBounds DEF Known, OneStep, Within
        <4> QED BY <4>1, <4>2, <4>3
      <3>3. Within(hand[t].setpoint)'
        BY <3>1, <3>2 DEF Within
      <3> QED BY <1>2, <3>1, <3>2, <3>3 DEF Known
    <2>4. CASE Assign(t)
      <3>1. applied' = hand[t].setpoint /\ pc'[t] = "settle"
        BY <2>4 DEF Assign, Goes, TypeOK
      <3>2. hand[t].setpoint \in Low..High
        BY <1>2, <2>4 DEF Assign, Known
      <3> QED BY <3>1, <3>2 DEF Known
    <2> QED BY <2>1, <2>2, <2>3, <2>4 DEF Adopt
  <1> QED BY <1>4, <1>5, <1>6 DEF Thread

(* A thread that begins while the other is idle has nothing to know yet,   *)
(* and one that begins while it is not overlaps it.                        *)
LEMMA EnterJudged ==
  ASSUME TypeOK, Judged, NEW t \in Thread, NEW to \in {"judge", "stamp", "pursue"},
         Enters(t, to), applied' = applied
  PROVE  Judged'
  <1> SUFFICES ASSUME ~overlapped' PROVE Alone' /\ Known("net")' /\ Known("main")'
                                         /\ (applied \in Low..High)'
    BY DEF Judged
  <1>1. ~overlapped /\ \A o \in Thread \ {t} : pc[o] = "idle"
    BY DEF Enters
  <1>2. pc'[t] = to /\ \A o \in Thread \ {t} : pc'[o] = "idle"
    BY <1>1 DEF Enters, Goes, TypeOK
  <1>3. applied \in Low..High
    BY <1>1 DEF Judged
  <1> QED BY <1>1, <1>2, <1>3 DEF Alone, Known, Thread

LEMMA StepJudged == TypeOK /\ Judged /\ [Next]_vars => Judged'
  <1> SUFFICES ASSUME TypeOK, Judged, [Next]_vars PROVE Judged'
    OBVIOUS
  <1>1. CASE Hear \/ StartPursuit
    <2>1. PICK t \in Thread, to \in {"judge", "stamp", "pursue"} : Enters(t, to)
      BY <1>1 DEF Hear, OnGoal, OnPreference, OnRelease, StartPursuit, Thread
    <2>2. applied' = applied
      BY <1>1 DEF Hear, OnGoal, OnPreference, OnRelease, StartPursuit
    <2> QED BY <2>1, <2>2, EnterJudged
  <1>2. CASE Stamp
    <2>1. /\ pc["net"] = "stamp" /\ pc'["net"] = "judge" /\ pc'["main"] = pc["main"]
          /\ UNCHANGED <<hand, applied, paced, overlapped>>
      BY <1>2 DEF Stamp, Goes, TypeOK, Thread
    <2> QED BY <2>1 DEF Judged, Alone, Known, Paced, Within
  <1>3. CASE Pursue \/ NotNow
    <2>1. /\ pc["main"] = "pursue" /\ pc'["main"] \in {"judge", "idle"}
          /\ pc'["net"] = pc["net"] /\ hand'["net"] = hand["net"]
          /\ UNCHANGED <<applied, paced, overlapped>>
      BY <1>3 DEF Pursue, NotNow, Goes, Holds, TypeOK, Thread
    <2> QED BY <2>1 DEF Judged, Alone, Known, Paced, Within
  <1>4. ASSUME NEW t \in Thread, Adopt(t) PROVE Judged'
    BY <1>4, AdoptJudged
  <1>5. CASE HoldLapses \/ ComesDue \/ UNCHANGED vars
    <2>1. UNCHANGED <<pc, hand, applied, paced, overlapped>>
      BY <1>5 DEF HoldLapses, ComesDue, vars
    <2> QED BY <2>1 DEF Judged, Alone, Known, Paced, Within
  <1>6. CASE Boot \/ TickDies
    <2>1. pc'["net"] = "idle" /\ pc'["main"] = "idle" /\ applied' \in Low..High
      BY <1>6 DEF Boot, TickDies, Idle, Thread
    <2> QED BY <2>1 DEF Judged, Alone, Known
  <1> QED BY <1>1, <1>2, <1>3, <1>4, <1>5, <1>6 DEF Next, Handle, MainStep, Thread

LEMMA StepSourced == TypeOK /\ Sourced /\ [Next]_vars => Sourced'
  <1> SUFFICES ASSUME TypeOK, Sourced, [Next]_vars PROVE Sourced'
    OBVIOUS
  <1>1. ASSUME NEW source \in {"SUPERVISOR", "OPERATOR"}, NEW asked \in Asked,
               OnGoal(source, asked)
        PROVE  Sourced'
    <2>1. /\ hand'["net"].source = source /\ hand'["main"] = hand["main"]
          /\ pc'["main"] = pc["main"] /\ holding' = holding
      BY <1>1, ProposalTyped DEF OnGoal, Enters, Goes, Holds, managerVars, TypeOK, Thread, Propose
    <2>2. holding => source = "OPERATOR"
      BY <1>1 DEF OnGoal, Admits
    <2> QED BY <2>1, <2>2 DEF Sourced
  <1>2. ASSUME NEW asked \in Asked \cup {applied - ComfortStep, applied + ComfortStep},
               OnPreference(asked)
        PROVE  Sourced'
    <2>1. /\ hand'["net"].source = "PREFERENCE" /\ hand'["main"] = hand["main"]
          /\ pc'["main"] = pc["main"]
      BY <1>2 DEF OnPreference, Enters, Goes, Holds, TypeOK, Thread, Propose
    <2> QED BY <2>1 DEF Sourced
  <1>3. CASE OnRelease
    <2>1. /\ hand'["main"] = hand["main"] /\ pc'["main"] = pc["main"] /\ ~holding'
      BY <1>3 DEF OnRelease, Enters, Goes, Holds, TypeOK, Thread
    <2> QED BY <2>1 DEF Sourced
  <1>4. CASE Stamp
    <2>1. /\ pc["net"] = "stamp" /\ pc'["main"] = pc["main"]
          /\ UNCHANGED <<hand, holding>>
      BY <1>4 DEF Stamp, Goes, TypeOK, Thread
    <2> QED BY <2>1 DEF Sourced
  <1>5. CASE StartPursuit
    <2>1. /\ pc'["main"] = "pursue" /\ pc'["net"] = pc["net"]
          /\ UNCHANGED <<hand, holding>>
      BY <1>5 DEF StartPursuit, Enters, Goes, managerVars, TypeOK, Thread
    <2> QED BY <2>1 DEF Sourced
  <1>6. CASE Pursue \/ NotNow
    <2>1. /\ hand'["net"] = hand["net"] /\ pc'["net"] = pc["net"] /\ holding' = holding
          /\ pc'["main"] = "idle" \/ hand'["main"].source = "PREFERENCE"
      BY <1>6 DEF Pursue, NotNow, Goes, Holds, TypeOK, Thread, Propose
    <2> QED BY <2>1 DEF Sourced
  <1>7. ASSUME NEW t \in Thread, Adopt(t) PROVE Sourced'
    <2>1. pc[t] \notin {"idle", "pursue"} /\ holding' = holding
      BY <1>7 DEF Adopt, Stale, Judge, Limit, Assign, Settle, Show, managerVars
    <2>2. \A o \in Thread \ {t} : pc'[o] = pc[o] /\ hand'[o] = hand[o]
      BY <1>7 DEF Adopt, Stale, Judge, Limit, Assign, Settle, Show, Goes, Holds, TypeOK
    <2>3. pc'[t] = "idle" \/ hand'[t].source = hand[t].source
      <3>1. CASE Judge(t)
        BY <3>1 DEF Judge, Holds, TypeOK, Goal
      <3>2. CASE Limit(t)
        BY <3>2 DEF Limit, Holds, TypeOK, Goal
      <3>3. CASE Stale(t) \/ Assign(t) \/ Settle(t)
        BY <3>3 DEF Stale, Assign, Settle
      <3>4. CASE Show(t)
        BY <3>4 DEF Show, Goes, TypeOK
      <3> QED BY <1>7, <3>1, <3>2, <3>3, <3>4 DEF Adopt
    <2> QED BY <2>1, <2>2, <2>3 DEF Sourced, Thread
  <1>8. CASE HoldLapses \/ ComesDue \/ UNCHANGED vars
    <2>1. /\ UNCHANGED <<pc, hand>>
          /\ holding' => holding
      BY <1>8 DEF HoldLapses, ComesDue, vars, managerVars
    <2> QED BY <2>1 DEF Sourced
  <1>9. CASE Boot \/ TickDies
    <2>1. pc'["net"] = "idle" /\ pc'["main"] = "idle"
      BY <1>9 DEF Boot, TickDies, Idle, Thread
    <2> QED BY <2>1 DEF Sourced
  <1> QED BY <1>1, <1>2, <1>3, <1>4, <1>5, <1>6, <1>7, <1>8, <1>9
          DEF Next, Hear, Handle, MainStep, Thread

(* What the threads have in hand is judged and sourced as the proofs below *)
(* need it.                                                                *)
THEOREM GoalInvariant == Spec => []GoalInv
  <1>1. Init => GoalInv
    BY InitTyped, InitJudged DEF GoalInv
  <1>2. GoalInv /\ [Next]_vars => GoalInv'
    BY StepTyped, StepJudged, StepSourced DEF GoalInv
  <1> QED BY <1>1, <1>2, PTL DEF Spec

(* The setpoint in force stays within V-1's bounds. *)
THEOREM SetpointIsBounded == Spec => []SetpointInBounds
  <1>1. GoalInv => SetpointInBounds
    BY DEF GoalInv, Judged, SetpointInBounds
  <1> QED BY <1>1, GoalInvariant, PTL

(* Whatever is not an occupant's own wish moves it by one step of V-2.     *)
THEOREM StepsArePaced == Spec => SystemIsPaced
  <1> DEFINE Step == \A t \in Thread : Assign(t) /\ ~overlapped =>
                        \/ applied' - applied \in -MaxStep..MaxStep
                        \/ ~paced /\ hand[t].source = "PREFERENCE"
  <1>1. GoalInv => Step
    <2> SUFFICES ASSUME GoalInv, NEW t \in Thread, Assign(t), ~overlapped, Paced(hand[t])
                 PROVE  applied' - applied \in -MaxStep..MaxStep
      BY DEF Paced
    <2>1. Within(hand[t].setpoint) /\ applied' = hand[t].setpoint
      BY DEF GoalInv, Judged, Known, Assign, Thread
    <2>2. hand[t].setpoint \in Int /\ applied \in Int
      BY DEF GoalInv, TypeOK, Goal
    <2> QED BY <2>1, <2>2 DEF Within
  <1>2. GoalInv /\ [Next]_vars => [Step]_vars
    BY <1>1
  <1> QED BY <1>2, GoalInvariant, PTL DEF Spec, SystemIsPaced

(* Nobody but the occupant and the operator moves the setpoint while a     *)
(* preference holds.                                                       *)
THEOREM OccupantOutranksSupervisor == Spec => SupervisorYields
  <1> DEFINE Step == holding /\ holding' /\ applied' # applied =>
                       \E t \in Thread : /\ pc[t] = "assign"
                                         /\ hand[t].source \in {"PREFERENCE", "OPERATOR"}
  <1>1. GoalInv /\ [Next]_vars => [Step]_vars
    <2> SUFFICES ASSUME GoalInv, Next, holding, holding', applied' # applied
                 PROVE  \E t \in Thread : /\ pc[t] = "assign"
                                          /\ hand[t].source \in {"PREFERENCE", "OPERATOR"}
      OBVIOUS
    <2>1. PICK t \in Thread : Adopt(t)
      BY DEF Next, Hear, Handle, MainStep, OnGoal, OnPreference, OnRelease, Stamp, StartPursuit,
             Pursue, NotNow, TickDies, Boot, HoldLapses, ComesDue, Thread
    <2>2. Assign(t)
      BY <2>1 DEF Adopt, Stale, Judge, Limit, Assign, Settle, Show
    <2>3. pc[t] = "assign"
      BY <2>2 DEF Assign
    <2> QED BY <2>3 DEF GoalInv, Sourced, Thread
  <1> QED BY <1>1, GoalInvariant, PTL DEF Spec, SupervisorYields
(* Between adoptions the retained goal is the one in force. *)
InForceShown ==
  (/\ ~overlapped /\ adopted
   /\ \A t \in Thread : pc[t] \notin {"settle", "show"}) => shown = applied

LEMMA StepShown == TypeOK /\ InForceShown /\ [Next]_vars => InForceShown'
  <1> SUFFICES ASSUME TypeOK, InForceShown, [Next]_vars,
                      ~overlapped', adopted', \A t \in Thread : pc'[t] \notin {"settle", "show"}
               PROVE  shown' = applied'
    BY DEF InForceShown
  <1>1. CASE Hear \/ StartPursuit
    <2>1. PICK t \in Thread, to \in {"judge", "stamp", "pursue"} : Enters(t, to)
      BY <1>1 DEF Hear, OnGoal, OnPreference, OnRelease, StartPursuit, Thread
    <2>2. ~overlapped /\ \A o \in Thread : pc[o] = "idle"
      BY <2>1 DEF Enters
    <2>3. UNCHANGED <<applied, shown, adopted>>
      BY <1>1 DEF Hear, OnGoal, OnPreference, OnRelease, StartPursuit
    <2> QED BY <2>2, <2>3 DEF InForceShown
  <1>2. CASE Stamp \/ Pursue \/ NotNow
    <2>1. UNCHANGED <<applied, shown, adopted, overlapped>>
      BY <1>2 DEF Stamp, Pursue, NotNow
    <2>2. \A t \in Thread : pc[t] \notin {"settle", "show"}
      BY <1>2 DEF Stamp, Pursue, NotNow, Goes, TypeOK, Thread
    <2> QED BY <2>1, <2>2 DEF InForceShown
  <1>3. ASSUME NEW t \in Thread, Adopt(t) PROVE shown' = applied'
    <2>1. CASE Show(t)
      BY <2>1 DEF Show, InForce
    <2>2. CASE Judge(t) \/ Limit(t)
      <3>1. UNCHANGED <<applied, shown, adopted, overlapped>>
        BY <2>2 DEF Judge, Limit
      <3>2. \A o \in Thread : pc[o] \notin {"settle", "show"}
        BY <2>2 DEF Judge, Limit, Goes, TypeOK
      <3> QED BY <3>1, <3>2 DEF InForceShown
    <2>3. ~Stale(t) /\ ~Assign(t) /\ ~Settle(t)
      BY DEF Stale, Assign, Settle, Goes, TypeOK
    <2> QED BY <1>3, <2>1, <2>2, <2>3 DEF Adopt
  <1>4. CASE HoldLapses \/ ComesDue \/ UNCHANGED vars
    BY <1>4 DEF HoldLapses, ComesDue, vars, InForceShown
  <1>5. CASE Boot \/ TickDies
    BY <1>5 DEF Boot, TickDies
  <1> QED BY <1>1, <1>2, <1>3, <1>4, <1>5 DEF Next, Handle, MainStep, Thread

(* V-1 holds of the setpoint in force, and the retained goal shows it       *)
(* whenever nothing is being adopted.                                      *)
THEOREM GoalKept == Spec => []GoalIsKept
  <1>1. Init => InForceShown
    BY DEF Init, InForceShown
  <1>2. Spec => []InForceShown
    BY <1>1, StepShown, GoalTypeCorrect, PTL DEF Spec
  <1>3. InForceShown => ShownIsInForce
    BY DEF InForceShown, ShownIsInForce, Idle
  <1> QED BY <1>2, <1>3, SetpointIsBounded, PTL DEF GoalIsKept
=============================================================================
