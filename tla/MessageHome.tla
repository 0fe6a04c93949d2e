----------------------------- MODULE MessageHome -----------------------------
(***************************************************************************)
(* Messages home (FR-95): a recording sent from a phone, played in the     *)
(* room in the sender's own voice, answered by voice.                      *)
(*                                                                         *)
(* Page: useMessageHome.ts and Messages.tsx.  Console server: MessageBox   *)
(* keeps the recordings and withdraws the oldest.  Speech service:         *)
(* MessageDesk, and the one voice that plays.  They meet in a retained     *)
(* status per message, which a restarted desk reads back, and in a hand-   *)
(* over that is not retained.                                              *)
(*                                                                         *)
(* A message is its number, in the order of sending.  The console's view   *)
(* of the statuses is the retained one.  A desk hears a status at once and *)
(* handovers in order; each of its updates is one step.  The room has a    *)
(* speaker.                                                                *)
(***************************************************************************)
EXTENDS Naturals, Sequences, SequencesExt, FiniteSetsExt

CONSTANTS
  MaxMessages,  \* bound: messages sent
  MaxReplays,   \* bound: times a message is played again
  MaxRestarts,  \* bound: restarts of the speech service
  MaxKept,      \* messages.max_kept: kept by the console, and by the desk
  VoiceCap,     \* the voice's queue
  SentKept,     \* SENT_KEPT: messages a page remembers having sent
  PageKept,      \* SentMessages: the messages a page lists
  Nobody

ASSUME HomeAssumption ==
  /\ MaxMessages \in Nat /\ MaxReplays \in Nat /\ MaxRestarts \in Nat
  /\ MaxKept \in Nat \ {0} /\ VoiceCap \in Nat \ {0}
  /\ SentKept \in Nat \ {0} /\ PageKept \in Nat \ {0}
  /\ Nobody \notin Nat

VARIABLES
  sending,    \* page and server: where the one POST is
  sent,       \* page: the messages it sent, as kept in its storage
  count,      \* messages ever kept
  files,      \* server: messages whose recording is kept
  status,     \* the retained status of each message, or Nobody
  handovers,  \* message/incoming on its way to the desk
  awake,      \* the speech service runs
  desk,       \* MessageDesk._records, oldest first
  recalled,   \* retained statuses a restarted desk has yet to hear
  queue,      \* voice: messages waiting to be played
  onAir,      \* voice: the message being played
  window,     \* the message the room is listening for an answer to
  replays,    \* how often a message may still be played again
  restarts,   \* how often the speech service may still restart
  missed,     \* history: messages whose handover, record, turn or end was lost
  forgotten   \* history: answered messages the desk took for new

speech == <<awake, desk, recalled, queue, onAir, window>>
budgets == <<replays, restarts>>
home == <<sending, sent, count, files>>
homeVars == <<home, status, handovers, speech, budgets, missed, forgotten>>

Message == 1..MaxMessages
Status == [state : {"sent", "playing", "played", "replied", "failed"}, replied : BOOLEAN]
Record == [m : Message, replied : BOOLEAN]

HomeTypeOK ==
  /\ sending \in {"no", "posted", "kept", "pruned"}
  /\ sent \in Seq(Message) /\ Len(sent) <= SentKept /\ IsInjective(sent)
  /\ count \in 0..MaxMessages /\ files \subseteq 1..count
  /\ status \in [Message -> Status \cup {Nobody}]
  /\ handovers \in Seq(Message) /\ awake \in BOOLEAN
  /\ desk \in Seq(Record) /\ Len(desk) <= MaxKept /\ recalled \subseteq Record
  /\ queue \in Seq(Message) /\ Len(queue) <= VoiceCap
  /\ onAir \in Message \cup {Nobody} /\ window \in Message \cup {Nobody}
  /\ replays \in 0..MaxReplays /\ restarts \in 0..MaxRestarts
  /\ missed \subseteq Message /\ forgotten \subseteq Message

HomeInit ==
  /\ sending = "no" /\ sent = <<>> /\ count = 0
  /\ files = {} /\ status = [m \in Message |-> Nobody] /\ handovers = <<>>
  /\ awake = TRUE /\ desk = <<>> /\ recalled = {}
  /\ queue = <<>> /\ onAir = Nobody /\ window = Nobody
  /\ replays = MaxReplays /\ restarts = MaxRestarts
  /\ missed = {} /\ forgotten = {}

-----------------------------------------------------------------------------
(* The desk's records *)

Knows(records, m) == \E r \in ToSet(records) : r.m = m
Answered(records, m) == [m |-> m, replied |-> TRUE] \in ToSet(records)

(* _remember, of a message not yet there: the oldest record goes.           *)
Remember(records, m, replied) ==
  LET more == Append(records, [m |-> m, replied |-> replied])
  IN  IF Len(more) > MaxKept THEN Tail(more) ELSE more

(* Mutant: every status a restarted desk hears is taken for a new message. *)
OnStatusAfresh(records, m, replied) ==
  IF Knows(records, m) THEN records ELSE Remember(records, m, FALSE)

(* _on_status: a message the desk knows is left as it is.                   *)
OnStatus(records, m, replied) ==
  IF Knows(records, m) THEN records ELSE Remember(records, m, replied)

(* Messages whose record goes in this step.                                 *)
Evicted == {m \in Message : Knows(desk, m) /\ ~Knows(desk', m)}

(* _tell: the record in its new state; of a message the desk does not know, *)
(* nothing.                                                                 *)
Tell(records, m, state) ==
  status' = IF Knows(records, m)
              THEN [status EXCEPT ![m] = [state |-> state, replied |-> Answered(records, m)]]
              ELSE status

(* _played: answered before, it is still answered.                          *)
AfterPlaying(m) == IF Answered(desk, m) THEN "replied" ELSE "played"

-----------------------------------------------------------------------------
(* Page and console server *)

(* press and send: not while a message is on its way.                       *)
PressSend ==
  /\ sending = "no" /\ count < MaxMessages
  /\ sending' = "posted"
  /\ UNCHANGED <<sent, count, files, status, handovers, speech, budgets, missed, forgotten>>

(* MESSAGE_INCOMING: for a speech service that is there, or for nobody.     *)
HandOver(m) ==
  /\ handovers' = IF awake THEN Append(handovers, m) ELSE handovers
  /\ missed' = IF awake THEN (missed \ {m}) \cup Evicted ELSE missed \cup {m}

(* MessageBox.send: the recording, its status, and then the room.           *)
Keep ==
  LET m == count + 1 IN
    /\ sending = "posted"
    /\ sending' = "kept"
    /\ count' = m
    /\ files' = files \cup {m}
    /\ status' = [status EXCEPT ![m] = [state |-> "sent", replied |-> FALSE]]
    /\ desk' = IF awake THEN OnStatus(desk, m, FALSE) ELSE desk
    /\ HandOver(m)
    /\ UNCHANGED <<sent, awake, recalled, queue, onAir, window, budgets, forgotten>>

(* MessageBox.prune: beyond the newest MaxKept, or past keep_days.          *)
PastKeeping(expired) ==
  {m \in Message : status[m] # Nobody /\
     (m \in expired \/ Cardinality({n \in Message : n > m /\ status[n] # Nobody}) >= MaxKept)}

Prune ==
  /\ sending = "kept"
  /\ sending' = "pruned"
  /\ \E days \in 0..count - 1 :
       LET gone == PastKeeping(1..days) IN
         /\ files' = files \ gone
         /\ status' = [m \in Message |-> IF m \in gone THEN Nobody ELSE status[m]]
  /\ UNCHANGED <<sent, count, handovers, speech, budgets, missed, forgotten>>

(* The response: the page lists its message among the last it sent.         *)
OnSent ==
  /\ sending = "pruned"
  /\ sending' = "no"
  /\ LET next == Append(sent, count) IN
       sent' = IF Len(next) > SentKept THEN Tail(next) ELSE next
  /\ UNCHANGED <<count, files, status, handovers, speech, budgets, missed, forgotten>>

(* Refused before it is kept: the page shows an error.                      *)
OnRefused ==
  /\ sending = "posted"
  /\ sending' = "no"
  /\ UNCHANGED <<sent, count, files, status, handovers, speech, budgets, missed, forgotten>>

(* MessagesCard.again and MessageBox.hand_over: of a message still kept.    *)
PlayAgain(m) ==
  /\ replays > 0
  /\ m \in files /\ status[m] # Nobody
  /\ replays' = replays - 1
  /\ UNCHANGED <<home, status, speech, restarts, forgotten>>
  /\ HandOver(m)

-----------------------------------------------------------------------------
(* Speech service *)

(* MessageDesk._on_incoming: onto the voice's queue, whose oldest goes when *)
(* it is full; a recording that is gone by now is reported.                 *)
OnIncoming ==
  /\ awake /\ handovers # <<>>
  /\ handovers' = Tail(handovers)
  /\ LET m == Head(handovers)
         full == Len(queue) = VoiceCap
     IN  /\ desk' = OnStatus(desk, m, FALSE)
         /\ forgotten' = IF ~Knows(desk, m) /\ status[m] # Nobody /\ status[m].replied
                           THEN forgotten \cup {m} ELSE forgotten
         /\ IF m \in files
              THEN /\ queue' = Append(IF full THEN Tail(queue) ELSE queue, m)
                   /\ missed' = missed \cup Evicted \cup (IF full THEN {Head(queue)} ELSE {})
                   /\ UNCHANGED status
              ELSE Tell(desk', m, "failed") /\ missed' = missed \cup Evicted /\ UNCHANGED queue
  /\ UNCHANGED <<home, awake, recalled, onAir, window, budgets>>

(* A retained status reaches a desk that has just started.                  *)
Recall(r) ==
  /\ awake /\ r \in recalled
  /\ recalled' = recalled \ {r}
  /\ desk' = OnStatus(desk, r.m, r.replied)
  /\ missed' = missed \cup Evicted
  /\ forgotten' = IF ~Knows(desk, r.m) /\ ~r.replied /\ status[r.m] # Nobody /\ status[r.m].replied
                    THEN forgotten \cup {r.m} ELSE forgotten
  /\ UNCHANGED <<home, status, handovers, awake, queue, onAir, window, budgets>>

(* Voice.speak_next, and its on_start.                                      *)
StartPlaying ==
  /\ awake /\ onAir = Nobody /\ queue # <<>>
  /\ onAir' = Head(queue)
  /\ queue' = Tail(queue)
  /\ Tell(desk, Head(queue), "playing")
  /\ UNCHANGED <<home, handovers, awake, desk, recalled, window, budgets, missed, forgotten>>

(* Its end, also of a playback that failed: the window, and on_end.         *)
EndPlaying ==
  /\ awake /\ onAir # Nobody
  /\ onAir' = Nobody
  /\ window' = onAir
  /\ Tell(desk, onAir, AfterPlaying(onAir))
  /\ UNCHANGED <<home, handovers, awake, desk, recalled, queue, budgets, missed, forgotten>>

(* MessageDesk.reply: silence leaves the message as it is.                  *)
Reply ==
  /\ awake /\ window # Nobody
  /\ window' = Nobody
  /\ \/ /\ desk' = [i \in DOMAIN desk |-> [desk[i] EXCEPT !.replied = @ \/ desk[i].m = window]]
        /\ Tell(desk', window, "replied")
     \/ UNCHANGED <<desk, status>>
  /\ UNCHANGED <<home, handovers, awake, recalled, queue, onAir, budgets, missed, forgotten>>

(* The speech service dies with its records, its queue and what it was      *)
(* handed, and systemd starts it again.                                     *)
Die ==
  /\ awake /\ restarts > 0
  /\ restarts' = restarts - 1
  /\ awake' = FALSE
  /\ desk' = <<>> /\ recalled' = {}
  /\ queue' = <<>> /\ onAir' = Nobody /\ window' = Nobody /\ handovers' = <<>>
  /\ missed' = missed \cup ToSet(handovers) \cup ToSet(queue) \cup ({onAir} \ {Nobody})
  /\ UNCHANGED <<home, status, replays, forgotten>>

Wake ==
  /\ ~awake
  /\ awake' = TRUE
  /\ recalled' = {[m |-> m, replied |-> status[m].replied] : m \in {n \in Message : status[n] # Nobody}}
  /\ UNCHANGED <<home, status, handovers, desk, queue, onAir, window, budgets, missed, forgotten>>

-----------------------------------------------------------------------------
(* What the sender's page shows *)

(* MessageTicks: a tick still to come, or an end. *)
OnItsWay(state) == state \in {"sent", "playing"}

(* MessageHome in Talk.tsx: the messages this page sent and the console has, *)
(* oldest first.                                                             *)
MySent == SelectSeq([i \in 1..count |-> i], LAMBDA m : status[m] # Nobody /\ m \in ToSet(sent))

(* SentMessages: the last of them. *)
OnPage == SubSeq(MySent, Max({1, Len(MySent) - PageKept + 1}), Len(MySent))

(* ReplyBubble: the answer from home, while the status is that of an answer. *)
Bubbles == {m \in ToSet(OnPage) : status[m].state = "replied"}

-----------------------------------------------------------------------------
AwayAndConsole == PressSend \/ Keep \/ Prune \/ OnSent \/ OnRefused \/ \E m \in Message : PlayAgain(m)

InTheRoom ==
  \/ OnIncoming \/ StartPlaying \/ EndPlaying \/ Reply \/ Die \/ Wake
  \/ \E r \in Record : Recall(r)

HomeNext == AwayAndConsole \/ InTheRoom

(* What is handed over is taken, what is queued is played to its end, a     *)
(* request is served, and a service that died is started again.             *)
HomeFairness ==
  /\ WF_homeVars(OnIncoming) /\ WF_homeVars(StartPlaying) /\ WF_homeVars(EndPlaying)
  /\ WF_homeVars(Wake) /\ WF_homeVars(Keep) /\ WF_homeVars(Prune)

HomeSpec == HomeInit /\ [][HomeNext]_homeVars /\ HomeFairness

-----------------------------------------------------------------------------
(* A message that was answered is never shown as merely played: not after   *)
(* it is played again, and not after a restart of the desk.                 *)
StillAnswered ==
  \A m \in Message : status[m] # Nobody /\ status[m].replied => status[m].state # "played"

(* The answer the sender has been shown is not lost again, however the      *)
(* message is replayed and the speech service restarted -- except by a desk *)
(* that no longer has, or does not yet have, its record when it is asked to *)
(* play the message again, and starts a new one; or that has answered and   *)
(* put away a message before its older status reaches it.                   *)
ReplyStays ==
  [][\A m \in Message : status[m] # Nobody /\ status[m].replied =>
       status'[m] = Nobody \/ status'[m].replied \/ m \in forgotten']_homeVars

(* The ticks of every message come to an end -- played, answered or failed  *)
(* -- unless its handover found nobody, its turn was dropped from a full    *)
(* queue, its record from a full desk, or the speech service died on it;    *)
(* then a replay settles it.                                                *)
EveryMessageSettles ==
  \A m \in Message :
    <>[](status[m] # Nobody /\ m \notin missed => ~OnItsWay(status[m].state))

(* The answer to the last message a page sent is there to be heard: a replay *)
(* that hides it, or shows it as on its way, gives it back -- as long as the *)
(* recording is kept and nothing of it was lost.                             *)
AnswerIsThere ==
  []<>(MySent = <<>> \/
       LET m == Last(MySent) IN
         status[m].replied /\ m \in files /\ m \notin missed \cup forgotten => m \in Bubbles)

(* A message home keeps its word: one that was answered is never shown as *)
(* merely played, and an answer the sender was shown is not lost, however *)
(* it is replayed and whatever restarts (speech/messages.py,              *)
(* console/messages.py, useMessageHome.ts).                               *)
MessageKeepsItsWord ==
  /\ [](HomeTypeOK /\ StillAnswered)
  /\ ReplyStays
=============================================================================
