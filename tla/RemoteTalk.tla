----------------------------- MODULE RemoteTalk -----------------------------
(***************************************************************************)
(* Talking to the room from a phone (FR-94): the Ask tab of the Talk page, *)
(* useRemoteTalk.ts, with the console server and the reasoning service it  *)
(* asks.                                                                   *)
(*                                                                         *)
(* A request is a POST; its answer is an event on the page's WebSocket,    *)
(* which may come before the POST's own response.  The reasoning service   *)
(* answers words, not ids: the console keeps the words it expects.         *)
(*                                                                         *)
(* What is said is a member of Words.  The silent clip played on a press   *)
(* ends at once.  A timer that is set may fire at any moment: 90 s is      *)
(* short beside a busy reasoning service.                                  *)
(***************************************************************************)
EXTENDS Recorder, SequencesExt

CONSTANTS
  Words,      \* what may be said, two of them for a wrong answer to show
  MaxAsks,    \* bound: requests of this page
  MaxExtras,  \* bound: requests of other phones, visits to the other tab, replays
  Budgets,    \* bound: how many takes, requests and extras one behaviour has
  QueueCap,   \* _PENDING_KEPT: utterances the reasoning service keeps
  RemoteKept  \* _REMOTE_KEPT: remote requests the console keeps

ASSUME TalkAssumption ==
  /\ MaxAsks \in Nat /\ MaxExtras \in Nat
  /\ Budgets \subseteq [takes : 0..MaxTakes, asks : 0..MaxAsks, extras : 0..MaxExtras]
  /\ QueueCap \in Nat \ {0} /\ RemoteKept \in Nat \ {0}
  /\ None \notin Words /\ "nothing" \notin Words

VARIABLES
  phase,      \* useState phase
  waiting,    \* waiting.current: the request an answer is awaited for
  timers,     \* requests whose reply timer is set
  exchanges,  \* useState exchanges
  fetching,   \* calls of say() that await their audio
  playing,    \* a reply is being played, its onended to come
  posts,      \* each request: where it is, what it says, whether spoken
  expected,   \* console: _remote_requests, oldest first
  pending,    \* reasoning: utterances waiting
  wire,       \* remote_reply events on their way to this page
  extras,     \* what may still come of the kinds MaxExtras bounds
  stray       \* history: a request was awaited while another's timer was set

pageVars == <<phase, waiting, timers, exchanges, fetching, playing>>
roomVars == <<expected, pending, wire>>
talkVars == <<pageVars, posts, roomVars, extras, stray>>
vars == <<recorderVars, talkVars>>

Asks == 1..MaxAsks
Other == 0  \* the id of a request made on another phone
PostState == {"new", "sent", "accepted", "refused", "over"}

TypeOK ==
  /\ RecorderTypeOK
  /\ phase \in {"idle", "sending", "thinking", "speaking"}
  /\ waiting \in Asks \cup {None} /\ timers \subseteq Asks
  /\ exchanges \in Seq([id : Asks, answer : Words \cup {None, "nothing"}])
  /\ fetching \in Nat /\ playing \in BOOLEAN
  /\ posts \in [Asks -> [at : PostState, words : Words \cup {None}, spoken : BOOLEAN, ours : BOOLEAN]]
  /\ expected \in Seq([words : Words, id : Asks \cup {Other}]) /\ Len(expected) <= RemoteKept
  /\ pending \in Seq(Words) /\ Len(pending) <= QueueCap
  /\ wire \in Seq([id : Asks \cup {Other}, words : Words])
  /\ extras \in 0..MaxExtras /\ stray \in BOOLEAN

Request(at) == [at |-> at, words |-> None, spoken |-> FALSE, ours |-> TRUE]

Init == \E b \in Budgets :
  /\ RecorderInit(b.takes)
  /\ phase = "idle" /\ waiting = None /\ timers = {} /\ exchanges = <<>>
  /\ fetching = 0 /\ playing = FALSE
  /\ posts = [a \in Asks |-> Request(IF a <= b.asks THEN "new" ELSE "over")]
  /\ expected = <<>> /\ pending = <<>> /\ wire = <<>>
  /\ extras = b.extras /\ stray = FALSE

-----------------------------------------------------------------------------
(* The page's button *)

(* The phase the button shows, and whether it can be pressed.               *)
ShownPhase == IF recording THEN "recording" ELSE phase
Pressable == ShownPhase \notin {"sending", "thinking"}

(* A press that may start a recording also unlocks playback: it takes the   *)
(* place of a reply that is being said, which thereby ends.                 *)
Press ==
  /\ Pressable
  /\ PressButton(phase \in {"idle", "speaking"})
  /\ IF ~recording /\ playing
       THEN playing' = FALSE /\ phase' = "idle"
       ELSE UNCHANGED <<playing, phase>>
  /\ UNCHANGED <<waiting, timers, exchanges, fetching, posts, roomVars, extras, stray>>

Release == Pressable /\ (\E long \in BOOLEAN : ReleaseButton(long)) /\ UNCHANGED talkVars

Permit(t) == (Granted(t) \/ Denied(t)) /\ UNCHANGED talkVars

Fresh == {a \in Asks : posts[a].at = "new"}
Post(words, spoken, ours) ==
  posts' = [posts EXCEPT ![Min(Fresh)] = [at |-> "sent", words |-> words, spoken |-> spoken, ours |-> ours]]

(* send(recording), when the recorder has stopped: of a component that is   *)
(* gone too.                                                                *)
Send(t) ==
  /\ Fresh # {}
  /\ Stopped(t)
  /\ \E words \in Words : Post(words, TRUE, t \notin orphans)
  /\ phase' = IF t \in orphans THEN phase ELSE "sending"
  /\ UNCHANGED <<waiting, timers, exchanges, fetching, playing, roomVars, extras, stray>>

(* type(text): at any time, whatever the button is doing.                   *)
Type(words) ==
  /\ Fresh # {}
  /\ Post(words, FALSE, TRUE)
  /\ UNCHANGED <<recorderVars, pageVars, roomVars, extras, stray>>

-----------------------------------------------------------------------------
(* The console server and the reasoning service *)

(* expect_remote: the same words again take the place of the first.         *)
Expect(requests, words, id) ==
  LET entry == [words |-> words, id |-> id]
      listed == IF \E e \in ToSet(requests) : e.words = words
                  THEN [i \in DOMAIN requests |-> IF requests[i].words = words THEN entry ELSE requests[i]]
                  ELSE Append(requests, entry)
  IN  IF Len(listed) > RemoteKept THEN Tail(listed) ELSE listed

(* UtteranceHandler._on_utterance: a deque that forgets its oldest.         *)
Enqueue(queue, words) == Append(IF Len(queue) = QueueCap THEN Tail(queue) ELSE queue, words)

Say(words, id) ==
  /\ expected' = Expect(expected, words, id)
  /\ pending' = Enqueue(pending, words)

PostTalk(a) ==
  /\ posts[a].at = "sent"
  /\ \/ Say(posts[a].words, a) /\ posts' = [posts EXCEPT ![a].at = "accepted"]
     \/ posts' = [posts EXCEPT ![a].at = "refused"] /\ UNCHANGED <<expected, pending>>
  /\ UNCHANGED <<recorderVars, pageVars, wire, extras, stray>>

OtherSays(words) ==
  /\ extras > 0
  /\ extras' = extras - 1
  /\ Say(words, Other)
  /\ UNCHANGED <<recorderVars, pageVars, posts, wire, stray>>

(* The oldest utterance is answered and ConsoleState._on_reply finds whose  *)
(* it is; or it is lost with the reasoning service, or asks for nothing.    *)
Answer ==
  /\ pending # <<>>
  /\ pending' = Tail(pending)
  /\ \/ \E i \in DOMAIN expected :
          /\ expected[i].words = Head(pending)
          /\ expected' = RemoveAt(expected, i)
          /\ wire' = Append(wire, expected[i])
     \/ UNCHANGED <<expected, wire>>
  /\ UNCHANGED <<recorderVars, pageVars, posts, extras, stray>>

-----------------------------------------------------------------------------
(* The page's callbacks *)

(* record(patch): of the last exchange, if there is one.                    *)
Noted(list, answer) ==
  IF list = <<>> THEN list ELSE [list EXCEPT ![Len(list)].answer = answer]

Listed(list, a) == Append(list, [id |-> a, answer |-> None])

(* The POST is answered: the exchange is listed and await_ sets a timer,    *)
(* leaving one that is already set.  Its refusal ends a recording's turn.   *)
OnResponse(a) ==
  /\ posts[a].at \in {"accepted", "refused"}
  /\ posts' = [posts EXCEPT ![a].at = "over"]
  /\ IF posts[a].ours /\ posts[a].at = "accepted"
       THEN /\ exchanges' = Listed(exchanges, a)
            /\ phase' = "thinking"
            /\ waiting' = a
            /\ timers' = timers \cup {a}
            /\ stray' = (stray \/ timers # {})
       ELSE /\ phase' = IF posts[a].ours /\ posts[a].spoken THEN "idle" ELSE phase
            /\ UNCHANGED <<exchanges, waiting, timers, stray>>
  /\ UNCHANGED <<recorderVars, fetching, playing, roomVars, extras>>

(* Mutant: any reply is taken for the one that is waited for. *)
OursIfAny(id) == waiting # None /\ id # Other
Ours(id) == waiting = id

Cleared(set, a) == set \ {a}

(* REMOTE_REPLY_EVENT: of another phone, of a request no longer waited for, *)
(* or of one whose POST is not yet answered, it is passed over.             *)
OnReply ==
  /\ wire # <<>>
  /\ wire' = Tail(wire)
  /\ LET a == Head(wire).id IN
       IF ~Ours(a)
         THEN UNCHANGED pageVars
         ELSE /\ waiting' = None
              /\ timers' = Cleared(timers, a)
              /\ exchanges' = Noted(exchanges, Head(wire).words)
              /\ IF posts[a].spoken
                   THEN fetching' = fetching + 1 /\ UNCHANGED phase
                   ELSE phase' = "idle" /\ UNCHANGED fetching
              /\ UNCHANGED playing
  /\ UNCHANGED <<recorderVars, posts, expected, pending, extras, stray>>

(* The event is lost with the socket: a snapshot does not hold it.          *)
LoseReply ==
  /\ wire # <<>>
  /\ wire' = Tail(wire)
  /\ UNCHANGED <<recorderVars, pageVars, posts, expected, pending, extras, stray>>

(* Mutant: the page gives up without saying so. *)
GiveUpSilently(a) ==
  /\ a \in timers
  /\ timers' = timers \ {a}
  /\ waiting' = None
  /\ phase' = "idle"
  /\ UNCHANGED <<recorderVars, exchanges, fetching, playing, posts, roomVars, extras, stray>>

(* The timer of await_: whichever request is waited for by now.             *)
GiveUp(a) ==
  /\ a \in timers
  /\ timers' = timers \ {a}
  /\ waiting' = None
  /\ exchanges' = Noted(exchanges, "nothing")
  /\ phase' = "idle"
  /\ UNCHANGED <<recorderVars, fetching, playing, posts, roomVars, extras, stray>>

(* say() by the button of an answer already on screen.                      *)
Replay ==
  /\ extras > 0
  /\ extras' = extras - 1
  /\ \E i \in DOMAIN exchanges : exchanges[i].answer # None
  /\ fetching' = fetching + 1
  /\ UNCHANGED <<recorderVars, phase, waiting, timers, exchanges, playing, posts, roomVars, stray>>

(* say(), once its audio is there or failed.                                *)
Speak ==
  /\ fetching > 0
  /\ fetching' = fetching - 1
  /\ \/ phase' = "speaking" /\ playing' = TRUE
     \/ phase' = "idle" /\ UNCHANGED playing
  /\ UNCHANGED <<recorderVars, waiting, timers, exchanges, posts, roomVars, extras, stray>>

OnEnded ==
  /\ playing
  /\ playing' = FALSE
  /\ phase' = "idle"
  /\ UNCHANGED <<recorderVars, waiting, timers, exchanges, fetching, posts, roomVars, extras, stray>>

(* The other tab and back: the requests under way are nobody's any more.    *)
Leave ==
  /\ extras > 0
  /\ extras' = extras - 1
  /\ Remount
  /\ phase' = "idle" /\ waiting' = None /\ timers' = {} /\ exchanges' = <<>>
  /\ fetching' = 0 /\ playing' = FALSE
  /\ posts' = [a \in Asks |-> [posts[a] EXCEPT !.ours = @ /\ posts[a].at \in {"new", "over"}]]
  /\ UNCHANGED <<roomVars, stray>>

-----------------------------------------------------------------------------
Person == Press \/ Release \/ Replay \/ Leave \/ \E w \in Words : Type(w) \/ OtherSays(w)

Callbacks ==
  \/ OnReply \/ LoseReply \/ Speak \/ OnEnded
  \/ \E t \in Takes : Permit(t) \/ Send(t)
  \/ \E a \in Asks : OnResponse(a) \/ GiveUp(a)

Room == Answer \/ \E a \in Asks : PostTalk(a)

Next == Person \/ Callbacks \/ Room

(* Requests are answered or refused, events arrive, timers fire, audio is   *)
(* fetched and ends, and a recorder that is stopped stops.                  *)
Fairness ==
  /\ WF_vars(OnReply) /\ WF_vars(Speak) /\ WF_vars(OnEnded)
  /\ \A a \in Asks : WF_vars(PostTalk(a)) /\ WF_vars(OnResponse(a)) /\ WF_vars(GiveUp(a))
  /\ \A t \in Takes : WF_vars(Send(t))

Spec == Init /\ [][Next]_vars
FairSpec == Spec /\ Fairness

-----------------------------------------------------------------------------
(* The answer beside a question is an answer to that question, whoever else *)
(* asks meanwhile and in whatever order responses and replies arrive.       *)
AnswersMatch ==
  \A i \in DOMAIN exchanges :
    exchanges[i].answer \in {None, "nothing", posts[exchanges[i].id].words}

(* An answer that has been shown is not taken back for "No answer came",    *)
(* unless a request was sent while an earlier one was still waited for: the *)
(* earlier one's timer is not cleared and writes over the later answer.     *)
AnswerStays ==
  [][\A i \in DOMAIN exchanges : exchanges[i].answer \in Words =>
       stray \/ exchanges' = <<>> \/ exchanges'[i] = exchanges[i]]_vars

(* Only one request is waited for, and it is the last one shown.            *)
WaitsForTheLast == waiting # None => exchanges # <<>> /\ Last(exchanges).id = waiting

(* "Got it" and "Thinking" end: the button comes back, whatever was lost.   *)
ButtonComesBack == phase \in {"sending", "thinking"} ~> phase \in {"idle", "speaking"}

(* The last question on screen does not stay unanswered: an answer comes,   *)
(* or the page says that none did.                                          *)
LastIsAnswered == <>[](exchanges # <<>> => Last(exchanges).answer # None)

(* Talking from a page is true to the person: an open microphone is shown, *)
(* the answer beside a question is an answer to it, what is waited for is  *)
(* the last that was asked, and an answer that was shown is not taken back *)
(* (useRecorder.ts, useRemoteTalk.ts, Talk.tsx).                           *)
TalkIsTrue ==
  /\ [](TypeOK /\ MicrophoneIsShown /\ AnswersMatch /\ WaitsForTheLast)
  /\ AnswerStays
=============================================================================
