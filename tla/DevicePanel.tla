---------------------------- MODULE DevicePanel ----------------------------
(***************************************************************************)
(* One device worked by hand, from a slider on a page to the device and    *)
(* back (FR-87 to FR-92).                                                  *)
(*                                                                         *)
(* Pages (src/console/web/src/remotes, pages/Remote.tsx): the controls are *)
(* on while the device is online; useDeviceCall remembers the invocations  *)
(* whose answers are to be said here; the full page reads the device once, *)
(* quietly, when it has reported nothing.                                  *)
(*                                                                         *)
(* Console (actions.device, state.py): checks again, asks the executor,    *)
(* and tells every page the outcome and the device's state.                *)
(*                                                                         *)
(* Executor (assistance/executor.py, devices.py): one worker; it offers a  *)
(* device's tools while the device is online, sends a command, and waits   *)
(* for the answer as long as the command is valid.                         *)
(*                                                                         *)
(* Device (devices/runner.py, service.py): announces itself whenever its   *)
(* loop finds the link up again, checks every command once more, acts,     *)
(* answers and reports.                                                    *)
(*                                                                         *)
(* Levels are the values of the one parameter the control sets, inside its *)
(* bounds; the executor's queue, never full here, is Consent's.            *)
(***************************************************************************)
EXTENDS Naturals, Sequences

CONSTANTS
  Calls,     \* what is asked of the device
  Viewers,   \* the open pages that show it
  Levels,    \* what the control may set
  NoLevel,   \* nothing reported yet
  NoCall,
  Scenes     \* bounds: who asks what, the device's kind, and what goes wrong

ASSUME DevicePanelAssumption ==
  /\ Levels \subseteq Nat /\ (\E lowest \in Levels : \A l \in Levels : lowest <= l) /\ NoLevel \notin Levels
  /\ NoCall \notin Calls
  /\ Scenes \subseteq [asker : [Calls -> Viewers], calls : SUBSET Calls, quiet : SUBSET Calls,
                       open : SUBSET Viewers, mute : BOOLEAN, limited : BOOLEAN, faults : Nat]

VARIABLES
  linked,     \* device: its connection to the broker
  announced,  \* device: _Running.announced
  level,      \* device: the value the control sets
  spoke,      \* device: it has been asked, and can say its state
  commands,   \* device: the commands delivered to it
  doing,      \* device: the command its handler is carrying out
  recent,     \* device: within min_interval_s of the last run
  available,  \* board: the retained availability
  reported,   \* board: the retained state
  offered,    \* executor: the device's tools are declared
  jobsX,      \* executor: invocations waiting for the worker
  asking,     \* executor: the command its worker waits for
  replies,    \* results of the device on their way to the executor
  answers,    \* results of the executor on their way to the console
  known,      \* console: the device as _device_list has it
  expected,   \* console: _device_requests
  view,       \* pages: state.devices
  knob,       \* pages: Slider.draft
  said,       \* pages: useDeviceCall.said
  heard,      \* pages: device_result events on their way
  stage,      \* each call's request: idle, posted, accepted, refused, sent or over
  wants,      \* the level each call asks for
  toast,      \* what the page said of each call
  scene,      \* bound: the scene being played
  faults,     \* bound: what may still go wrong
  late,       \* history: commands past their expires_ts
  acted,      \* history: calls the device carried out
  givenUp,    \* history: calls reported as not answered
  missed,     \* history: the link dropped and came back between two ticks
  unheard     \* history: calls whose answer a page could not recognise or get

device == <<linked, announced, level, spoke, commands, doing, recent>>
board == <<available, reported>>
executorX == <<offered, jobsX, asking, replies>>
consoleX == <<answers, known, expected>>
pagesX == <<view, knob, said, heard, stage, wants, toast>>
histX == <<late, acted, givenUp, missed, unheard>>
panelVars == <<device, board, executorX, consoleX, pagesX, scene, faults, histX>>

Lowest == CHOOSE l \in Levels : \A m \in Levels : l <= m
Reading == [online : BOOLEAN, level : Levels \cup {NoLevel}]
Verdict == {"OK", "FAILED", "EXPIRED", "UNAVAILABLE", "UNKNOWN_TOOL"}
Outcome == [call : Calls, status : Verdict]

PanelTypeOK ==
  /\ linked \in BOOLEAN /\ announced \in BOOLEAN /\ level \in Levels /\ spoke \in BOOLEAN
  /\ commands \in Seq(Calls) /\ doing \in Calls \cup {NoCall} /\ recent \in BOOLEAN
  /\ available \in BOOLEAN /\ reported \in Levels \cup {NoLevel}
  /\ offered \in BOOLEAN /\ jobsX \in Seq(Calls) /\ asking \in Calls \cup {NoCall}
  /\ replies \subseteq Outcome /\ answers \subseteq Outcome
  /\ \A a, b \in answers : a.call = b.call => a = b
  /\ known \in Reading /\ expected \subseteq Calls
  /\ view \in [Viewers -> Reading] /\ knob \in [Viewers -> Levels]
  /\ said \in [Viewers -> SUBSET Calls] /\ heard \in [Viewers -> SUBSET Outcome]
  /\ stage \in [Calls -> {"idle", "posted", "accepted", "refused", "sent", "over"}]
  /\ wants \in [Calls -> Levels \cup {NoLevel}]
  /\ toast \in [Calls -> {"none", "done", "failed", "refused"}]
  /\ \A h \in {late, acted, givenUp, unheard} : h \subseteq Calls
  /\ scene \in Scenes /\ faults \in Nat /\ missed \in BOOLEAN

-----------------------------------------------------------------------------
(* What the device says of itself: one behind MCP knows only what it was     *)
(* last answered (mcp_bridge build: state is the last answer).               *)
Self(told, at) == IF scene.mute /\ ~told THEN NoLevel ELSE at

(* A slider with nothing reported rests at its minimum. *)
Rest(seen) == IF seen.level = NoLevel THEN Lowest ELSE seen.level

PanelInit ==
  /\ scene \in Scenes /\ faults = scene.faults
  /\ linked = TRUE /\ announced = TRUE /\ level = Lowest /\ spoke = FALSE
  /\ commands = <<>> /\ doing = NoCall /\ recent = FALSE
  /\ available = TRUE /\ reported = (IF scene.mute THEN NoLevel ELSE Lowest)
  /\ offered = TRUE /\ jobsX = <<>> /\ asking = NoCall /\ replies = {}
  /\ answers = {} /\ known = [online |-> TRUE, level |-> reported] /\ expected = {}
  /\ view = [p \in Viewers |-> known] /\ knob = [p \in Viewers |-> Rest(known)]
  /\ said = [p \in Viewers |-> {}] /\ heard = [p \in Viewers |-> {}]
  /\ stage = [c \in Calls |-> "idle"] /\ wants = [c \in Calls |-> NoLevel]
  /\ toast = [c \in Calls |-> "none"]
  /\ late = {} /\ acted = {} /\ givenUp = {} /\ missed = FALSE /\ unheard = {}

Fault == faults > 0 /\ faults' = faults - 1
Sound == UNCHANGED <<scene, faults>>

-----------------------------------------------------------------------------
(* The device. *)

(* The broker publishes the last will; what is sent meanwhile is lost. *)
Drop ==
  /\ linked /\ Fault
  /\ linked' = FALSE /\ commands' = <<>> /\ available' = FALSE
  /\ UNCHANGED <<announced, level, spoke, doing, recent, reported, executorX, consoleX, pagesX, scene, histX>>

Relink ==
  /\ ~linked
  /\ linked' = TRUE
  /\ missed' = (missed \/ announced)
  /\ UNCHANGED <<announced, level, spoke, commands, doing, recent, board, executorX, consoleX, pagesX,
                 late, acted, givenUp, unheard>>
  /\ Sound

(* runner._tick, once a second; service.start says it is here, and how it is. *)
Tick ==
  /\ announced # linked
  /\ IF linked
       THEN announced' = TRUE /\ available' = TRUE /\ reported' = Self(spoke, level)
       ELSE announced' = FALSE /\ UNCHANGED board
  /\ UNCHANGED <<linked, level, spoke, commands, doing, recent, executorX, consoleX, pagesX, histX>>
  /\ Sound

(* min_interval_s passes. *)
Cool ==
  /\ recent
  /\ recent' = FALSE
  /\ UNCHANGED <<linked, announced, level, spoke, commands, doing, board, executorX, consoleX, pagesX, histX>>
  /\ Sound

Reply(c, status) == replies' = replies \cup {[call |-> c, status |-> status]}

(* Mutant: the device does not look at expires_ts. *)
ExpiredNever(c) == FALSE
Expired(c) == c \in late

(* handle: expired, then too soon, then the handler. *)
Begin ==
  /\ commands # <<>> /\ doing = NoCall /\ linked
  /\ commands' = Tail(commands)
  /\ LET c == Head(commands) IN
     IF Expired(c) THEN Reply(c, "EXPIRED") /\ UNCHANGED doing
     ELSE IF recent THEN Reply(c, "UNAVAILABLE") /\ UNCHANGED doing
     ELSE doing' = c /\ UNCHANGED replies
  /\ UNCHANGED <<linked, announced, level, spoke, recent, board, offered, jobsX, asking, consoleX, pagesX, histX>>
  /\ Sound

Report(at) == Self(TRUE, at)

(* The handler ends; the answer and, after a success, the state are          *)
(* published once the link is there.                                         *)
Finish ==
  /\ doing # NoCall /\ linked
  /\ doing' = NoCall
  /\ \/ /\ level' = IF wants[doing] = NoLevel THEN level ELSE wants[doing]
        /\ spoke' = TRUE /\ recent' = scene.limited
        /\ acted' = acted \cup {doing}
        /\ Reply(doing, "OK")
        /\ reported' = Report(level')
     \/ /\ Reply(doing, "FAILED")
        /\ UNCHANGED <<level, spoke, recent, acted, reported>>
  /\ UNCHANGED <<linked, announced, commands, available, offered, jobsX, asking, consoleX, pagesX,
                 late, givenUp, missed, unheard>>
  /\ Sound

-----------------------------------------------------------------------------
(* The executor. *)

(* DeviceDirectory._on_availability, _refresh *)
HearOffer ==
  /\ offered # available
  /\ offered' = available
  /\ UNCHANGED <<device, board, jobsX, asking, replies, consoleX, pagesX, histX>>
  /\ Sound

Conclude(c, status) == answers' = answers \cup {[call |-> c, status |-> status]}

(* The worker takes an invocation: a tool withdrawn is unknown, any other is *)
(* a command on the board.                                                   *)
TakeJob ==
  /\ jobsX # <<>> /\ asking = NoCall
  /\ jobsX' = Tail(jobsX)
  /\ IF offered
       THEN /\ asking' = Head(jobsX)
            /\ commands' = IF linked THEN Append(commands, Head(jobsX)) ELSE commands
            /\ UNCHANGED answers
       ELSE Conclude(Head(jobsX), "UNKNOWN_TOOL") /\ UNCHANGED <<asking, commands>>
  /\ UNCHANGED <<linked, announced, level, spoke, doing, recent, board, offered, replies, known, expected,
                 pagesX, histX>>
  /\ Sound

(* timeout_s passes: the command's and the worker's alike. *)
PassDeadline ==
  /\ asking # NoCall /\ asking \notin late
  /\ late' = late \cup {asking}
  /\ UNCHANGED <<device, board, executorX, consoleX, pagesX, acted, givenUp, missed, unheard>>
  /\ Sound

Awaited(reply) == reply.call = asking

(* DeviceDirectory._on_result: an answer nobody waits for is dropped; a      *)
(* device's refusal is the provider's failure.                               *)
HearReply(reply) ==
  /\ reply \in replies
  /\ replies' = replies \ {reply}
  /\ IF Awaited(reply)
       THEN /\ Conclude(asking, IF reply.status = "OK" THEN "OK" ELSE "FAILED")
            /\ asking' = NoCall
       ELSE UNCHANGED <<answers, asking>>
  /\ UNCHANGED <<device, board, offered, jobsX, known, expected, pagesX, histX>>
  /\ Sound

(* "It may be switched off or disconnected." *)
GiveUpX ==
  /\ asking # NoCall /\ asking \in late
  /\ Conclude(asking, "FAILED")
  /\ givenUp' = givenUp \cup {asking}
  /\ asking' = NoCall
  /\ UNCHANGED <<device, board, offered, jobsX, replies, known, expected, pagesX, late, acted, missed, unheard>>
  /\ Sound

-----------------------------------------------------------------------------
(* The console. *)

(* _on_device_availability and _on_device_state: two topics, heard apart. *)
HearBoard ==
  /\ known # [online |-> available, level |-> reported]
  /\ \/ known' = [known EXCEPT !.online = available]
     \/ known' = [known EXCEPT !.level = reported]
  /\ known' # known
  /\ UNCHANGED <<device, board, executorX, answers, expected, pagesX, histX>>
  /\ Sound

(* ConsoleActions.device: expected before it is published. *)
AcceptCall(c) ==
  /\ stage[c] = "posted"
  /\ IF known.online
       THEN /\ stage' = [stage EXCEPT ![c] = "accepted"]
            /\ expected' = expected \cup {c}
            /\ jobsX' = Append(jobsX, c)
       ELSE stage' = [stage EXCEPT ![c] = "refused"] /\ UNCHANGED <<expected, jobsX>>
  /\ UNCHANGED <<device, board, offered, asking, replies, answers, known, view, knob, said, heard, wants, toast, histX>>
  /\ Sound

MadeHere(a) == a.call \in expected

(* _on_result: the answer of a call made here goes to every page. *)
FoldAnswer(a) ==
  /\ a \in answers
  /\ answers' = answers \ {a}
  /\ expected' = expected \ {a.call}
  /\ heard' = IF MadeHere(a) THEN [p \in Viewers |-> IF p \in scene.open THEN heard[p] \cup {a} ELSE {}]
              ELSE heard
  /\ UNCHANGED <<device, board, executorX, known, view, knob, said, stage, wants, toast, histX>>
  /\ Sound

-----------------------------------------------------------------------------
(* The pages. *)

Asker(c) == scene.asker[c]
Idle(c) == c \in scene.calls /\ stage[c] = "idle"

(* A slider's draft follows the device's value when that value changes. *)
Follow(p, new) == IF new.level = view[p].level THEN knob[p] ELSE Rest(new)

Show(p) ==
  /\ p \in scene.open /\ view[p] # known
  /\ view' = [view EXCEPT ![p] = known]
  /\ knob' = [knob EXCEPT ![p] = Follow(p, known)]
  /\ UNCHANGED <<device, board, executorX, consoleX, said, heard, stage, wants, toast, histX>>
  /\ Sound

(* The slider is dragged, and sends where it is when it is let go.  Bound:   *)
(* it is dragged from where it rests.                                        *)
Drag(p, l) ==
  /\ view[p].online /\ knob[p] = Rest(view[p]) /\ knob[p] # l
  /\ \E c \in Calls \ scene.quiet : Idle(c) /\ Asker(c) = p
  /\ knob' = [knob EXCEPT ![p] = l]
  /\ UNCHANGED <<device, board, executorX, consoleX, view, said, heard, stage, wants, toast, histX>>
  /\ Sound

Release(c) ==
  /\ Idle(c) /\ c \notin scene.quiet /\ view[Asker(c)].online
  /\ stage' = [stage EXCEPT ![c] = "posted"]
  /\ wants' = [wants EXCEPT ![c] = knob[Asker(c)]]
  /\ UNCHANGED <<device, board, executorX, consoleX, view, knob, said, heard, toast, histX>>
  /\ Sound

(* Remote.tsx: read once, on arrival, if the device has reported nothing. *)
ReadQuietly(c) ==
  /\ Idle(c) /\ c \in scene.quiet
  /\ view[Asker(c)] = [online |-> TRUE, level |-> NoLevel]
  /\ stage' = [stage EXCEPT ![c] = "posted"]
  /\ UNCHANGED <<device, board, executorX, consoleX, view, knob, said, heard, wants, toast, histX>>
  /\ Sound

(* The request never reaches the console. *)
LoseCall(c) ==
  /\ stage[c] = "posted" /\ Fault
  /\ stage' = [stage EXCEPT ![c] = "refused"]
  /\ UNCHANGED <<device, board, executorX, consoleX, view, knob, said, heard, wants, toast, scene, histX>>

(* The response: its id is remembered, or the refusal said, unless it was    *)
(* a quiet reading.                                                          *)
OnAccepted(c) ==
  /\ stage[c] = "accepted"
  /\ stage' = [stage EXCEPT ![c] = "sent"]
  /\ said' = IF c \in scene.quiet THEN said ELSE [said EXCEPT ![Asker(c)] = @ \cup {c}]
  /\ UNCHANGED <<device, board, executorX, consoleX, view, knob, heard, wants, toast, histX>>
  /\ Sound

OnRefused(c) ==
  /\ stage[c] = "refused"
  /\ stage' = [stage EXCEPT ![c] = "over"]
  /\ toast' = IF c \in scene.quiet THEN toast ELSE [toast EXCEPT ![c] = "refused"]
  /\ UNCHANGED <<device, board, executorX, consoleX, view, knob, said, heard, wants, histX>>
  /\ Sound

(* onResult: said once, by the page that asked, if it knows by now it did.   *)
OnResult(p, a) ==
  /\ a \in heard[p]
  /\ heard' = [heard EXCEPT ![p] = @ \ {a}]
  /\ IF a.call \in said[p]
       THEN /\ said' = [said EXCEPT ![p] = @ \ {a.call}]
            /\ toast' = [toast EXCEPT ![a.call] = IF a.status = "OK" THEN "done" ELSE "failed"]
            /\ UNCHANGED unheard
       ELSE /\ unheard' = IF p = Asker(a.call) THEN unheard \cup {a.call} ELSE unheard
            /\ UNCHANGED <<said, toast>>
  /\ UNCHANGED <<device, board, executorX, consoleX, view, knob, stage, wants, late, acted, givenUp, missed>>
  /\ Sound

(* A page's socket closes with events on their way; the next snapshot does   *)
(* not hold them.                                                            *)
Cut(p) ==
  /\ heard[p] # {} /\ Fault
  /\ heard' = [heard EXCEPT ![p] = {}]
  /\ unheard' = unheard \cup {a.call : a \in {x \in heard[p] : Asker(x.call) = p}}
  /\ UNCHANGED <<device, board, executorX, consoleX, view, knob, said, stage, wants, toast, scene,
                 late, acted, givenUp, missed>>

-----------------------------------------------------------------------------
ServeCall(c) == AcceptCall(c) \/ OnAccepted(c) \/ OnRefused(c)
DeviceStep == Relink \/ Tick \/ Begin \/ Finish
ExecutorStep == HearOffer \/ TakeJob \/ (\E reply \in replies : HearReply(reply)) \/ GiveUpX
ConsoleStep == HearBoard \/ \E a \in answers : FoldAnswer(a)
PageStep(p) == Show(p) \/ (\E a \in heard[p] : OnResult(p, a)) \/ \E c \in Calls : Asker(c) = p /\ ServeCall(c)

PanelNext ==
  \/ Drop \/ Cool \/ DeviceStep
  \/ PassDeadline \/ ExecutorStep
  \/ ConsoleStep
  \/ \E c \in Calls : Release(c) \/ ReadQuietly(c) \/ LoseCall(c)
  \/ \E p \in Viewers : PageStep(p) \/ Cut(p) \/ \E l \in Levels : Drag(p, l)

(* Every process keeps running, and so does time: threads and loops, a link  *)
(* that comes back, requests and events that arrive.  No control need be     *)
(* touched.                                                                  *)
PanelFairness ==
  /\ WF_panelVars(DeviceStep) /\ WF_panelVars(ExecutorStep) /\ WF_panelVars(ConsoleStep)
  /\ WF_panelVars(PassDeadline)
  /\ \A p \in Viewers : WF_panelVars(PageStep(p))

PanelSpec == PanelInit /\ [][PanelNext]_panelVars /\ PanelFairness

-----------------------------------------------------------------------------
(* What a page says of a call is so: "done" only of what the device carried  *)
(* out, "refused" never of what it did, and by no page that did not ask.     *)
(* ("Failed" may be said of what it did: the answer came after the deadline.) *)
ToastsAreTrue ==
  \A c \in Calls :
    /\ toast[c] = "done" => c \in acted
    /\ toast[c] = "refused" => c \notin acted
    /\ toast[c] # "none" => c \notin scene.quiet

(* A device does not begin what the occupant was already told it did not     *)
(* answer: the command dies with the wait for it (assistance/devices.py).    *)
NothingStartsLate == [][doing' = doing \/ doing' \notin givenUp]_panelVars

(* Every press is answered on the page, unless the answer overtook the       *)
(* response that tells the page its number, or a cut took it.                *)
EveryPressIsAnswered ==
  \A c \in Calls :
    stage[c] = "posted" /\ c \notin scene.quiet ~> toast[c] # "none" \/ c \in unheard

(* Every page comes to show the device as it is, online and at its level,    *)
(* through drops of its link -- but a drop no tick saw leaves it offline.    *)
PanelComesTrue ==
  <>[](/\ ~missed => \A p \in scene.open : view[p].online
       /\ \A p \in scene.open : view[p].level # NoLevel => view[p].level = level)

(* A call made on a tile is dealt with honestly: a toast says what became  *)
(* of the call it is about, and nothing starts after the occupant was told *)
(* that it did not answer (devices/service.py, assistance/devices.py,      *)
(* state.py, useDeviceCall.ts).                                            *)
CallIsHonest ==
  /\ [](PanelTypeOK /\ ToastsAreTrue)
  /\ NothingStartsLate
=============================================================================
