---------------------------- MODULE RoomControls ----------------------------
(***************************************************************************)
(* The temperature, as the occupant sets it from the console (FR-57,       *)
(* FR-80, FR-81), and the goal that answers.                               *)
(*                                                                         *)
(* Page (src/console/web/src/components/Climate.tsx, Composer.tsx,         *)
(* remotes/AcRemote.tsx): a dial whose target is drafted on the page and   *)
(* sent SEND_AFTER_MS after it was last touched; presets, cooler, warmer,  *)
(* cooling off, automatic, the compact remote's steps and the composer's   *)
(* dial, each sent at once.  A new goal is the answer to the last request. *)
(*                                                                         *)
(* Console (actions.set_target to _prefer, state._on_hint, _on_goal): a    *)
(* request becomes a preference, remembered as set here so that it is      *)
(* shown as typed when it comes back from the board.                       *)
(*                                                                         *)
(* Control (control/service.py, goal_manager.py): every preference is      *)
(* answered by a goal; the setpoint reaches it in steps, or stays where a  *)
(* refusal leaves it.  GoalPath has the gate itself.                       *)
(*                                                                         *)
(* Temperatures are in quarters of a degree above the lower bound.         *)
(***************************************************************************)
EXTENDS Integers, SequencesExt

CONSTANTS
  Top,       \* the upper bound; the lower is 0
  Step,      \* STEP_C
  Stride,    \* max_step_c: how far one goal moves the setpoint
  Presets,   \* the presets' targets; bound: the composer's dial's and the supervisor's too
  OffAt,     \* cooling_off_c
  Default,   \* default_setpoint_c
  NoTarget,
  Presses,   \* bound: controls used and requests spoken
  Moves      \* bound: goals of the supervisor, requests lost, pages left

ASSUME RoomControlsAssumption ==
  /\ {Top, Step, Stride, OffAt, Default} \subseteq Nat \ {0}
  /\ Top % Step = 0 /\ OffAt <= Top /\ Default <= Top
  /\ Presets \subseteq 0..Top /\ NoTarget \notin Int
  /\ Presses \in Nat /\ Moves \in Nat

VARIABLES
  paced,     \* control: validator.pace_occupant, as configured
  goal,      \* board: the retained active goal, numbered by its ts
  heading,   \* control: GoalManager._pursuing's, or the setpoint in force
  hints,     \* board: preferences on their way to control
  echoes,    \* board: the same on their way to the console
  setHere,   \* console: _set_here
  turns,     \* console: requests shown as typed, and as spoken
  seenGoal,  \* page: state.room.goal
  draft,     \* page: Climate's draft
  timer,     \* page: the target of the pending timer
  asks,      \* requests in flight, unordered
  pressed,   \* bound: controls used and requests spoken
  moved,     \* bound: the rest
  wish,      \* history: what was last asked for
  crossed,   \* history: a request was made while another was pending
  denied,    \* history: control refused one
  strayed,   \* history: a request was lost, or a page left with one pending
  made       \* history: preferences published from here, and aloud

control == <<paced, goal, heading, hints>>
consoleR == <<echoes, setHere, turns>>
pageR == <<seenGoal, draft, timer, asks>>
boundR == <<pressed, moved>>
histR == <<wish, crossed, denied, strayed, made>>
roomVars == <<control, consoleR, pageR, boundR, histR>>

Target == 0..Top
Dialled == {t \in Target : t % Step = 0}
Plain(kind) == [kind |-> kind, at |-> NoTarget]
SetTo(t) == [kind |-> "set", at |-> t]
Wish == {SetTo(t) : t \in Target} \cup {Plain(kind) : kind \in {"warmer", "cooler", "automatic", "off"}}

RoomTypeOK ==
  /\ paced \in BOOLEAN
  /\ goal \in [ts : Nat, at : Target, yours : BOOLEAN]
  /\ seenGoal \in [ts : 0..goal.ts, at : Target, yours : BOOLEAN]
  /\ heading \in Target
  /\ hints \in Seq(Wish) /\ echoes \in Seq(Wish) /\ setHere \in Seq(Wish)
  /\ turns \in [typed : Nat, spoken : Nat] /\ made \in [here : Nat, aloud : Nat]
  /\ draft \in Dialled \cup {NoTarget} /\ timer \in Dialled \cup {NoTarget}
  /\ asks \subseteq [n : 1..pressed, wish : Wish]
  /\ pressed \in 0..Presses /\ moved \in 0..Moves
  /\ wish \in Wish /\ {crossed, denied, strayed} \subseteq BOOLEAN

RoomInit ==
  /\ paced \in BOOLEAN
  /\ goal = [ts |-> 0, at |-> Default, yours |-> FALSE] /\ seenGoal = goal
  /\ heading = Default /\ hints = <<>> /\ echoes = <<>>
  /\ setHere = <<>> /\ turns = [typed |-> 0, spoken |-> 0]
  /\ draft = NoTarget /\ timer = NoTarget /\ asks = {}
  /\ pressed \in 0..Presses /\ moved \in 0..Moves
  /\ wish = Plain("automatic") /\ crossed = FALSE /\ denied = FALSE /\ strayed = FALSE
  /\ made = [here |-> 0, aloud |-> 0]

-----------------------------------------------------------------------------
(* The page. *)

Held == seenGoal.at
ShownTarget == IF draft = NoTarget THEN Held ELSE draft

Least(a, b) == IF a <= b THEN a ELSE b
Most(a, b) == IF a >= b THEN a ELSE b
Within(t) == Least(Top, Most(0, t))

(* ask: rounded to the step, then clamped. *)
DialledAt(t) == Within(((2 * t + Step) \div (2 * Step)) * Step)

Press == pressed < Presses /\ pressed' = pressed + 1 /\ UNCHANGED moved
Move == moved < Moves /\ moved' = moved + 1 /\ UNCHANGED pressed

(* Mutant: a dial already waiting keeps its time and its target. *)
TimedOnce(t) == IF timer = NoTarget THEN t ELSE timer
(* The dial's timer is set again, to the target dialled last. *)
Timed(t) == t

(* The dial's buttons, disabled at the bounds, and its slider. *)
Dial(t) ==
  /\ \/ t = ShownTarget - Step /\ ShownTarget > 0
     \/ t = ShownTarget + Step /\ ShownTarget < Top
     \/ t \in Dialled
  /\ Press
  /\ draft' = DialledAt(t) /\ timer' = Timed(DialledAt(t))
  /\ wish' = SetTo(DialledAt(t))
  /\ crossed' = (crossed \/ asks # {})
  /\ UNCHANGED <<control, consoleR, seenGoal, asks, denied, strayed, made>>

(* SEND_AFTER_MS after the dial was last touched. *)
Fire ==
  /\ timer # NoTarget
  /\ timer' = NoTarget
  /\ asks' = asks \cup {[n |-> pressed, wish |-> SetTo(timer)]}
  /\ UNCHANGED <<control, consoleR, seenGoal, draft, boundR, histR>>

(* Every other control asks at once.  Presets, cooler and warmer, cooling    *)
(* off, and automatic once the goal is the occupant's.                       *)
OnClimate(w) ==
  \/ w \in {SetTo(t) : t \in Presets}
  \/ w \in {Plain("warmer"), Plain("cooler"), Plain("off")}
  \/ w = Plain("automatic") /\ seenGoal.yours

(* The compact remote steps from the target held, not from the one asked for. *)
OnRemote(w) ==
  \/ w = SetTo(Within(Held - Step)) /\ Held > 0
  \/ w = SetTo(Within(Held + Step)) /\ Held < Top

(* The composer's dial asks for where it is set; bound: only for Presets. *)
OnComposer(w) == \E t \in Presets : w = SetTo(t)

AskNow(w) ==
  /\ OnClimate(w) \/ OnRemote(w) \/ OnComposer(w)
  /\ Press
  /\ asks' = asks \cup {[n |-> pressed', wish |-> w]}
  /\ wish' = w
  /\ crossed' = (crossed \/ asks # {} \/ timer # NoTarget)
  /\ UNCHANGED <<control, consoleR, seenGoal, draft, timer, denied, strayed, made>>

(* A goal with another ts answers the request. *)
Answered == seenGoal.ts # goal.ts

SeeGoal ==
  /\ seenGoal # goal
  /\ seenGoal' = goal
  /\ draft' = IF Answered THEN NoTarget ELSE draft
  /\ UNCHANGED <<control, consoleR, timer, asks, boundR, histR>>

(* Another page is opened: the timer is cleared, and what it held with it. *)
LeaveRoom ==
  /\ draft # NoTarget \/ timer # NoTarget
  /\ Move
  /\ draft' = NoTarget /\ timer' = NoTarget
  /\ strayed' = (strayed \/ timer # NoTarget)
  /\ UNCHANGED <<control, consoleR, seenGoal, asks, wish, crossed, denied, made>>

LoseAsk(a) ==
  /\ a \in asks /\ Move
  /\ asks' = asks \ {a}
  /\ strayed' = TRUE
  /\ UNCHANGED <<control, consoleR, seenGoal, draft, timer, wish, crossed, denied, made>>

-----------------------------------------------------------------------------
(* The console: _prefer, under the server's lock. *)

Publishes(w) == hints' = Append(hints, w) /\ echoes' = Append(echoes, w)

Prefer(a) ==
  /\ a \in asks
  /\ asks' = asks \ {a}
  /\ setHere' = Append(setHere, a.wish)
  /\ Publishes(a.wish)
  /\ made' = [made EXCEPT !.here = @ + 1]
  /\ UNCHANGED <<paced, goal, heading, turns, seenGoal, draft, timer, boundR, wish, crossed, denied, strayed>>

(* Somebody says the same words aloud. *)
Speak(w) ==
  /\ w.kind \in {"warmer", "cooler"} /\ Press
  /\ Publishes(w)
  /\ crossed' = TRUE
  /\ made' = [made EXCEPT !.aloud = @ + 1]
  /\ UNCHANGED <<paced, goal, heading, setHere, turns, pageR, wish, denied, strayed>>

(* Mutant: all those of the same words are forgotten at the first. *)
ForgetWords(w) == SelectSeq(setHere, LAMBDA x : x # w)
ForgetOne(w) == RemoveFirst(setHere, w)

(* _on_hint: the occupant's, typed, if those words were set here; else said. *)
Echo ==
  /\ echoes # <<>>
  /\ echoes' = Tail(echoes)
  /\ IF \E i \in DOMAIN setHere : setHere[i] = Head(echoes)
       THEN /\ setHere' = ForgetOne(Head(echoes))
            /\ turns' = [turns EXCEPT !.typed = @ + 1]
       ELSE /\ turns' = [turns EXCEPT !.spoken = @ + 1]
            /\ UNCHANGED setHere
  /\ UNCHANGED <<control, pageR, boundR, histR>>

-----------------------------------------------------------------------------
(* Control. *)

Toward(t, from) == IF t >= from THEN Least(t, from + Stride) ELSE Most(t, from - Stride)

Meant(w) ==
  CASE w.kind = "set" -> w.at
    [] w.kind = "warmer" -> Within(goal.at + Step)
    [] w.kind = "cooler" -> Within(goal.at - Step)
    [] w.kind = "off" -> OffAt
    [] w.kind = "automatic" -> Default

(* V-2 paces what the system proposes, and the occupant only if configured. *)
Granted(w) == IF paced \/ w.kind = "automatic" THEN Toward(Meant(w), goal.at) ELSE Meant(w)

(* A preference, or its release, is answered by a goal whatever the gate     *)
(* makes of it; only a preference held back by the rate is pursued.          *)
Decide ==
  /\ hints # <<>>
  /\ hints' = Tail(hints)
  /\ LET w == Head(hints) IN
     \/ /\ heading' = IF w.kind = "automatic" THEN Granted(w) ELSE Meant(w)
        /\ goal' = [ts |-> goal.ts + 1, at |-> Granted(w), yours |-> w.kind # "automatic"]
        /\ UNCHANGED denied
     \/ /\ heading' = goal.at
        /\ goal' = [goal EXCEPT !.ts = @ + 1, !.yours = w.kind # "automatic"]
        /\ denied' = TRUE
  /\ UNCHANGED <<paced, consoleR, pageR, boundR, wish, crossed, strayed, made>>

(* The next stride of a preference the rate limit held back. *)
Pursue ==
  /\ heading # goal.at
  /\ goal' = [goal EXCEPT !.ts = @ + 1, !.at = Toward(heading, goal.at)]
  /\ UNCHANGED <<paced, heading, hints, consoleR, pageR, boundR, histR>>

(* The supervisor plans, while no preference holds. *)
Plan(t) ==
  /\ ~goal.yours /\ Move
  /\ goal' = [ts |-> goal.ts + 1, at |-> Toward(t, goal.at), yours |-> FALSE]
  /\ heading' = goal'.at
  /\ UNCHANGED <<paced, hints, consoleR, pageR, histR>>

-----------------------------------------------------------------------------
PageActs == SeeGoal \/ Fire
ConsoleActs == Echo \/ \E a \in asks : Prefer(a)
ControlActs == Decide \/ Pursue

RoomNext ==
  \/ PageActs \/ ConsoleActs \/ ControlActs
  \/ \E t \in (0 - Step)..(Top + Step) : Dial(t)
  \/ \E w \in Wish : AskNow(w) \/ Speak(w)
  \/ \E t \in Presets : Plan(t)
  \/ \E a \in asks : LoseAsk(a)
  \/ LeaveRoom

(* Timers fire, requests and messages arrive, control's loop runs. *)
RoomFairness == WF_roomVars(PageActs) /\ WF_roomVars(ConsoleActs) /\ WF_roomVars(ControlActs)
RoomSpec == RoomInit /\ [][RoomNext]_roomVars /\ RoomFairness

-----------------------------------------------------------------------------
(* The room comes to what the occupant last asked for, however often the     *)
(* dial was turned on the way.  Not so when a request was made while another *)
(* was still to be sent or taken: a preset pressed within 700 ms of the dial *)
(* is overridden by the dial.                                                *)
LastWishWins ==
  <>[](wish.kind = "set" /\ ~crossed /\ ~denied /\ ~strayed => goal.at = wish.at /\ goal.yours)

(* "Sending…" ends: every draft is answered by a goal, admitted or not,      *)
(* unless its request never arrived.                                         *)
DraftIsAnswered == <>[](draft = NoTarget \/ strayed)

(* Each request taken here is shown once as typed and each spoken one once   *)
(* as spoken, though they are told apart by their words alone                *)
(* (state.py:519-527).                                                       *)
EachIsShownOnce ==
  /\ turns.typed + Len(setHere) = made.here
  /\ turns.typed + turns.spoken + Len(echoes) = made.here + made.aloud

(* What is asked of the room is shown, once, as what it was: typed or *)
(* spoken (Climate.tsx, Composer.tsx, state.py).                      *)
RequestsAreShown ==
  /\ RoomTypeOK
  /\ EachIsShownOnce
=============================================================================
