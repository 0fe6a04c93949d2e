---------------------------- MODULE RobotErrands ----------------------------
(***************************************************************************)
(* The simulated home robot (src/src/devices/robot): an errand is a row of *)
(* walks and works carried out by the passing of time, which the robot     *)
(* only notices when it is looked at -- by its tick or by a command -- so  *)
(* that where it says it is lags behind.  The robot presses the TV's       *)
(* button through the executor and waits for the answer.  The remote       *)
(* (remotes/RobotRemote.tsx) offers buttons by the state on the board.     *)
(*                                                                         *)
(* A walk's legs through the doors are one step, and the battery has a few *)
(* levels.  A command asked again too soon, which the service refuses, and *)
(* the time left, which nothing waits for, are left out; reading the state *)
(* and publishing it is one step.                                          *)
(***************************************************************************)
EXTENDS Naturals, Sequences

CONSTANTS
  Dock, Bowl, Bath, TvFront, Rooms, \* the spots of the house, and its rooms' centres
  Between,                          \* on the way
  Full, Low,                        \* battery levels: full, and too low for an errand
  MaxOrders                         \* bound: commands

ASSUME RobotAssumption ==
  /\ {Full, Low, MaxOrders} \subseteq Nat /\ Low <= Full
  /\ Between \notin {Dock, Bowl, Bath, TvFront} \cup Rooms

Places == {Dock, Bowl, Bath, TvFront} \cup Rooms
Errands == {"feed_the_dog", "clean_the_bathroom", "switch_on_tv", "go_to"}

VARIABLES
  steps,    \* _steps
  overdue,  \* how many of them have had their time, unnoticed so far
  doing,    \* _task, _doing: "none" or the errand
  at,       \* x, y as last worked out
  battery,  \* battery, rounded
  bowl,     \* _bowl_filled_ts: "empty", "full", or "old" once it is to be empty
  asked,    \* _asked: [id, late]; id 0 when nothing is asked
  said,     \* _last_said: [of, press]
  changed,  \* _changed
  shown,    \* the state on the board
  answers,  \* the executor's answers under way, ids of presses
  presses,  \* the presses so far
  orders    \* bound: commands so far

robotVars == <<steps, overdue, doing, at, battery, bowl, asked, said, changed, shown, answers, presses, orders>>

Step(phase, to, done) == [phase |-> phase, to |-> to, done |-> done]
Nothing == [id |-> 0, late |-> FALSE]
Says(of) == [of |-> of, press |-> 0]

(* The row of steps of each errand. *)
Plan(errand, room) ==
  CASE errand = "feed_the_dog" ->
         <<Step("walking", Bowl, "none"), Step("feeding", Bowl, "fill"), Step("walking", Dock, "none")>>
    [] errand = "clean_the_bathroom" ->
         <<Step("walking", Bath, "none"), Step("cleaning", Bath, "clean"), Step("walking", Dock, "none")>>
    [] errand = "switch_on_tv" ->
         <<Step("walking", TvFront, "none"), Step("pressing", TvFront, "press"), Step("walking", Dock, "none")>>
    [] errand = "go_to" -> <<Step("walking", room, "none")>>
    [] errand = "return_to_dock" -> <<Step("walking", Dock, "none")>>

Phase == IF steps # <<>> THEN steps[1].phase
         ELSE IF at # Dock THEN "idle" ELSE IF battery < Full THEN "charging" ELSE "docked"

(* _values: the fields the remote reads. *)
Values == [doing |-> doing, phase |-> Phase, docked |-> at = Dock, at |-> at, battery |-> battery,
           bowl |-> bowl # "empty", said |-> said]

RobotTypeOK ==
  /\ Len(steps) <= 3 /\ overdue \in 0..Len(steps)
  /\ doing \in Errands \cup {"none", "return_to_dock"} /\ at \in Places \cup {Between}
  /\ battery \in 0..Full /\ bowl \in {"empty", "full", "old"}
  /\ asked \in [id : 0..MaxOrders, late : BOOLEAN] /\ asked.id <= presses
  /\ said.press <= presses /\ changed \in BOOLEAN /\ answers \subseteq 1..presses
  /\ shown.battery \in 0..Full /\ orders <= MaxOrders
  /\ doing = "none" <=> steps = <<>>

RobotInit ==
  /\ steps = <<>> /\ overdue = 0 /\ doing = "none" /\ at = Dock /\ battery = Full /\ bowl = "empty"
  /\ asked = Nothing /\ said = Says("none") /\ changed = TRUE /\ shown = Values
  /\ answers = {} /\ presses = 0 /\ orders = 0

-----------------------------------------------------------------------------
(* The passing of time. *)

(* The time of one more step of the errand is over. *)
StepTimePasses ==
  /\ overdue < Len(steps) /\ overdue' = overdue + 1
  /\ UNCHANGED <<steps, doing, at, battery, bowl, asked, said, changed, shown, answers, presses, orders>>
AnswerIsLate ==
  /\ asked.id # 0 /\ ~asked.late /\ asked' = [asked EXCEPT !.late = TRUE]
  /\ UNCHANGED <<steps, overdue, doing, at, battery, bowl, said, changed, shown, answers, presses, orders>>
BowlIsEmptied ==
  /\ bowl = "full" /\ bowl' = "old"
  /\ UNCHANGED <<steps, overdue, doing, at, battery, asked, said, changed, shown, answers, presses, orders>>

(* The works of the steps that have had their time, and the steps left. *)
Done == {steps[i].done : i \in 1..overdue}
Rest == SubSeq(steps, overdue + 1, Len(steps))

(* Mutant: the robot waits in the room that it went to, and says that it goes there. *)
EndsHome == IF Rest = <<>> /\ doing # "go_to" THEN "none" ELSE doing
(* _advance: an errand with no step left is over. *)
Ends == IF Rest = <<>> THEN "none" ELSE doing

(* _advance: every step that has had its time is done, and its work with it. *)
Advanced ==
  [doing |-> Ends,
   at |-> IF Rest # <<>> /\ Rest[1].phase = "walking" /\ Rest[1].to # at THEN Between
          ELSE IF overdue > 0 THEN steps[overdue].to ELSE at,
   bowl |-> IF "fill" \in Done THEN "full" ELSE bowl,
   presses |-> IF "press" \in Done THEN presses + 1 ELSE presses,
   asked |-> IF "press" \in Done THEN [id |-> presses + 1, late |-> FALSE] ELSE asked,
   answers |-> IF "press" \in Done THEN answers \cup {presses + 1} ELSE answers,
   said |-> IF "press" \in Done THEN [of |-> "pressing", press |-> presses + 1]
            ELSE IF "fill" \in Done THEN Says("fill") ELSE IF "clean" \in Done THEN Says("clean") ELSE said,
   changed |-> changed \/ overdue > 0]

(* The parts of the robot that advancing settles, whatever comes after it.   *)
Settles == overdue' = 0 /\ bowl' = Advanced.bowl /\ presses' = Advanced.presses
Works == Settles /\ asked' = Advanced.asked /\ answers' = Advanced.answers /\ said' = Advanced.said

(* _charge: by what it was doing before it is advanced. *)
Charged ==
  IF steps # <<>> THEN {battery} \cup (IF battery > 0 THEN {battery - 1} ELSE {})
  ELSE IF at = Dock /\ battery < Full THEN {battery, battery + 1} ELSE {battery}

GivesUp == Advanced.asked.late

(* tick. *)
Tick ==
  /\ battery' \in Charged
  /\ steps' = Rest /\ doing' = Advanced.doing /\ at' = Advanced.at
  /\ overdue' = 0 /\ presses' = Advanced.presses /\ answers' = Advanced.answers
  /\ asked' = IF GivesUp THEN Nothing ELSE Advanced.asked
  /\ said' = IF GivesUp THEN Says("no_answer") ELSE Advanced.said
  /\ bowl' = IF Advanced.bowl = "old" THEN "empty" ELSE Advanced.bowl
  /\ changed' = FALSE
  /\ LET publish == steps # <<>> \/ Advanced.changed \/ GivesUp \/ Advanced.bowl = "old" \/ battery' # battery
     IN shown' = IF publish THEN Values' ELSE shown
  /\ UNCHANGED orders

-----------------------------------------------------------------------------
(* The commands.  One that succeeds has the state published. *)

Ordered == orders < MaxOrders /\ orders' = orders + 1
Begin(errand, room) == steps' = Plan(errand, room) /\ doing' = errand /\ changed' = TRUE

Busy == Advanced.doing # "none"

(* _start: refused while an errand runs; with a low battery it is refused    *)
(* too, and the robot goes to charge, unpublished.                           *)
StartErrand(errand, room) ==
  /\ Ordered /\ Works /\ UNCHANGED battery
  /\ \/ /\ Busy
        /\ steps' = Rest /\ doing' = Advanced.doing /\ at' = Advanced.at /\ changed' = Advanced.changed
        /\ UNCHANGED shown
     \/ /\ ~Busy /\ battery < Low
        /\ at' = Advanced.at
        /\ IF at' # Dock THEN Begin("return_to_dock", Dock)
           ELSE steps' = Rest /\ doing' = "none" /\ changed' = Advanced.changed
        /\ UNCHANGED shown
     \/ /\ ~Busy /\ battery >= Low
        /\ Begin(errand, room) /\ at' = Advanced.at
        /\ shown' = Values'

(* return_to_dock: whatever the robot does, and without a look at the time:  *)
(* what it had finished unnoticed is lost.                                   *)
ReturnToDock ==
  /\ Ordered
  /\ IF at = Dock /\ steps = <<>> THEN UNCHANGED <<steps, doing, changed>> ELSE Begin("return_to_dock", Dock)
  /\ overdue' = 0
  /\ UNCHANGED <<at, battery, bowl, asked, said, answers, presses>>
  /\ shown' = Values'

StopErrand ==
  /\ Ordered /\ Works /\ UNCHANGED battery
  /\ steps' = <<>> /\ doing' = "none" /\ at' = Advanced.at /\ changed' = TRUE
  /\ shown' = Values'

(* status, the only one that changes nothing but what it notices.            *)
AskStatus ==
  /\ Ordered /\ Works /\ UNCHANGED battery
  /\ steps' = Rest /\ doing' = Advanced.doing /\ at' = Advanced.at /\ changed' = Advanced.changed
  /\ shown' = Values'

-----------------------------------------------------------------------------
(* The TV. *)

(* Mutant: any answer is taken for the one that is waited for. *)
MineIfAny(press) == asked.id # 0
Mine(press) == asked.id = press
ToldAtTheTick == TRUE
(* _on_result. *)
OnResult(press) ==
  /\ press \in answers /\ answers' = answers \ {press}
  /\ IF Mine(press)
     THEN asked' = Nothing /\ changed' = ToldAtTheTick /\ \E of \in {"tv", "tv_refused"} : said' = [of |-> of, press |-> press]
     ELSE UNCHANGED <<asked, changed, said>>
  /\ UNCHANGED <<steps, overdue, doing, at, battery, bowl, shown, presses, orders>>
AnswerIsLost(press) ==
  /\ press \in answers /\ answers' = answers \ {press}
  /\ UNCHANGED <<steps, overdue, doing, at, battery, bowl, asked, said, changed, shown, presses, orders>>

-----------------------------------------------------------------------------
(* The remote: the buttons that are not greyed out. *)

Offered(board) ==
  (IF board.doing = "none" THEN Errands ELSE {})
    \cup (IF board.docked /\ board.doing = "none" THEN {} ELSE {"return_to_dock"})
    \cup (IF board.doing # "none" THEN {"stop"} ELSE {})

-----------------------------------------------------------------------------
RobotNext ==
  \/ StepTimePasses \/ AnswerIsLate \/ BowlIsEmptied \/ Tick
  \/ \E errand \in Errands \ {"go_to"} : StartErrand(errand, Dock)
  \/ \E room \in Rooms : StartErrand("go_to", room)
  \/ ReturnToDock \/ StopErrand \/ AskStatus
  \/ \E press \in answers : OnResult(press) \/ AnswerIsLost(press)

(* The service's main thread ticks for ever, and time passes. *)
RobotFairness == WF_robotVars(Tick) /\ WF_robotVars(StepTimePasses) /\ WF_robotVars(AnswerIsLate)
RobotSpec == RobotInit /\ [][RobotNext]_robotVars /\ RobotFairness

-----------------------------------------------------------------------------
(* What the robot says that the TV said is the answer to the last press of   *)
(* its button, and not to an earlier one.                                    *)
SaysWhatTheTvSaid == said.of \in {"tv", "tv_refused"} => said.press = presses

(* The board shows the robot as it is, or its next tick will publish it.     *)
BoardIsNotMissed == steps # <<>> \/ changed \/ shown = Values

(* Seen on a board that shows the robot as it is, a button that is offered   *)
(* asks for something that the robot would do -- if its battery lets it, and *)
(* nothing has gone unnoticed since.                                         *)
RobotButtonsWork ==
  shown = Values => \A command \in Offered(shown) :
    /\ command \in Errands => ~Busy
    /\ command = "stop" => steps # <<>>

(* No errand lasts for ever.                                                 *)
ErrandsEnd == doing # "none" ~> doing = "none"

(* A press of the TV's button is followed by what came of it, or by "The TV  *)
(* did not answer".                                                          *)
PressIsAnswered == asked.id # 0 ~> asked.id = 0

(* The robot does what it says: it tells of the television only what the *)
(* television answered to the last press, its board shows it as it is or *)
(* its next tick will, and the buttons offered ask for what it would do  *)
(* (devices/robot/__init__.py, RobotRemote.tsx).                         *)
RobotKeepsItsWord ==
  /\ RobotTypeOK
  /\ SaysWhatTheTvSaid
  /\ BoardIsNotMissed
  /\ RobotButtonsWork
=============================================================================
