------------------------------ MODULE HouseView ------------------------------
(***************************************************************************)
(* The House page (house/House.tsx, house/Scene.tsx) while the robot       *)
(* (src/src/devices/robot/__init__.py) goes about: it publishes the leg it *)
(* walks, and the page moves its picture along it between publications.    *)
(*                                                                         *)
(* Time is in ticks of the robot's loop, every leg and every work takes    *)
(* LegTicks, and a place is rounded to a unit.  The sweep of the bathroom  *)
(* is one leg from its first corner to its last.  What errands the robot   *)
(* refuses, its battery and the TV are RobotErrands'.                      *)
(***************************************************************************)
EXTENDS FloorPlan

CONSTANTS
  LegTicks,   \* the ticks of a leg, or of a work
  MaxOrders,  \* bound: what the robot is asked
  MaxWire,    \* bound: states on their way; a living robot waits for them
  MaxLapses,  \* bound: restarts of the robot's service or of the console
  Unseen      \* no state of the robot

Phases == {"idle", "walking", "feeding", "cleaning"}
States ==
  [from : Points, to : Points, walked : 0..LegTicks, lasts : {0, LegTicks}, leg : Nat, phase : Phases,
   bowl : BOOLEAN, cleaned : Nat]

ASSUME HouseViewAssumption ==
  /\ LegTicks \in Nat \ {0} /\ MaxWire \in Nat \ {0}
  /\ {MaxOrders, MaxLapses} \subseteq Nat
  /\ Unseen \notin States
  /\ \A p \in Plans :
       /\ {"dock", "dog_bowl", "corner", "far_corner"} \subseteq DOMAIN p.spots
       /\ \E r \in RoomsOf(p) : Encloses(r, p.spots["corner"]) /\ Encloses(r, p.spots["far_corner"])

VARIABLES
  plan,    \* the house
  robot,   \* the robot: the leg it is on, the steps after it, what it has done
  onWire,    \* what is on its way to the page, first to last
  view,    \* what the page has of the robot's state, or Unseen
  online,  \* device.online, as the page has it
  since,   \* the time since the page got that state
  open,    \* whether the page is open
  known,   \* useFreshness: seen
  sparkle, \* useFreshness: fresh, and whether its timer is set
  dog,     \* the dog: 0 at its bed, 1 on its way, 2 at its bowl
  orders,  \* what was asked so far
  stamp,   \* the last cleaning
  lapses,  \* the restarts so far
  first    \* history: the cleaning the page knew of when it was opened

houseVars == <<plan, robot, onWire, view, online, since, open, known, sparkle, dog, orders, stamp, lapses, first>>

-----------------------------------------------------------------------------
(* The robot's steps: a walk to a point, or work, which may move it too.     *)

Step(phase, to) == [phase |-> phase, to |-> to]
Walk(to) == Step("walking", to)
Home == plan.spots["dock"]

(* Mutant: the way back through the search ends one door early. *)
WaysFromSecondDoor(from, to) ==
  {[i \in 1..(Len(doors) - 1) |-> Walk(Point(doors[i + 1].x, doors[i + 1].y))] \o <<Walk(to)>> :
     doors \in DoorsBetween(plan, RoomAt(plan, from), RoomAt(plan, to))}
(* _walk: a leg to each door between, and one to the point itself.           *)
Ways(from, to) ==
  {[i \in DOMAIN doors |-> Walk(Point(doors[i].x, doors[i].y))] \o <<Walk(to)>> :
     doors \in DoorsBetween(plan, RoomAt(plan, from), RoomAt(plan, to))}

(* feed_the_dog, clean_the_bathroom, go_to. *)
Feeding(at) ==
  LET bowl == plan.spots["dog_bowl"]
  IN {out \o <<Step("feeding", bowl)>> \o back : out \in Ways(at, bowl), back \in Ways(bowl, Home)}
Cleaning(at) ==
  LET corner == plan.spots["corner"]
      far == plan.spots["far_corner"]
  IN {out \o <<Step("cleaning", far)>> \o back : out \in Ways(at, corner), back \in Ways(far, Home)}
Visits(at) == UNION {Ways(at, Centre(r)) : r \in RoomsOf(plan)}

(* Where a leg of a robot, or of what is known of one, has got to.           *)
Between(from, to, walked, lasts) ==
  Point(from.x + ((to.x - from.x) * walked) \div lasts, from.y + ((to.y - from.y) * walked) \div lasts)
Place(r, walked) == IF r.lasts = 0 THEN r.to ELSE Between(r.from, r.to, walked, r.lasts)
Here(r) == Place(r, r.walked)

(* _begin, and the next step in _advance: the leg starts where the robot is. *)
Take(r, steps) ==
  LET at == Here(r)
      idle == [r EXCEPT !.from = at, !.to = at, !.walked = 0, !.lasts = 0, !.steps = <<>>, !.phase = "idle", !.leg = @ + 1]
  IN IF steps = <<>> THEN idle
     ELSE [idle EXCEPT !.to = Head(steps).to, !.lasts = LegTicks, !.steps = Tail(steps), !.phase = Head(steps).phase]

(* done: the bowl is filled, or the bathroom cleaned now. *)
Finish(r) ==
  [r EXCEPT !.bowl = @ \/ r.phase = "feeding", !.cleaned = IF r.phase = "cleaning" THEN stamp + 1 ELSE @]

(* _advance over one tick. *)
Advance(r) ==
  IF r.lasts = 0 THEN r
  ELSE IF r.walked + 1 < r.lasts THEN [r EXCEPT !.walked = @ + 1]
  ELSE Take(Finish([r EXCEPT !.walked = r.lasts]), r.steps)

(* _values: the leg is published while one is walked or swept.               *)
Telling(r) ==
  LET moves == r.lasts > 0 /\ r.phase # "feeding"
  IN [from |-> IF moves THEN r.from ELSE Here(r), to |-> IF moves THEN r.to ELSE Here(r),
      walked |-> IF moves THEN r.walked ELSE 0, lasts |-> IF moves THEN r.lasts ELSE 0,
      leg |-> r.leg, phase |-> r.phase, bowl |-> r.bowl, cleaned |-> r.cleaned]

Booted(leg) ==
  [alive |-> TRUE, from |-> Home, to |-> Home, walked |-> 0, lasts |-> 0, steps |-> <<>>, phase |-> "idle",
   leg |-> leg, bowl |-> FALSE, cleaned |-> 0]

(* publish_state, and the availability the service or the broker publishes.  *)
Item(on, state) == [online |-> on, state |-> state]
Publish(r) == onWire' = Append(onWire, Item(TRUE, Telling(r)))
Room4One == Len(onWire) < MaxWire

-----------------------------------------------------------------------------
(* The page. *)

(* useRobotPlace: how far along its leg the robot is drawn. *)
Elapsed == IF view.walked + since < view.lasts THEN view.walked + since ELSE view.lasts
DrawnAlong == IF ~online \/ view.lasts = 0 THEN view.walked ELSE Elapsed
RobotDrawn == Place(view, DrawnAlong)
Moving == online /\ view.lasts > 0 /\ DrawnAlong < view.lasts

CleanedOf(state) == IF state = Unseen THEN 0 ELSE state.cleaned
Fresh == [fresh |-> TRUE, timer |-> TRUE]
Stale == [fresh |-> FALSE, timer |-> FALSE]

(* useFreshness: its effect runs when the value has changed, and first *)
(* clears the timer of the run before.                                 *)
Notice(value) ==
  IF value = known THEN UNCHANGED <<known, sparkle>>
  ELSE /\ known' = value
       /\ sparkle' = IF value # 0 THEN Fresh ELSE [sparkle EXCEPT !.timer = FALSE]

(* Spots: what the page was opened on is not news. *)
Mounted(value) == known' = value /\ sparkle' = Stale

(* TheDog: where it is going. *)
BowlSeen == view # Unseen /\ view.bowl
DogGoal == IF BowlSeen THEN 2 ELSE 0

-----------------------------------------------------------------------------
HouseInit ==
  /\ plan \in Plans
  /\ robot = Booted(0) /\ onWire = <<>>
  /\ view = Telling(robot) /\ online = TRUE /\ since = 0
  /\ open = FALSE /\ known = 0 /\ sparkle = Stale /\ dog = 0
  /\ orders = 0 /\ stamp = 0 /\ lapses = {} /\ first = 0

pageOnly == <<view, online, since, open, known, sparkle, dog, first>>

Do(steps) ==
  /\ orders < MaxOrders /\ orders' = orders + 1 /\ Room4One /\ robot.alive
  /\ robot' = Take(robot, steps) /\ Publish(robot')
  /\ UNCHANGED <<plan, stamp, lapses, pageOnly>>
(* _start: refused while something is being done. *)
Errand ==
  /\ robot.phase = "idle"
  /\ \E steps \in Feeding(Here(robot)) \cup Cleaning(Here(robot)) \cup Visits(Here(robot)) : Do(steps)
(* return_to_dock, whatever is being done. *)
ReturnToDock ==
  /\ Here(robot) # Home \/ robot.phase # "idle"
  /\ \E steps \in Ways(Here(robot), Home) : Do(steps)
(* stop. *)
Stop == robot.phase # "idle" /\ Do(<<>>)

(* tick: time passes for the robot, which says where it is while it is busy, *)
(* and for the page.                                                         *)
TickOfRobot ==
  /\ robot.alive => Room4One
  /\ robot' = (IF robot.alive THEN Advance(robot) ELSE robot)
  /\ stamp' = IF robot'.cleaned > stamp THEN stamp + 1 ELSE stamp
  /\ since' = IF since < LegTicks THEN since + 1 ELSE since
  /\ IF robot.alive /\ robot.lasts > 0 THEN Publish(robot') ELSE UNCHANGED onWire
  /\ UNCHANGED <<plan, view, online, open, known, sparkle, dog, orders, lapses, first>>
(* bowl_empties_after_s. *)
BowlEmpties ==
  /\ Room4One /\ robot.alive /\ robot.bowl
  /\ robot' = [robot EXCEPT !.bowl = FALSE] /\ Publish(robot')
  /\ UNCHANGED <<plan, orders, stamp, lapses, pageOnly>>

(* The robot's service dies, and the broker says so; it is started again.    *)
RobotDies ==
  /\ Cardinality(lapses) < MaxLapses /\ lapses' = lapses \cup {"robot"}
  /\ Room4One /\ robot.alive
  /\ robot' = [robot EXCEPT !.alive = FALSE]
  /\ onWire' = Append(onWire, Item(FALSE, Unseen))
  /\ UNCHANGED <<plan, orders, stamp, pageOnly>>
RobotReturns ==
  /\ ~robot.alive /\ Room4One
  /\ robot' = Booted(robot.leg + 1) /\ Publish(robot')
  /\ UNCHANGED <<plan, orders, stamp, lapses, pageOnly>>
(* What the broker retains: the last that was said and the last state told.  *)
Tellings == <<Item(online, view)>> \o onWire
LastSaid == Tellings[Len(Tellings)]
LastTold == Tellings[CHOOSE i \in DOMAIN Tellings :
                       /\ Tellings[i].state # Unseen
                       /\ \A j \in DOMAIN Tellings : j > i => Tellings[j].state = Unseen]
(* The console is started again: until the broker has told it what it        *)
(* retains, its pages have no robot.                                         *)
ConsoleRestarts ==
  /\ Cardinality(lapses) < MaxLapses /\ lapses' = lapses \cup {"console"}
  /\ onWire' = <<Item(LastSaid.online, LastTold.state)>>
  /\ view' = Unseen /\ online' = FALSE /\ since' = 0
  /\ IF open THEN Notice(0) ELSE UNCHANGED <<known, sparkle>>
  /\ UNCHANGED <<plan, robot, open, dog, orders, stamp, first>>

Deliver ==
  /\ onWire # <<>> /\ onWire' = Tail(onWire)
  /\ online' = Head(onWire).online
  /\ view' = IF Head(onWire).state = Unseen THEN view ELSE Head(onWire).state
  /\ since' = IF Head(onWire).state = Unseen THEN since ELSE 0
  /\ IF open THEN Notice(CleanedOf(view')) ELSE UNCHANGED <<known, sparkle>>
  /\ UNCHANGED <<plan, robot, open, dog, orders, stamp, lapses, first>>

OpenPage ==
  /\ ~open /\ open' = TRUE
  /\ Mounted(CleanedOf(view)) /\ first' = CleanedOf(view) /\ dog' = 0 /\ since' = 0
  /\ UNCHANGED <<plan, robot, onWire, view, online, orders, stamp, lapses>>
(* A frame: the dog takes a step. *)
Frame ==
  /\ open /\ dog # DogGoal
  /\ dog' = IF dog < DogGoal THEN dog + 1 ELSE dog - 1
  /\ UNCHANGED <<plan, robot, onWire, view, online, since, open, known, sparkle, orders, stamp, lapses, first>>
TimerFires ==
  /\ sparkle.timer /\ sparkle' = Stale
  /\ UNCHANGED <<plan, robot, onWire, view, online, since, open, known, dog, orders, stamp, lapses, first>>

HouseNext ==
  \/ Errand \/ ReturnToDock \/ Stop \/ TickOfRobot \/ BowlEmpties
  \/ RobotDies \/ RobotReturns \/ ConsoleRestarts
  \/ Deliver \/ OpenPage \/ Frame \/ TimerFires

(* The robot's loop ticks, what is published arrives, and the page draws.    *)
HouseFairness ==
  /\ WF_houseVars(TickOfRobot) /\ WF_houseVars(Deliver)
  /\ WF_houseVars(Frame) /\ WF_houseVars(TimerFires)

HouseSpec == HouseInit /\ [][HouseNext]_houseVars /\ HouseFairness

-----------------------------------------------------------------------------
HouseTypeOK ==
  /\ plan \in Plans /\ open \in BOOLEAN /\ online \in BOOLEAN
  /\ robot \in [alive : BOOLEAN, from : Points, to : Points, walked : 0..LegTicks, lasts : {0, LegTicks},
               steps : Seq([phase : Phases, to : Points]), phase : Phases, leg : Nat, bowl : BOOLEAN, cleaned : Nat]
  /\ view \in States \cup {Unseen} /\ since \in 0..LegTicks /\ dog \in 0..2
  /\ onWire \in Seq([online : BOOLEAN, state : States \cup {Unseen}]) /\ Len(onWire) <= MaxWire
  /\ sparkle \in [fresh : BOOLEAN, timer : BOOLEAN]
  /\ {known, first} \subseteq 0..stamp /\ stamp \in Nat /\ orders \in 0..MaxOrders
  /\ view # Unseen => DrawnAlong \in 0..view.lasts

InOneRoom(a, b) == \E r \in RoomsOf(plan) : Encloses(r, a) /\ Encloses(r, b)

(* "the robot walks only through these" (config.py HouseDoor): what the robot*)
(* plans and what the console draws agree, and no leg of it goes through a   *)
(* wall as it is drawn.  A leg that was stopped in a wall starts in it.  One *)
(* between two doors of one line of walls runs along that line, inside the   *)
(* walls; it is the exception (README).                                      *)
WalksThroughDoorways ==
  (robot.lasts > 0 /\ \A w \in Drawn[plan] : ~RunsAlong(w, robot.from, robot.to)) =>
    \A w \in Drawn[plan] : Crosses(w, robot.from, robot.to) => On(w, robot.from)

(* Of any plan that the configuration accepts: each leg of the robot, and    *)
(* every one it still has before it, lies in one room, also after it was     *)
(* stopped or sent home on its way.                                          *)
LegsLieInRooms ==
  /\ robot.lasts > 0 => InOneRoom(robot.from, robot.to)
  /\ \A i \in DOMAIN robot.steps : InOneRoom(IF i = 1 THEN robot.to ELSE robot.steps[i - 1].to, robot.steps[i].to)

(* However late a state arrives, the robot is never drawn further along its  *)
(* leg than it is.                                                           *)
DrawnIsNotAhead ==
  (open /\ view # Unseen /\ robot.alive /\ view.leg = robot.leg /\ robot.phase # "feeding")
    => DrawnAlong <= robot.walked

(* "never on first sight": the bathroom sparkles only for a cleaning the page*)
(* did not know of when it was opened, unless the console was restarted.     *)
SparklesAreEarned == sparkle.fresh /\ known # 0 => known > first \/ "console" \in lapses

(* It stops sparkling, unless what the page knew is forgotten while it does. *)
SparklesEnd == sparkle.fresh ~> (~sparkle.fresh \/ known = 0)

(* The page shows what there is. *)
InStep ==
  IF robot.alive THEN view # Unseen /\ online /\ RobotDrawn = Here(robot) /\ ~Moving /\ dog = (IF robot.bowl THEN 2 ELSE 0)
  ELSE ~online

(* Whatever was asked, stopped or restarted, and however late the page heard *)
(* of it: in the end it shows the robot where it is, and the dog by a full   *)
(* bowl, and of a robot that is gone that it is.                             *)
PictureSettles == [](open => <>[]InStep)

(* The House page shows a robot that walks from room to room at their doors, *)
(* never draws it further along its leg than it is, and lets the bathroom    *)
(* sparkle only for a cleaning finished after the page was opened            *)
(* (devices/robot, Scene.tsx).                                               *)
HouseIsTrue ==
  /\ HouseTypeOK
  /\ LegsLieInRooms
  /\ DrawnIsNotAhead
  /\ SparklesAreEarned
=============================================================================
