---------------------------- MODULE MCConsolePage ----------------------------
(***************************************************************************)
(* page: one page, three messages, or two and a failure; a queue of one    *)
(* event, so that a second one waiting while the transport is full, with   *)
(* an event or the snapshot, overflows it.                                 *)
(*                                                                         *)
(* board: the plant, its sensor and its model while one of them dies, the  *)
(* console restarts or the page is cut off; speech the same, and somebody  *)
(* else writing on its topics; or any two messages of anybody on any topic.*)
(*                                                                         *)
(* house: the House page, over the default plan (default.yaml), in units   *)
(* of 5 cm, and over a smaller one with a wall of two doors that are near  *)
(* each other.                                                             *)
(***************************************************************************)
EXTENDS ConsolePage, BoardMonitor, HouseView

VARIABLE part  \* bound: which of the three

MCPolls == {1}
MCBudgets == {[folds |-> 3, faults |-> 0], [folds |-> 2, faults |-> 1]}

Silence == [skew |-> 0, running |-> {}, mortal |-> {}, says |-> {}, deaths |-> 0, words |-> 0, restarts |-> 0, cuts |-> 0]
Plant == [Silence EXCEPT !.running = {"simulator", "estimator", "detectors"}]
Voice == [Silence EXCEPT !.running = {"speech"}, !.mortal = {"speech"}, !.deaths = 1, !.skew = 5]

MCScenes == {
  [Plant EXCEPT !.mortal = {"simulator", "estimator"}, !.deaths = 1, !.skew = -5],
  [Plant EXCEPT !.restarts = 1, !.cuts = 1],
  [Voice EXCEPT !.restarts = 1, !.cuts = 1],
  [Voice EXCEPT !.says = {<<"console", <<"context", "preference">>>>}, !.words = 1],
  [Silence EXCEPT !.says = Writes, !.words = 2, !.restarts = 1],
  Silence}

(* The page of the board is open and has its snapshot. *)
Loaded ==
  /\ up = TRUE /\ board = Empty /\ seq = 0 /\ scheduled = <<>>
  /\ queue = <<>> /\ wire = <<>> /\ sock = "open"
  /\ store = Empty /\ pending = <<>> /\ flushing = FALSE
  /\ link = "live" /\ polling = FALSE /\ retry = FALSE
  /\ poll = [p \in Polls |-> Free]
  /\ folds = 0 /\ faults = 0
  /\ seeded = TRUE /\ spoilt = {}

Spots(dock, bowl, corner, far) ==
  [name \in {"dock", "dog_bowl", "corner", "far_corner"} |->
    CASE name = "dock" -> dock [] name = "dog_bowl" -> bowl [] name = "corner" -> corner [] OTHER -> far]
DefaultPlan ==
  [rooms |-> <<Room("living_room", 0, 0, 120, 90), Room("kitchen", 120, 0, 80, 90),
               Room("bathroom", 0, 90, 70, 70), Room("bedroom", 70, 90, 130, 70)>>,
   doors |-> {Door("living_room", "kitchen", 120, 52), Door("living_room", "bathroom", 36, 90),
              Door("living_room", "bedroom", 96, 90)},
   spots |-> Spots(Point(106, 78), Point(184, 60), Point(10, 100), Point(60, 150))]
HallPlan ==
  [rooms |-> <<Room("hall", 0, 0, 100, 20), Room("bathroom", 0, 20, 50, 40), Room("kitchen", 50, 20, 50, 40)>>,
   doors |-> {Door("hall", "bathroom", 42, 20), Door("hall", "kitchen", 58, 20), Door("bathroom", "kitchen", 50, 40)},
   spots |-> Spots(Point(90, 10), Point(90, 50), Point(5, 25), Point(45, 55))]
MCPlans == {DefaultPlan, HallPlan}

WatchInit ==
  /\ BoardInit /\ HouseInit
  /\ \/ part = "page" /\ Init /\ scene = Silence
     \/ part = "board" /\ Loaded /\ scene # Silence
     \/ part = "house" /\ Loaded /\ scene = Silence
  /\ part # "house" => plan = HallPlan

WatchNext ==
  \/ part = "page" /\ Next /\ UNCHANGED <<boardVars, houseVars, part>>
  \/ part = "board" /\ BoardNext /\ UNCHANGED <<vars, houseVars, part>>
  \/ part = "house" /\ HouseNext /\ UNCHANGED <<vars, boardVars, part>>

(* HouseFairness, for its own part. *)
HouseWatched ==
  /\ WF_houseVars(part = "house" /\ TickOfRobot) /\ WF_houseVars(part = "house" /\ Deliver)
  /\ WF_houseVars(part = "house" /\ Frame) /\ WF_houseVars(part = "house" /\ TimerFires)

WatchSpec ==
  /\ WatchInit /\ [][WatchNext]_<<vars, boardVars, houseVars, part>>
  /\ Fairness /\ BoardFairness /\ HouseWatched

(* What is written down twice agrees: the guide, the cards and the words *)
(* of the pages with the contract and the types, and the plan the robot  *)
(* walks by with the walls that are drawn (docs.ts, renderers.tsx,       *)
(* plan.ts).                                                             *)
CopiesAgree ==
  /\ TablesAgree
  /\ WalksThroughDoorways

(* What a page shows settles to what is: the page catches up with the *)
(* server, a service gone for good is shown so, sparkles end, and the *)
(* picture shows the robot where it is (useConsole.tsx, services.ts,  *)
(* Scene.tsx).                                                        *)
PagesSettle ==
  /\ PageCatchesUp
  /\ DeathIsShown
  /\ SparklesEnd
  /\ PictureSettles
=============================================================================
