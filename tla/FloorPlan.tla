------------------------------ MODULE FloorPlan ------------------------------
(***************************************************************************)
(* The house from above: the plan a configuration may give                 *)
(* (src/src/common/config.py), the ways the robot walks through it         *)
(* (src/src/devices/robot/__init__.py) and the walls the console draws     *)
(* (src/console/web/src/house/plan.ts).                                    *)
(*                                                                         *)
(* A length is a whole number of units, and half a doorway is HalfDoor of  *)
(* them.  Where the breadth-first search may take any of several shortest  *)
(* ways, so may the model.                                                 *)
(***************************************************************************)
EXTENDS Integers, Sequences, FiniteSets, SequencesExt

CONSTANTS
  Plans,    \* the houses: [rooms, doors, spots]
  HalfDoor  \* half of DOOR_WIDTH_M

Point(x, y) == [x |-> x, y |-> y]
Points == [x : Int, y : Int]
Room(id, x, y, width, depth) == [id |-> id, x |-> x, y |-> y, width |-> width, depth |-> depth]
Door(one, other, x, y) == [between |-> {one, other}, x |-> x, y |-> y]

RoomsOf(plan) == {plan.rooms[i] : i \in DOMAIN plan.rooms}
RoomCalled(plan, id) == CHOOSE r \in RoomsOf(plan) : r.id = id
Encloses(r, p) == p.x \in r.x..(r.x + r.width) /\ p.y \in r.y..(r.y + r.depth)
Centre(r) == Point(r.x + r.width \div 2, r.y + r.depth \div 2)

(* room_at: the first listed that holds the point. *)
RoomAt(plan, p) ==
  LET at == {i \in DOMAIN plan.rooms : Encloses(plan.rooms[i], p)}
  IN plan.rooms[CHOOSE i \in at : \A j \in at : i <= j].id

-----------------------------------------------------------------------------
(* The robot's ways: the doors from a room to another.                       *)

RoomIds(plan) == {r.id : r \in RoomsOf(plan)}

(* The ways of n doors, each from the room that the one before leads into.   *)
DoorWays(plan, id, goal, n) ==
  {doors \in [1..n -> plan.doors] :
     \E through \in [1..(n + 1) -> RoomIds(plan)] :
       /\ through[1] = id /\ through[n + 1] = goal
       /\ \A i \in 1..n : doors[i].between = {through[i], through[i + 1]}}

(* _doors_between: the search from a room finds a shortest way first.        *)
DoorsBetween(plan, id, goal) ==
  UNION {DoorWays(plan, id, goal, n) :
           n \in {m \in 0..(Len(plan.rooms) - 1) : \A k \in 0..(m - 1) : DoorWays(plan, id, goal, k) = {}}}

(* _the_plan_is_whole. *)
IsWhole(plan) ==
  /\ \A i, j \in DOMAIN plan.rooms : plan.rooms[i].id = plan.rooms[j].id => i = j
  /\ \A d \in plan.doors :
       /\ Cardinality(d.between) = 2 /\ d.between \subseteq RoomIds(plan)
       /\ \A id \in d.between : Encloses(RoomCalled(plan, id), d)
  /\ \A name \in DOMAIN plan.spots : \E r \in RoomsOf(plan) : Encloses(r, plan.spots[name])
  /\ \A id \in RoomIds(plan) : DoorsBetween(plan, plan.rooms[1].id, id) # {}

-----------------------------------------------------------------------------
(* The walls. *)

Wall(x0, y0, x1, y1) == [x0 |-> x0, y0 |-> y0, x1 |-> x1, y1 |-> y1]
Edges(r) ==
  LET right == r.x + r.width
      bottom == r.y + r.depth
  IN {Wall(r.x, r.y, right, r.y), Wall(r.x, bottom, right, bottom),
      Wall(r.x, r.y, r.x, bottom), Wall(right, r.y, right, bottom)}

(* A wall runs along one axis and stands at one place of the other.          *)
Along(w, p) == IF w.y0 = w.y1 THEN p.x ELSE p.y
Off(w, p) == IF w.y0 = w.y1 THEN p.y - w.y0 ELSE p.x - w.x0
StartOf(w) == IF w.y0 = w.y1 THEN w.x0 ELSE w.y0
EndOf(w) == IF w.y0 = w.y1 THEN w.x1 ELSE w.y1

(* withDoorways: the wall with a gap wherever a door stands on it.           *)
Doorways(w, plan) ==
  {Along(w, d) : d \in {e \in plan.doors : Off(w, e) = 0}} \cap (StartOf(w) + 1)..(EndOf(w) - 1)

Piece(w, from, to) == IF w.y0 = w.y1 THEN Wall(from, w.y0, to, w.y0) ELSE Wall(w.x0, from, w.x0, to)
WithDoorways(w, plan) ==
  LET doors == SetToSortSeq(Doorways(w, plan), <)
      from == <<StartOf(w)>> \o [i \in DOMAIN doors |-> doors[i] + HalfDoor]
      to == [i \in DOMAIN doors |-> doors[i] - HalfDoor] \o <<EndOf(w)>>
  IN {Piece(w, from[i], to[i]) : i \in {k \in DOMAIN to : to[k] > from[k]}}

(* wallsOf: every room's four walls. *)
WallsOf(plan) == UNION {UNION {WithDoorways(w, plan) : w \in Edges(r)} : r \in RoomsOf(plan)}

(* A door at the very end of a wall passes the configuration's checks and is *)
(* drawn in none; such plans are left out.                                   *)
ASSUME FloorPlanAssumption ==
  /\ HalfDoor \in Nat \ {0}
  /\ \A plan \in Plans :
       /\ plan.rooms \in Seq(RoomsOf(plan))
       /\ \A r \in RoomsOf(plan) : {r.x, r.y} \subseteq Int /\ {r.width, r.depth} \subseteq Nat
       /\ \A name \in DOMAIN plan.spots : plan.spots[name] \in Points
       /\ IsWhole(plan)
       /\ \A d \in plan.doors : \A id \in d.between :
            \E w \in Edges(RoomCalled(plan, id)) :
              Off(w, d) = 0 /\ Along(w, d) \in (StartOf(w) + 1)..(EndOf(w) - 1)

Drawn == [plan \in Plans |-> WallsOf(plan)]

-----------------------------------------------------------------------------
(* Where a straight way from a to b meets a wall. *)

On(w, p) == Off(w, p) = 0 /\ Along(w, p) \in StartOf(w)..EndOf(w)
RunsAlong(w, a, b) == Off(w, a) = 0 /\ Off(w, b) = 0
Crosses(w, a, b) ==
  LET rise == Off(w, b) - Off(w, a)
      cut == Along(w, a) * rise - (Along(w, b) - Along(w, a)) * Off(w, a)
  IN /\ Off(w, a) * Off(w, b) <= 0 /\ rise # 0
     /\ IF rise > 0 THEN cut \in (StartOf(w) * rise)..(EndOf(w) * rise)
                    ELSE cut \in (EndOf(w) * rise)..(StartOf(w) * rise)
=============================================================================
