------------------------------ MODULE GoalPath ------------------------------
(***************************************************************************)
(* The goal path of the control process: what an occupant, an operator or  *)
(* the supervisor proposes, the goal manager that arbitrates and pursues   *)
(* (src/src/control/goal_manager.py), and the rules V-1, V-2 and V-6 every *)
(* proposal passes (validator.py, GoalValidator).                          *)
(*                                                                         *)
(* Proposals are heard on the network thread; the main thread's tick       *)
(* proposes a part-granted preference again.  Both run the same code on    *)
(* the same fields without a lock, so a step is one read or write of them. *)
(* Temperatures are integers in units of the smallest step asked for.      *)
(***************************************************************************)
EXTENDS Integers

CONSTANTS
  Low, High,    \* validator.setpoint_bounds_c (V-1)
  MaxStep,      \* validator.max_step_c (V-2)
  ComfortStep,  \* goals.comfort_step_c: "cooler" and "warmer"
  Default,      \* controller.default_setpoint_c
  Asked,        \* the temperatures proposers name
  Pursuits,     \* pursue intervals in goals.preference_ttl_s
  None          \* Python's None

ASSUME GoalAssumption ==
  /\ Low \in Int /\ High \in Int /\ Low <= High
  /\ MaxStep \in Nat \ {0} /\ ComfortStep \in Nat
  /\ Default \in Low..High
  /\ Asked \subseteq Int
  /\ Pursuits \in Nat
  /\ None \notin Int

VARIABLES
  paced,      \* validator.pace_occupant, as configured
  applied,    \* GoalValidator._applied_setpoint_c
  holding,    \* GoalManager.preference_holding
  pursuing,   \* GoalManager._pursuing, as the temperature it asks for
  stamp,      \* GoalManager._last_pursued_s: unset, recent or an interval ago
  left,       \* pursuits before the preference expires
  pc,         \* where each thread is
  hand,       \* the goal each thread has in hand
  shown,      \* broker: the setpoint of the retained goal
  adopted,    \* history: whether this process has published a goal
  wanted,     \* history: what the occupant asked for, if it was asked last and
              \* in order
  overlapped  \* history: whether this process has had both threads in here

managerVars == <<holding, pursuing, stamp, left>>
vars == <<paced, applied, managerVars, pc, hand, shown, adopted, wanted, overlapped>>

Thread == {"net", "main"}
Source == {"SUPERVISOR", "OPERATOR", "PREFERENCE", "DEFAULT"}
Pc == {"idle", "stamp", "pursue", "judge", "up", "down", "assign", "settle", "show"}

(* A goal in hand: who proposes it, the setpoint proposed and then granted, *)
(* and whether V-2 had a part in that.                                     *)
Goal == [source : Source, setpoint : Int, limited : BOOLEAN]
Propose(source, asked) == [source |-> source, setpoint |-> asked, limited |-> FALSE]
NoGoal == Propose("DEFAULT", Default)

TypeOK ==
  /\ paced \in BOOLEAN /\ applied \in Int
  /\ holding \in BOOLEAN /\ pursuing \in Int \cup {None}
  /\ stamp \in {"unset", "recent", "due"} /\ left \in 0..Pursuits
  /\ pc \in [Thread -> Pc] /\ hand \in [Thread -> Goal]
  /\ shown \in Int \cup {None} /\ adopted \in BOOLEAN
  /\ wanted \in Int \cup {None} /\ overlapped \in BOOLEAN

Idle == [t \in Thread |-> "idle"]
Empty == [t \in Thread |-> NoGoal]

Init ==
  /\ paced \in BOOLEAN
  /\ applied = Default
  /\ holding = FALSE /\ pursuing = None /\ stamp = "unset" /\ left = 0
  /\ pc = Idle /\ hand = Empty
  /\ shown = None /\ adopted = FALSE
  /\ wanted = None /\ overlapped = FALSE

----------------------------------------------------------------------------
(* The rules. *)

(* V-1. *)
BoundedAbove(asked) == IF asked > High THEN High ELSE asked
Bounded(asked) == IF asked < Low THEN Low ELSE IF asked > High THEN High ELSE asked

(* V-2 is for what the system proposes itself. *)
OnlySupervisor(goal) == goal.source = "SUPERVISOR" \/ paced
Paced(goal) == goal.source # "PREFERENCE" \/ paced

Within(asked) == asked - applied <= MaxStep /\ applied - asked <= MaxStep

(* One step from the setpoint in force, which is read a second time. *)
OneStep(way) == IF way = "up" THEN applied + MaxStep ELSE applied - MaxStep

----------------------------------------------------------------------------
(* Steps. *)

Goes(t, to) == pc' = [pc EXCEPT ![t] = to]
Holds(t, goal) == hand' = [hand EXCEPT ![t] = goal]

Enters(t, to) ==
  /\ pc[t] = "idle"
  /\ Goes(t, to)
  /\ overlapped' = (overlapped \/ \E o \in Thread \ {t} : pc[o] # "idle")

Wants(asked) == wanted' = IF overlapped' THEN None ELSE asked

(* _on_goal: a supervisor is refused while a preference holds, which       *)
(* leaves everything as it is.                                             *)
AdmitsAll(source) == TRUE
Admits(source) == source = "SUPERVISOR" => ~holding

OnGoal(source, asked) ==
  /\ Admits(source)
  /\ Enters("net", "judge")
  /\ Holds("net", Propose(source, asked))
  /\ Wants(None)
  /\ UNCHANGED <<paced, applied, managerVars, shown, adopted>>

(* _on_preference: a temperature, or a step from the one in force.  The    *)
(* goal to pursue is kept first and its time after it.                     *)
OnPreference(asked) ==
  /\ Enters("net", "stamp")
  /\ holding' = TRUE
  /\ pursuing' = asked /\ left' = Pursuits
  /\ Holds("net", Propose("PREFERENCE", asked))
  /\ Wants(asked)
  /\ UNCHANGED <<paced, applied, stamp, shown, adopted>>

Stamp ==
  /\ pc["net"] = "stamp"
  /\ stamp' = "recent"
  /\ Goes("net", "judge")
  /\ UNCHANGED <<paced, applied, holding, pursuing, left, hand, shown, adopted,
                 wanted, overlapped>>

(* "Back to automatic". *)
OnRelease ==
  /\ Enters("net", "judge")
  /\ holding' = FALSE /\ pursuing' = None /\ stamp' = "unset" /\ left' = 0
  /\ Holds("net", Propose("DEFAULT", Default))
  /\ Wants(None)
  /\ UNCHANGED <<paced, applied, shown, adopted>>

(* next_pursuit finds something to pursue ... *)
StartPursuit ==
  /\ pursuing # None /\ stamp # "unset"
  /\ Enters("main", "pursue")
  /\ Wants(wanted)
  /\ UNCHANGED <<paced, applied, managerVars, hand, shown, adopted>>

(* ... which is proposed again, ...                                        *)
Expired == left = 0

Pursue ==
  /\ pc["main"] = "pursue"
  /\ pursuing # None /\ stamp = "due" /\ ~Expired
  /\ stamp' = "recent" /\ left' = left - 1
  /\ Holds("main", Propose("PREFERENCE", pursuing))
  /\ Goes("main", "judge")
  /\ UNCHANGED <<paced, applied, holding, pursuing, shown, adopted, wanted, overlapped>>

(* ... or is not due yet, or has expired.                                  *)
NotNow ==
  /\ pc["main"] = "pursue"
  /\ pursuing # None /\ stamp # "unset"
  /\ Expired \/ stamp = "recent"
  /\ pursuing' = IF Expired THEN None ELSE pursuing
  /\ Goes("main", "idle")
  /\ UNCHANGED <<paced, applied, holding, stamp, left, hand, shown, adopted, wanted, overlapped>>

----------------------------------------------------------------------------
(* _adopt, which either thread may be running.                             *)

(* A goal too old, or past its own expiry, leaves the setpoint as it is (V-6). *)
Stale(t) ==
  /\ pc[t] = "judge"
  /\ hand[t].source \in {"SUPERVISOR", "OPERATOR"}
  /\ Goes(t, "show")
  /\ UNCHANGED <<paced, applied, managerVars, hand, shown, adopted, wanted, overlapped>>

Judge(t) ==
  LET asked == Bounded(hand[t].setpoint) IN
  /\ pc[t] = "judge"
  /\ Holds(t, [hand[t] EXCEPT !.setpoint = asked])
  /\ Goes(t, IF ~Paced(hand[t]) \/ Within(asked) THEN "assign"
             ELSE IF asked > applied THEN "up" ELSE "down")
  /\ UNCHANGED <<paced, applied, managerVars, shown, adopted, wanted, overlapped>>

Limit(t) ==
  /\ pc[t] \in {"up", "down"}
  /\ Holds(t, [hand[t] EXCEPT !.setpoint = OneStep(pc[t]),
                              !.limited = OneStep(pc[t]) # hand[t].setpoint])
  /\ Goes(t, "assign")
  /\ UNCHANGED <<paced, applied, managerVars, shown, adopted, wanted, overlapped>>

Assign(t) ==
  /\ pc[t] = "assign"
  /\ applied' = hand[t].setpoint
  /\ Goes(t, "settle")
  /\ UNCHANGED <<paced, managerVars, hand, shown, adopted, wanted, overlapped>>

(* Only a rate limit leaves anything to pursue. *)
SettledByAny(goal) == goal.source = "PREFERENCE"
SettledBy(goal) == goal.source = "PREFERENCE" /\ ~goal.limited

Settle(t) ==
  /\ pc[t] = "settle"
  /\ pursuing' = IF SettledBy(hand[t]) THEN None ELSE pursuing
  /\ Goes(t, "show")
  /\ UNCHANGED <<paced, applied, holding, stamp, left, hand, shown, adopted, wanted, overlapped>>

(* The goal published says what is in force, which is not what was         *)
(* proposed.  It is built and published in one step here.                  *)
InForce(goal) == applied

Show(t) ==
  /\ pc[t] = "show"
  /\ shown' = InForce(hand[t]) /\ adopted' = TRUE
  /\ Holds(t, NoGoal) /\ Goes(t, "idle")
  /\ UNCHANGED <<paced, applied, managerVars, wanted, overlapped>>

Adopt(t) ==
  Stale(t) \/ Judge(t) \/ Limit(t) \/ Assign(t) \/ Settle(t) \/ Show(t)

----------------------------------------------------------------------------
(* Time passes. *)
HoldLapses ==
  /\ holding
  /\ holding' = FALSE
  /\ UNCHANGED <<paced, applied, pursuing, stamp, left, pc, hand, shown, adopted,
                 wanted, overlapped>>

ComesDue ==
  /\ stamp = "recent"
  /\ stamp' = "due"
  /\ UNCHANGED <<paced, applied, holding, pursuing, left, pc, hand, shown, adopted,
                 wanted, overlapped>>

(* A process killed at any moment starts with what it is configured with;  *)
(* the retained goal is the one the last process published.                *)
Boot ==
  /\ applied' = Default
  /\ holding' = FALSE /\ pursuing' = None /\ stamp' = "unset" /\ left' = 0
  /\ pc' = Idle /\ hand' = Empty
  /\ adopted' = FALSE /\ wanted' = None /\ overlapped' = FALSE
  /\ UNCHANGED <<paced, shown>>

(* What next_pursuit found a moment ago is gone: the tick raises, and the  *)
(* process is restarted.                                                   *)
TickDies ==
  /\ pc["main"] = "pursue"
  /\ pursuing = None \/ stamp = "unset"
  /\ Boot

Hear ==
  \/ \E source \in {"SUPERVISOR", "OPERATOR"}, asked \in Asked : OnGoal(source, asked)
  \/ \E asked \in Asked \cup {applied - ComfortStep, applied + ComfortStep} : OnPreference(asked)
  \/ OnRelease

Handle == Stamp \/ Adopt("net")
MainStep == StartPursuit \/ Pursue \/ NotNow \/ TickDies \/ Adopt("main")

Next == Hear \/ Handle \/ MainStep \/ HoldLapses \/ ComesDue \/ Boot

(* Both threads run, the tick past its early return (the room has been     *)
(* read), and time passes.                                                 *)
Fairness == WF_vars(Handle) /\ WF_vars(MainStep) /\ WF_vars(ComesDue)

Spec == Init /\ [][Next]_vars
FairSpec == Spec /\ Fairness

----------------------------------------------------------------------------
(* Properties.  Where they name `overlapped` they hold for as long as the  *)
(* two threads have not been in here at the same time.                     *)

(* The setpoint in force never leaves V-1's bounds, although V-2 moves it  *)
(* after V-1 has clamped what was asked (validator.py 104-119).            *)
SetpointInBounds == overlapped \/ applied \in Low..High

(* What the system proposes for itself moves the setpoint by one step of   *)
(* V-2 at most, as everything does where the occupant is paced too.        *)
SystemIsPaced ==
  [][\A t \in Thread : Assign(t) /\ ~overlapped =>
       \/ applied' - applied \in -MaxStep..MaxStep
       \/ ~paced /\ hand[t].source = "PREFERENCE"]_vars

(* For as long as a preference holds, only the occupant and the operator   *)
(* move the setpoint, however the threads interleave: not a supervisor,    *)
(* and not the default of a release that came before (goal_manager.py      *)
(* 155-169).                                                               *)
SupervisorYields ==
  [][holding /\ holding' /\ applied' # applied =>
       \E t \in Thread : /\ pc[t] = "assign"
                         /\ hand[t].source \in {"PREFERENCE", "OPERATOR"}]_vars

(* The retained goal shows the setpoint in force whenever nothing is being *)
(* adopted, once this process has published one (control/service.py        *)
(* 238-251).                                                               *)
ShownIsInForce == pc = Idle /\ ~overlapped /\ adopted => shown = applied

(* What an occupant asks for is reached, within the bounds and one step of *)
(* V-2 at a time where that is configured, unless somebody asks for        *)
(* something else (goal_manager.py 129-153).                               *)
Reachable == Asked \cup ((Low - ComfortStep)..(High + ComfortStep))
RequestIsReached ==
  \A c \in Reachable :
    wanted = c ~> (applied = Bounded(c) \/ wanted # c)

(* While the threads take turns, the setpoint in force keeps the bounds *)
(* and the retained goal is the one in force, whatever was proposed,    *)
(* clamped, granted in part or refused as stale (validator.py,          *)
(* control/service.py).                                                 *)
GoalIsKept ==
  /\ SetpointInBounds
  /\ ShownIsInForce
=============================================================================
