------------------------- MODULE MCFaultBankThreads -------------------------
(***************************************************************************)
(* threads: FaultBankThreads on the sensor control runs on and its direct  *)
(* test D1.                                                                *)
(*                                                                         *)
(* desk: FaultDesk on two faults of that sensor and one of the air         *)
(* conditioner, of which three come or go, while the diagnoser, the        *)
(* console or a page fails; and three injections, while the console and    *)
(* the plant do.                                                           *)
(***************************************************************************)
EXTENDS FaultBankThreads, FaultDesk

CONSTANTS room, ac

VARIABLE part  \* bound: which of the two

MCSensors     == {room}
MCDirectTests == {"D1"}
MCDirectOnly  == {[detector |-> "D1", subject |-> room]}

KeyIs(d, s) == [detector |-> d, subject |-> s]
MCKeyOf     == [f1 |-> KeyIs("D1", room), f2 |-> KeyIs("D5", ac), f3 |-> KeyIs("D1", room)]
MCFaultIds  == DOMAIN MCKeyOf
MCSubjects  == {room, ac}

Calm == [findings |-> 0, injections |-> 0, restarts |-> 0, cuts |-> 0, visits |-> 0, operator |-> FALSE, frail |-> {}]
MCPlots == {
  Calm,
  [Calm EXCEPT !.findings = 3, !.restarts = 1, !.frail = {"diagnoser"}],
  [Calm EXCEPT !.findings = 3, !.restarts = 1, !.operator = TRUE, !.frail = {"console"}],
  [Calm EXCEPT !.findings = 3, !.restarts = 1, !.cuts = 1, !.frail = {"console"}],
  [Calm EXCEPT !.findings = 3, !.visits = 2, !.cuts = 1, !.frail = {"page"}],
  [Calm EXCEPT !.injections = 3, !.restarts = 1, !.cuts = 1, !.operator = TRUE, !.frail = {"console", "plant"}]}

BothInit ==
  /\ Init /\ DeskInit
  /\ \/ part = "threads" /\ plot = Calm
     \/ part = "desk" /\ plot # Calm

BothNext ==
  \/ part = "threads" /\ Next /\ UNCHANGED <<deskVars, part>>
  \/ part = "desk" /\ DeskNext /\ UNCHANGED <<vars, part>>

(* Fairness, of the two threads where they run. *)
BothSpec ==
  /\ BothInit /\ [][BothNext]_<<vars, deskVars, part>>
  /\ WF_vars(part = "threads" /\ MainStep) /\ WF_vars(part = "threads" /\ NetStep)
  /\ DeskFairness
=============================================================================
