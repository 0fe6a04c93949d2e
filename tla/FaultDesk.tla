----------------------------- MODULE FaultDesk -----------------------------
(***************************************************************************)
(* What a person is told of a fault: from the bank that holds it, over the *)
(* diagnoser that explains it, to the console that keeps an inbox and the  *)
(* pages that show it; and the way back, a reset and an injected fault.    *)
(*                                                                         *)
(* The bank is reduced to what it retains on the blackboard: the faults it *)
(* holds and the mode ModeManager decides on (FaultBank has the rest).     *)
(* Each occurrence of a fault has an id of its own.  The console's link to *)
(* the broker, the page's socket to the console and the plant's link may   *)
(* break; what is published while they are down is not heard, and what is  *)
(* retained is delivered again when they are back.  A page whose socket is *)
(* open shows what the console has (ConsolePage).                          *)
(***************************************************************************)
EXTENDS ModeManager, Sequences, SequencesExt, FiniteSets

CONSTANTS
  FaultIds,   \* bound: the occurrences of faults
  KeyOf,      \* the detector and the subject of each
  Subjects,   \* what a fault can be injected at
  Kept,       \* _RECORDS_KEPT and KEEP_INBOX: messages the inbox keeps
  Plots,      \* bound: what may happen, a set of records (PlotType)
  Never

(* How many faults may come or go, and so on; who may restart or be cut off. *)
PlotType == [findings : Nat, injections : Nat, restarts : Nat, cuts : Nat, visits : Nat, operator : BOOLEAN,
             frail : SUBSET {"diagnoser", "console", "page", "plant"}]

ASSUME DeskAssumption ==
  /\ KeyOf \in [FaultIds -> OwnKey]
  /\ Kept \in Nat \ {0} /\ Plots \subseteq PlotType
  /\ FaultIds \cap Mode = {} /\ Never \notin FaultIds \cup Mode \cup {"NONE", "FAULT"}

VARIABLES
  held,       \* bank and broker: the faults it holds, each retained
  occurred,   \* bank: the occurrences there have been
  modeNow,    \* bank and broker: the mode, retained
  explained,  \* broker: the faults with a retained diagnosis
  waiting,    \* diagnoser: _pending
  remembered, \* diagnoser: _explained
  working,    \* diagnoser: the fault put to the language model, or Never
  connected,  \* console: its link to the broker is up
  desk,       \* console: ConsoleState, and the inbox's file
  cut,        \* page: its socket is closed
  view,       \* page: its copy of the console's state
  onMail,     \* page: the inbox is open
  seen,       \* browser: until when mail counts as read
  injected,   \* broker: the retained injection at each subject, or Never
  applied,    \* plant: the subjects at which its adapters fake a fault
  wired,      \* plant: its link to the broker is up
  plot,       \* bound: what may still happen
  lapsed,     \* history: faults retired while the console did not hear
  late,       \* history: faults retired while they were being explained
  deaf,       \* history: the console was restarted over a change of mode
  recalled,   \* history: the last mode the console heard of
  displayed,  \* history: messages shown in an open inbox
  skipped     \* history: messages an inbox opened without its socket lacked

bank == <<held, occurred, modeNow>>
diagnoser == <<waiting, remembered, working>>
browser == <<cut, view, onMail, seen, displayed, skipped>>
plant == <<injected, applied, wired>>
past == <<lapsed, late, deaf, recalled>>
deskVars == <<bank, explained, diagnoser, connected, desk, browser, plant, plot, past>>

Item == [n : Nat, kind : {"mode", "fault"}, about : Mode \cup FaultIds, run : Nat]
Views == [mode : Mode \cup {Never}, faults : SUBSET FaultIds, diagnoses : SUBSET FaultIds,
          injections : SUBSET Subjects, inbox : Seq(Item)]
ViewOf(d) == [mode |-> d.mode, faults |-> d.faults, diagnoses |-> d.diagnoses,
              injections |-> d.injections, inbox |-> d.inbox]
KeysOf(faults) == {KeyOf[f] : f \in faults}

DeskTypeOK ==
  /\ held \subseteq occurred /\ occurred \subseteq FaultIds
  /\ modeNow \in Mode
  /\ explained \subseteq occurred /\ remembered \subseteq occurred
  /\ waiting \in Seq(occurred) /\ working \in occurred \cup {Never}
  /\ ViewOf(desk) \in Views /\ view \in Views
  /\ desk.file = desk.inbox /\ Len(desk.inbox) <= Kept
  /\ {connected, cut, onMail, wired, deaf} \subseteq BOOLEAN
  /\ injected \in [Subjects -> {Never, "NONE", "FAULT"}]
  /\ applied \subseteq Subjects /\ plot \in PlotType
  /\ ~cut => view = ViewOf(desk)
  /\ IsInjective(waiting) /\ seen <= desk.n

DeskInit ==
  /\ held = {} /\ occurred = {} /\ modeNow = "NORMAL"
  /\ explained = {} /\ waiting = <<>> /\ remembered = {} /\ working = Never
  /\ connected = TRUE
  /\ desk = [mode |-> "NORMAL", faults |-> {}, diagnoses |-> {}, injections |-> {},
             inbox |-> <<>>, file |-> <<>>, n |-> 0, run |-> 0]
  /\ cut = FALSE /\ view = ViewOf(desk) /\ onMail = FALSE /\ seen = 0
  /\ injected = [s \in Subjects |-> Never] /\ applied = {} /\ wired = TRUE
  /\ plot \in Plots
  /\ lapsed = {} /\ late = {} /\ deaf = FALSE /\ recalled = "NORMAL"
  /\ displayed = {} /\ skipped = {}

-----------------------------------------------------------------------------
(* The console: what ConsoleState makes of each message. *)

(* deque(maxlen=_RECORDS_KEPT), and .slice(-KEEP_INBOX).                     *)
Trimmed(items) == SubSeq(items, IF Len(items) > Kept THEN Len(items) - Kept + 1 ELSE 1, Len(items))

(* _save_inbox. *)
Saved(before, after) == after

(* Messages for the inbox: each what it is about. *)
MailIn(d, news) ==
  LET Written(i) == [n |-> d.n + i, kind |-> IF news[i] \in Mode THEN "mode" ELSE "fault", about |-> news[i], run |-> d.run]
      items == Trimmed(d.inbox \o [i \in DOMAIN news |-> Written(i)])
  IN [d EXCEPT !.n = @ + Len(news), !.inbox = items, !.file = Saved(d.inbox, items)]

(* A mode is news only if another was known before.                          *)
NewMode(d, m) == IF d.mode \in {Never, m} THEN <<>> ELSE <<m>>
OnMode(d, m) == MailIn([d EXCEPT !.mode = m], NewMode(d, m))

ListFault(d, faults) == [d EXCEPT !.faults = @ \cup faults]

(* Mutant: a diagnosis that comes again is told again. *)
NewDiagnosesAgain(d, faults) == SetToSeq(faults)
NewDiagnoses(d, faults) == SetToSeq(faults \ d.diagnoses)
OnDiagnosis(d, faults) == MailIn([d EXCEPT !.diagnoses = @ \cup faults], NewDiagnoses(d, faults))

(* The empty messages that end a fault and its diagnosis. *)
Withdrawn(d, faults) == [d EXCEPT !.faults = @ \ faults, !.diagnoses = @ \ faults]

OnInjection(d, s, kind) ==
  [d EXCEPT !.injections = IF kind = "FAULT" THEN @ \cup {s} ELSE @ \ {s}]

(* Everything retained, as a console that has just subscribed hears it. *)
Injected == {s \in Subjects : injected[s] = "FAULT"}
Redelivery(d) ==
  MailIn([d EXCEPT !.mode = modeNow, !.faults = @ \cup held, !.diagnoses = @ \cup explained,
                   !.injections = Injected \cup {s \in @ : injected[s] = Never}],
         NewMode(d, modeNow) \o NewDiagnoses(d, explained))

-----------------------------------------------------------------------------
(* The page. *)

(* The effect of the inbox: when it opens or its length changes, everything  *)
(* up to now counts as read.                                                 *)
SeenBy(opens, before, after, now) ==
  IF opens \/ Len(before) # Len(after) THEN now ELSE seen

Numbers(items) == {items[i].n : i \in DOMAIN items}

(* The page has a new state, or is another page, or its socket changed.      *)
Draw(next, mail, broken) ==
  /\ view' = IF broken THEN view ELSE ViewOf(next)
  /\ cut' = broken /\ onMail' = mail
  /\ seen' = IF mail THEN SeenBy(~onMail, view.inbox, view'.inbox, next.n) ELSE seen
  /\ displayed' = IF mail THEN displayed \cup Numbers(view'.inbox) ELSE displayed
  /\ skipped' = IF mail /\ ~onMail THEN skipped \cup (Numbers(next.inbox) \ Numbers(view'.inbox)) ELSE skipped

(* What the console hears, it has at once and the page with it. *)
Hear(next) ==
  /\ desk' = IF connected THEN next ELSE desk
  /\ Draw(desk', onMail, cut)

(* Mail, "unread": what came after the inbox was last read. *)
Unread == {view.inbox[i].n : i \in {k \in DOMAIN view.inbox : view.inbox[k].n > seen}}

(* Modes only a person's reset ends. *)
WaitsOnAPerson == view.mode \in {"DEGRADED_ACTUATOR", "SAFE_HOLD"}

(* Home's card: the mode, and whose sentence stands below it: the last mode  *)
(* message of the inbox, or, without one, the reason of the mode in force.   *)
StatusCard ==
  LET news == {i \in DOMAIN view.inbox : view.inbox[i].kind = "mode"}
  IN [label |-> view.mode,
      said |-> IF view.mode = "NORMAL" \/ news = {} THEN view.mode ELSE view.inbox[Max(news)].about,
      reset |-> WaitsOnAPerson]

(* The faults listed, each with its explanation or "Diagnosing".             *)
ActiveFaults == [f \in view.faults |-> IF f \in view.diagnoses THEN "explained" ELSE "diagnosing"]

(* The numbers beside the pages in the menu. *)
Badges == [mail |-> Cardinality(Unread), faults |-> Cardinality(view.faults)]

(* What an operator is offered on Faults & control, and in the palette: the  *)
(* card clears what is listed as injected, the palette anything.             *)
CardOffers(s, clears) == plot.operator /\ (clears => s \in view.injections)
PaletteOffers == plot.operator

(* Somebody opens the inbox or another page. *)
Visit ==
  /\ plot.visits > 0
  /\ plot' = [plot EXCEPT !.visits = @ - 1]
  /\ Draw(desk, ~onMail, cut)
  /\ UNCHANGED <<bank, explained, diagnoser, connected, desk, plant, past>>

-----------------------------------------------------------------------------
(* The bank. *)

(* The mode that follows, published with the faults. *)
Becomes(faults, reset) == Decide(modeNow, KeysOf(faults), reset, TRUE, FALSE)

Noted(m) == recalled' = IF connected THEN m ELSE recalled

Raise(f) ==
  /\ f \notin occurred /\ KeyOf[f] \notin KeysOf(held) /\ plot.findings > 0
  /\ plot' = [plot EXCEPT !.findings = @ - 1]
  /\ held' = held \cup {f} /\ occurred' = occurred \cup {f}
  /\ modeNow' = Becomes(held', FALSE)
  /\ waiting' = IF f \in remembered \cup ToSet(waiting) THEN waiting ELSE Append(waiting, f)
  /\ Hear(OnMode(ListFault(desk, {f}), modeNow'))
  /\ Noted(modeNow') /\ deaf' = (deaf /\ (~connected \/ modeNow' = recalled))
  /\ UNCHANGED <<explained, remembered, working, connected, plant, lapsed, late>>

(* _withdraw_fault: the explanation goes with the fault.                     *)
Unexplained(faults) == explained \ faults

Retire(faults, reset) ==
  /\ held' = held \ faults
  /\ modeNow' = Becomes(held', reset)
  /\ explained' = Unexplained(faults)
  /\ Hear(OnMode(Withdrawn(desk, faults), modeNow'))
  /\ lapsed' = IF connected THEN lapsed ELSE lapsed \cup faults
  /\ late' = late \cup (faults \cap (ToSet(waiting) \cup {working}))
  /\ Noted(modeNow') /\ deaf' = (deaf /\ (~connected \/ modeNow' = recalled))
  /\ UNCHANGED <<occurred, diagnoser, connected, plant>>

(* A fault is over. *)
Heal(f) ==
  /\ f \in held /\ plot.findings > 0
  /\ plot' = [plot EXCEPT !.findings = @ - 1]
  /\ Retire({f}, FALSE)

(* Reset, pressed on Home, on Faults & control or in the palette: the two    *)
(* latter exist for an operator only, and only an operator's is accepted.    *)
Reset ==
  /\ plot.operator /\ ~cut /\ connected
  /\ StatusCard.reset \/ CardOffers(Never, FALSE) \/ PaletteOffers
  /\ modeNow # "NORMAL" \/ held # {}
  /\ Retire(held, TRUE)
  /\ UNCHANGED plot

-----------------------------------------------------------------------------
(* The diagnoser. *)

Diagnose ==
  /\ working = Never /\ waiting # <<>>
  /\ working' = Head(waiting) /\ waiting' = Tail(waiting)
  /\ remembered' = remembered \cup {Head(waiting)}
  /\ UNCHANGED <<bank, explained, connected, desk, browser, plant, plot, past>>

(* Mutant: what the model did not answer is not told. *)
ToldIfAnswered(answered) == answered
(* A generic sentence stands in for an answer that failed (_generic).        *)
Told(answered) == TRUE

Explain(answered) ==
  /\ working # Never
  /\ working' = Never
  /\ explained' = IF Told(answered) THEN explained \cup {working} ELSE explained
  /\ Hear(IF Told(answered) THEN OnDiagnosis(desk, {working}) ELSE desk)
  /\ UNCHANGED <<bank, waiting, remembered, connected, plant, plot, past>>

(* The reasoning process starts again and is handed the retained faults.     *)
RestartDiagnoser ==
  /\ plot.restarts > 0 /\ "diagnoser" \in plot.frail
  /\ plot' = [plot EXCEPT !.restarts = @ - 1]
  /\ waiting' = SetToSeq(held) /\ remembered' = {} /\ working' = Never
  /\ UNCHANGED <<bank, explained, connected, desk, browser, plant, past>>

-----------------------------------------------------------------------------
(* Injected faults. *)

(* clear: an injection of NONE, retained. *)
Cleared == "NONE"

(* An operator injects a fault or clears one.                                *)
Inject(s, clears) ==
  /\ plot.operator /\ plot.injections > 0 /\ ~cut /\ connected
  /\ CardOffers(s, clears) \/ PaletteOffers
  /\ plot' = [plot EXCEPT !.injections = @ - 1]
  /\ injected' = [injected EXCEPT ![s] = IF clears THEN Cleared ELSE "FAULT"]
  /\ Hear(OnInjection(desk, s, injected'[s]))
  /\ applied' = IF wired /\ injected'[s] # Never THEN (IF clears THEN applied \ {s} ELSE applied \cup {s}) ELSE applied
  /\ UNCHANGED <<bank, explained, diagnoser, connected, wired, past>>

(* What the adapters make of the injections they are handed on joining.      *)
AppliedOnJoining(before) ==
  Injected \cup {s \in before : injected[s] = Never}

PlantCut ==
  /\ wired /\ plot.cuts > 0 /\ "plant" \in plot.frail
  /\ plot' = [plot EXCEPT !.cuts = @ - 1]
  /\ wired' = FALSE
  /\ UNCHANGED <<bank, explained, diagnoser, connected, desk, browser, injected, applied, past>>

PlantJoin ==
  /\ ~wired /\ wired' = TRUE
  /\ applied' = AppliedOnJoining(applied)
  /\ UNCHANGED <<bank, explained, diagnoser, connected, desk, browser, injected, plot, past>>

(* New adapters fake nothing until they are told. *)
PlantRestart ==
  /\ plot.restarts > 0 /\ "plant" \in plot.frail
  /\ plot' = [plot EXCEPT !.restarts = @ - 1]
  /\ applied' = {} /\ wired' = FALSE
  /\ UNCHANGED <<bank, explained, diagnoser, connected, desk, browser, injected, past>>

-----------------------------------------------------------------------------
(* Broken links, and the console's restart. *)

DeskCut ==
  /\ connected /\ plot.cuts > 0 /\ "console" \in plot.frail
  /\ plot' = [plot EXCEPT !.cuts = @ - 1]
  /\ connected' = FALSE
  /\ UNCHANGED <<bank, explained, diagnoser, desk, browser, plant, past>>

DeskJoin ==
  /\ ~connected /\ connected' = TRUE
  /\ desk' = Redelivery(desk)
  /\ Draw(desk', onMail, cut)
  /\ recalled' = modeNow
  /\ deaf' = IF desk.mode = Never THEN deaf \/ modeNow # recalled ELSE deaf /\ modeNow = desk.mode
  /\ UNCHANGED <<bank, explained, diagnoser, plant, plot, lapsed, late>>

(* A console that starts has its inbox, and its pages have lost it. *)
DeskRestart ==
  /\ plot.restarts > 0 /\ "console" \in plot.frail
  /\ plot' = [plot EXCEPT !.restarts = @ - 1]
  /\ connected' = FALSE
  /\ desk' = [desk EXCEPT !.mode = Never, !.faults = {}, !.diagnoses = {}, !.injections = {},
                          !.inbox = desk.file, !.run = @ + 1]
  /\ lapsed' = {}
  /\ Draw(desk', onMail, TRUE)
  /\ UNCHANGED <<bank, explained, diagnoser, plant, late, deaf, recalled>>

PageCut ==
  /\ ~cut /\ plot.cuts > 0 /\ "page" \in plot.frail
  /\ plot' = [plot EXCEPT !.cuts = @ - 1]
  /\ Draw(desk, onMail, TRUE)
  /\ UNCHANGED <<bank, explained, diagnoser, connected, desk, plant, past>>

PageJoin ==
  /\ cut
  /\ Draw(desk, onMail, FALSE)
  /\ UNCHANGED <<bank, explained, diagnoser, connected, desk, plant, plot, past>>

DeskNext ==
  \/ \E f \in FaultIds : Raise(f) \/ Heal(f)
  \/ Reset \/ Visit
  \/ Diagnose \/ RestartDiagnoser
  \/ \E answered \in BOOLEAN : Explain(answered)
  \/ \E s \in Subjects, clears \in BOOLEAN : Inject(s, clears)
  \/ PlantCut \/ PlantJoin \/ PlantRestart
  \/ DeskCut \/ DeskJoin \/ DeskRestart \/ PageCut \/ PageJoin

(* The diagnoser's thread runs, the language model answers or fails, and     *)
(* links come back: as long as one of these is due, one of them happens.     *)
Due == Diagnose \/ PageJoin \/ DeskJoin \/ \E answered \in BOOLEAN : Explain(answered)
DeskFairness == WF_deskVars(Due)

DeskSpec == DeskInit /\ [][DeskNext]_deskVars /\ DeskFairness

-----------------------------------------------------------------------------
(* Properties. *)

(* Whatever is wrong is listed, and what is listed or explained is wrong,    *)
(* except a fault that ended unheard or while it was being explained.        *)
ListedIsWrong ==
  /\ connected => held \subseteq desk.faults /\ desk.faults \subseteq held \cup lapsed
  /\ explained \subseteq held \cup late

(* A fault is explained once: no run of the console mails the same twice,    *)
(* unless the fault ended while it was being explained again.                *)
ExplainedOnce ==
  \A i, j \in DOMAIN desk.inbox :
    desk.inbox[i].kind = "fault" /\ desk.inbox[i].about \notin late /\ i # j =>
      desk.inbox[i].about # desk.inbox[j].about \/ desk.inbox[i].run # desk.inbox[j].run

(* The sentence on Home is the one of the mode it stands under, unless the   *)
(* mode changed while the console was being restarted: no message was kept.  *)
StatusSaysItsMode == (~cut /\ ~deaf /\ view.mode # Never) => StatusCard.said = StatusCard.label

(* Mail counts as read once it was on the screen, and not before, as long as *)
(* the inbox is not full and was not opened without a socket.                *)
ReadMeansShown ==
  /\ onMail /\ ~cut /\ Len(view.inbox) < Kept => Badges.mail = 0
  /\ \A i \in DOMAIN view.inbox : view.inbox[i].n \in Unread \cup displayed \cup skipped
  /\ Len(view.inbox) < Kept => Unread \cap displayed = {}

(* The console lists, and the plant fakes, exactly the faults the blackboard *)
(* says are injected, whichever link broke in between.                       *)
InjectionsAgree ==
  /\ connected => desk.injections = Injected
  /\ wired => applied = Injected

(* Every fault that lasts is explained on the page. *)
EveryFaultIsExplained ==
  \A f \in FaultIds : f \in held ~> f \notin held \/ (f \in DOMAIN ActiveFaults /\ ActiveFaults[f] = "explained" /\ Badges.faults > 0)

(* The console and the pages say of the faults what is true of them: what  *)
(* is wrong is listed and what is listed is wrong, a fault is explained    *)
(* once, the sentence on Home is the one of the mode it stands under, mail *)
(* counts as read once it was on the screen, and the injections listed are *)
(* the ones the plant fakes (console/state.py, Faults.tsx, Mail.tsx,       *)
(* Home.tsx).                                                              *)
DeskIsTrue ==
  /\ DeskTypeOK
  /\ ListedIsWrong
  /\ ExplainedOnce
  /\ StatusSaysItsMode
  /\ ReadMeansShown
  /\ InjectionsAgree
=============================================================================
