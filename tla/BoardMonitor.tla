---------------------------- MODULE BoardMonitor ----------------------------
(***************************************************************************)
(* What the console knows of the services and the topics: only what it has *)
(* heard.  The console keeps a row per topic (state.py, _on_board), a page *)
(* keeps a copy (useConsole.tsx), and the pages Services, Overview, How it *)
(* works, Topics and MQTT board tell from the age of the rows who is       *)
(* alive, and from the guide who writes what.                              *)
(*                                                                         *)
(* The services are reduced to when they speak.  The simulator measures    *)
(* every 5 s and the air outside every 60 s; the estimator speaks when a   *)
(* reading follows another by 5 s, or on its own while the sensor is       *)
(* faulted (FR-27); speech restates its status; anybody else speaks when   *)
(* there is something to say.  One Tick is 5 seconds.                      *)
(***************************************************************************)
EXTENDS TopicCards, FiniteSets, FiniteSetsExt

CONSTANTS
  Scenes      \* bound: what may happen, a set of records (SceneType)

Actors == DOMAIN Services \cup {"devices", "cli"}
Unit == 5             \* seconds in a tick
Outdoors == 12        \* ticks between outdoor readings (outdoor_period_s)
Patience == 4         \* ticks of silence D1 calls a dropout
Settled == Outdoors + 2

(* Who runs, who may die, what else may be said, how often each may fail,    *)
(* and how many seconds the browser's clock is ahead of the console's.       *)
SceneType == [skew : Int, running : SUBSET Actors, mortal : SUBSET Actors, says : SUBSET Writes,
              deaths : Nat, words : Nat, restarts : Nat, cuts : Nat]

ASSUME BoardAssumption == Scenes \subseteq SceneType

VARIABLES
  running,    \* the services that are up
  waited,     \* ticks since each of them spoke by the clock
  est,        \* estimator: what it has to predict from
  distrusted, \* broker: the retained health of the indoor sensor says FAULTED
  kept,       \* broker: the topics with a retained message
  rows,       \* console: age in ticks of the last message of each topic heard
  shown,      \* page: its copy of the rows
  linked,     \* page: its socket is open
  scene,      \* bound: what may still happen
  writer,     \* history: who last wrote on each topic
  calm        \* history: ticks since anything started, died or was cut

services == <<running, waited, est, distrusted>>
boardVars == <<running, waited, est, distrusted, kept, rows, shown, linked, scene, writer, calm>>

Indoor == <<"sensor", "indoor", "state">>
Outdoor == <<"sensor", "outdoor", "state">>
Relay == <<"actuator", "x", "state">>
Thermal == <<"estimate", "thermal">>
Status == <<"speech", "status">>
Topics == AllTopics \cup {Indoor, Outdoor}
Clocks == {"simulator", "outdoor", "estimator", "speech"}
Period == [simulator |-> 1, outdoor |-> Outdoors, estimator |-> 1, speech |-> 3]
Timed == {s \in {"simulator", "estimator", "speech"} : Services[s].cadence > 0}
Nothing == [known |-> FALSE, gap |-> 2, outdoor |-> FALSE, open |-> FALSE, owes |-> FALSE]

(* Ages are told apart up to the one at which the slowest is silent.         *)
Oldest == 2 + 12 * (Max({5} \cup {Services[s].cadence : s \in scene.running \cap Timed}) \div Unit)
(* useNow: time passes for every row. *)
Older(ages) == [t \in DOMAIN ages |-> Min({ages[t] + 1, Oldest})]

RowsType(ages) == DOMAIN ages \subseteq Topics /\ \A t \in DOMAIN ages : ages[t] \in 0..Oldest

BoardTypeOK ==
  /\ running \subseteq Actors
  /\ waited \in [Clocks -> 0..Outdoors]
  /\ est \in [known : BOOLEAN, gap : 0..2, outdoor : BOOLEAN, open : BOOLEAN, owes : BOOLEAN]
  /\ est.gap < 2 => est.known
  /\ kept \subseteq Topics
  /\ RowsType(rows) /\ RowsType(shown)
  /\ kept \subseteq DOMAIN rows
  /\ linked => shown = rows
  /\ distrusted \in BOOLEAN /\ linked \in BOOLEAN
  /\ scene \in SceneType
  /\ DOMAIN writer \subseteq Topics
  /\ calm \in 0..Settled

BoardInit ==
  /\ scene \in Scenes
  /\ running = scene.running
  /\ waited = Period
  /\ est = Nothing
  /\ distrusted = FALSE /\ linked = TRUE
  /\ kept = {} /\ rows = <<>> /\ shown = <<>> /\ writer = <<>>
  /\ calm = 0

-----------------------------------------------------------------------------
(* Hearing. *)

(* Mutant: a message of a topic that has a row leaves the row as it was.     *)
RowedOnce(ages, said) == ages @@ [t \in said |-> 0]
(* _on_board and the page's "mqtt" case: the row is taken out and put back.  *)
Rowed(ages, said) == [t \in said \cup DOMAIN ages |-> IF t \in said THEN 0 ELSE ages[t]]

Retained == {t \in Topics : Retains(t)}

(* One service writes on some topics: the broker keeps what is retained, and *)
(* console and page hear it, the page if it is connected.                    *)
Announce(by, said) ==
  /\ kept' = kept \cup (said \cap Retained)
  /\ rows' = Rowed(rows, said)
  /\ shown' = IF linked THEN Rowed(shown, said) ELSE shown
  /\ writer' = [t \in said \cup DOMAIN writer |-> IF t \in said THEN by ELSE writer[t]]

(* An empty message withdraws a retained one: the row goes, and the page's.  *)
Removed(ages, topic) == [t \in DOMAIN ages \ {topic} |-> ages[t]]
Filtered(ages, topic) == Removed(ages, topic)
Withdraw(topic) ==
  /\ topic \in kept /\ topic \in {<<"fault", "x">>, <<"diagnosis", "x">>, <<"context", "profile", "x">>,
                                  <<"message", "status", "x">>, <<"inject", "x">>}
  /\ kept' = kept \ {topic}
  /\ rows' = Removed(rows, topic)
  /\ shown' = IF linked THEN Filtered(shown, topic) ELSE shown
  /\ UNCHANGED <<services, linked, scene, writer, calm>>

-----------------------------------------------------------------------------
(* Speaking. *)

(* The plant's step: a reading, the air conditioner's state, and once a      *)
(* minute a reading of the air outside.  The estimator predicts if it has    *)
(* the air outside and the reading follows the one before by a step.         *)
Measure ==
  LET outside == waited.outdoor = Outdoors
      learns == "estimator" \in running /\ ~est.open
  IN /\ "simulator" \in running /\ waited.simulator >= Period.simulator
     /\ waited' = [waited EXCEPT !.simulator = 0, !.outdoor = IF outside THEN 0 ELSE @]
     /\ est' = [est EXCEPT !.outdoor = @ \/ ("estimator" \in running /\ outside),
                           !.known = @ \/ learns,
                           !.gap = IF learns THEN 0 ELSE @,
                           !.owes = learns /\ est.gap = 1 /\ est.outdoor]
     /\ Announce("simulator", {Indoor, Relay} \cup (IF outside THEN {Outdoor} ELSE {}))
     /\ UNCHANGED <<running, distrusted, linked, scene, calm>>

(* _publish, in the same callback. *)
Predict ==
  /\ est.owes
  /\ est' = [est EXCEPT !.owes = FALSE]
  /\ Announce("estimator", {Thermal})
  /\ UNCHANGED <<running, waited, distrusted, linked, scene, calm>>

(* tick: the prediction goes on without readings.                            *)
PredictAlone ==
  /\ "estimator" \in running /\ est.open /\ est.outdoor
  /\ waited.estimator >= Period.estimator
  /\ waited' = [waited EXCEPT !.estimator = 0]
  /\ Announce("estimator", {Thermal})
  /\ UNCHANGED <<running, est, distrusted, linked, scene, calm>>

(* The detectors' verdict on the indoor sensor, retained, and what the       *)
(* estimator makes of it (_track_indoor_trust).                              *)
Distrust ==
  /\ "detectors" \in running /\ ~distrusted /\ waited.simulator >= Patience
  /\ distrusted' = TRUE
  /\ est' = [est EXCEPT !.open = "estimator" \in running /\ est.known]
  /\ calm' = 0
  /\ Announce("detectors", {<<"sensor", "x", "health">>})
  /\ UNCHANGED <<running, waited, linked, scene>>

Trust ==
  /\ "detectors" \in running /\ distrusted /\ waited.simulator < Patience
  /\ distrusted' = FALSE
  /\ est' = IF est.open THEN [est EXCEPT !.open = FALSE, !.known = FALSE, !.gap = 2] ELSE est
  /\ calm' = 0
  /\ Announce("detectors", {<<"sensor", "x", "health">>})
  /\ UNCHANGED <<running, waited, linked, scene>>

(* The heartbeat of the pipeline (StatusPublisher.heartbeat).                *)
Restate ==
  /\ "speech" \in running /\ waited.speech >= Period.speech
  /\ waited' = [waited EXCEPT !.speech = 0]
  /\ Announce("speech", {Status})
  /\ UNCHANGED <<running, est, distrusted, linked, scene, calm>>

(* Whoever has something to say says it.                                     *)
Say(by, topic) ==
  /\ <<by, topic>> \in scene.says /\ scene.words > 0
  /\ scene' = [scene EXCEPT !.words = @ - 1]
  /\ Announce(by, {topic})
  /\ UNCHANGED <<services, linked, calm>>

(* Five seconds, in which every service that runs speaks in time, and D1     *)
(* notices a silence within a second.                                        *)
Tick ==
  /\ \A s \in {"simulator", "speech"} \cap running : waited[s] < Period[s]
  /\ (est.open /\ est.outdoor) => waited.estimator < Period.estimator
  /\ ~est.owes
  /\ ("detectors" \in running /\ waited.simulator >= Patience) => distrusted
  /\ scene.running # {}
  /\ waited' = [c \in Clocks |-> Min({waited[c] + 1, IF c = "outdoor" THEN Outdoors ELSE Patience})]
  /\ est' = [est EXCEPT !.gap = Min({@ + 1, 2})]
  /\ rows' = Older(rows) /\ shown' = Older(shown)
  /\ calm' = Min({calm + 1, Settled})
  /\ UNCHANGED <<running, distrusted, kept, linked, scene, writer>>

-----------------------------------------------------------------------------
(* Failing. *)

Die(s) ==
  /\ s \in running \cap scene.mortal /\ scene.deaths > 0
  /\ running' = running \ {s}
  /\ est' = IF s = "estimator" THEN Nothing ELSE est
  /\ scene' = [scene EXCEPT !.deaths = @ - 1]
  /\ calm' = 0
  /\ UNCHANGED <<waited, distrusted, kept, rows, shown, linked, writer>>

(* A service that starts speaks at once, if it has what it speaks of.        *)
Revive(s) ==
  /\ s \in scene.mortal \ running
  /\ running' = running \cup {s}
  /\ waited' = [c \in Clocks |-> IF c = s \/ (s = "simulator" /\ c = "outdoor") THEN Period[c] ELSE waited[c]]
  /\ calm' = 0
  /\ UNCHANGED <<est, distrusted, kept, rows, shown, linked, scene, writer>>

(* Mutant: a console that starts hears nothing until somebody speaks.        *)
RedeliveredNever(topics) == <<>>
(* What the broker hands a console that subscribes anew; _on_board takes the *)
(* time it hears it for the time it was said.                                *)
Redelivered(topics) == [t \in topics |-> 0]

RestartConsole ==
  /\ scene.restarts > 0
  /\ scene' = [scene EXCEPT !.restarts = @ - 1]
  /\ rows' = Redelivered(kept)
  /\ linked' = FALSE
  /\ calm' = 0
  /\ UNCHANGED <<services, kept, shown, writer>>

Unlink ==
  /\ linked /\ scene.cuts > 0
  /\ scene' = [scene EXCEPT !.cuts = @ - 1]
  /\ linked' = FALSE
  /\ calm' = 0
  /\ UNCHANGED <<services, kept, rows, shown, writer>>

(* The page's next socket opens with a snapshot.                             *)
Link ==
  /\ ~linked
  /\ linked' = TRUE
  /\ shown' = rows
  /\ UNCHANGED <<services, kept, rows, scene, writer, calm>>

BoardNext ==
  \/ Measure \/ Predict \/ PredictAlone \/ Distrust \/ Trust \/ Restate \/ Tick
  \/ \E w \in Writes : Say(w[1], w[2])
  \/ \E t \in kept : Withdraw(t)
  \/ \E s \in scene.mortal : Die(s) \/ Revive(s)
  \/ RestartConsole \/ Unlink \/ Link

(* Clocks run and the page reconnects; nobody needs to say, die or return.   *)
BoardFairness ==
  /\ WF_boardVars(Measure \/ Predict \/ PredictAlone \/ Distrust \/ Trust \/ Restate \/ Tick)
  /\ WF_boardVars(Link)
BoardSpec == BoardInit /\ [][BoardNext]_boardVars /\ BoardFairness

-----------------------------------------------------------------------------
(* What the pages say. *)

(* topicsOf: the rows that a service is judged by.                           *)
Attributed == [s \in DOMAIN Services |->
  {t \in Topics : \E p \in Services[s].publishes : TopicMatches(p, t)}]
RowsOf(service) == DOMAIN shown \cap Attributed[service]

(* Seconds since its latest message, by the browser's clock.                 *)
Since(service) == Min({shown[t] : t \in RowsOf(service)}) * Unit + scene.skew

Word(service) ==
  LET cadence == Services[service].cadence
  IN IF RowsOf(service) = {} THEN IF cadence = 0 THEN "nothing yet" ELSE "not heard"
     ELSE IF cadence = 0 THEN "on change"
     ELSE IF Since(service) <= 3 * cadence THEN "live"
     ELSE IF Since(service) <= 12 * cadence THEN "late"
     ELSE "silent"

(* Topics: what the guide's page of each topic lists.                        *)
Described == [i \in DOMAIN TopicDocs |-> {t \in Topics : TopicMatches(TopicDocs[i].pattern, t)}]
Live(i) == DOMAIN shown \cap Described[i]

(* Whether it says that nothing has been published since the broker started. *)
NeverHeard(i) == Live(i) = {} /\ TopicDocs[i].retained

(* MQTT board, "from": the service whose pattern the topic matches.          *)
From(topic) == {s \in DOMAIN Services : topic \in Attributed[s]}

-----------------------------------------------------------------------------
(* Properties. *)

(* The estimator speaks of readings, or of the model alone.                  *)
CanSpeak(service) == service = "estimator" => "simulator" \in running \/ (est.open /\ est.outdoor)

(* Nobody who works is accused: once everything has been up for a minute,    *)
(* each service with a clock of its own that runs is shown live, on a page   *)
(* whose clock is right to a few seconds.                                    *)
NobodyAliveIsAccused ==
  (linked /\ calm = Settled) =>
    \A s \in Timed \cap running : CanSpeak(s) => Word(s) = "live"

(* A service with a clock that is gone for good is shown so in the end, also *)
(* though others write on its topics and the broker repeats its last words.  *)
DeathIsShown ==
  <>[](\A s \in (Timed \cap scene.mortal) \ running : linked /\ Word(s) \in {"silent", "not heard"})

(* The guide's page of a retained topic says that nothing was published on   *)
(* it only while the broker keeps nothing.                                   *)
SilenceIsTrue ==
  linked => \A i \in DOMAIN TopicDocs :
    NeverHeard(i) => kept \cap Described[i] = {}

(* What the guide leaves out, and the writers it does not name.              *)
Unguided == {<<"message", "incoming">>, <<"message", "status", "x">>, <<"speech", "settings">>, <<"assist", "google">>}
Unnamed == {<<"devices", <<"device", "x", "manifest">>>>, <<"devices", <<"device", "x", "availability">>>>,
            <<"simulator", <<"device", "x", "availability">>>>, <<"devices", <<"device", "x", "state">>>>,
            <<"device_services", <<"assist", "proposed">>>>, <<"cli", <<"goal", "proposed">>>>,
            <<"cli", <<"context", "preference">>>>, <<"cli", <<"context", "ambient">>>>}

(* TLC evaluates these tables once. *)
Guide == [t \in Topics |-> DocFor(t)]
Drawable == [t \in Topics |-> WellDrawn(t)]
Typed == [t \in Topics |-> WellTaken(t)]

(* Whoever wrote what a row shows is named as its writer by the guide and by *)
(* the board, except where both are known to be incomplete.                  *)
WriterIsNamed ==
  \A t \in DOMAIN shown :
    /\ t \in Unguided <=> Guide[t] = {}
    /\ From(t) = {} <=> t \in Unguided \cup {<<"device", "x", "command">>}
    /\ \A doc \in Guide[t] :
         /\ doc.retained = (t \in Retained)
         /\ linked => writer[t] \in doc.producers \/ <<writer[t], t>> \in Unnamed

(* What the page's walks tell can happen: each step's topic leads to its     *)
(* page and is written by somebody who writes or hears the topic of the step *)
(* before; and every box has its section and its service's dot.              *)
Walked ==
  /\ \A flow \in Flows :
       /\ \A i \in DOMAIN flow : Linked(flow[i])
       /\ \A i \in 1..Len(flow) - 1 :
            \E who \in UNION {c.writers : c \in Contract} :
              /\ <<who, Concrete(flow[i + 1])>> \in Writes
              /\ <<who, Concrete(flow[i])>> \in Writes \/ Hears(who, Concrete(flow[i]))
  /\ Boxes = Sections /\ \A who \in Sections : ServiceSection(who).dot \in DOMAIN Services

(* Whoever the guide or a section says reads a topic hears what is said on   *)
(* it, and whoever the section says writes it does.                          *)
TrueOf == [t \in Topics |->
  /\ \A doc \in Guide[t] : \A who \in doc.consumers : Hears(who, t)
  /\ \A who \in Sections :
       /\ \A doc \in ServiceSection(who).reads : TopicMatches(doc.pattern, t) => Hears(who, t)
       /\ \A doc \in ServiceSection(who).writes : TopicMatches(doc.pattern, t) => <<who, Concrete(doc.pattern)>> \in Writes]

(* "Writes and Reads are taken from the code" (Architecture.tsx): what the   *)
(* guide says of a topic on the board, and the walks it tells, are so.       *)
GuideIsTrue == Walked /\ \A t \in DOMAIN shown : TrueOf[t]

(* What the board shows is drawn as it was meant: a topic of the guide has a *)
(* card, which reads only fields its messages have, asks for words they can  *)
(* hold, and where its last phrase is definite leaves it one word; no value  *)
(* it must have to be drawn may be null.                                     *)
CardsSuitTheirMessages == \A t \in DOMAIN shown : Drawable[t]

(* What the other pages make of it has the fields their types promise them,  *)
(* null only where they expect it, and no word they do not know.             *)
PagesKnowTheirData == \A t \in DOMAIN shown : Typed[t]

(* The board of services tells the truth within the ages it allows: nobody *)
(* who works is accused, and a topic is called silent only while the       *)
(* broker keeps nothing on it (services.ts, state.py).                     *)
BoardIsTrue ==
  /\ BoardTypeOK
  /\ NobodyAliveIsAccused
  /\ SilenceIsTrue

(* The page's tables agree with the services they describe: the writer    *)
(* named for a topic is one, the guide says of the topic what its readers *)
(* and writers do, a card reads only what the message it draws has, and   *)
(* the other pages know the words they are given (docs.ts, services.ts,   *)
(* renderers.tsx, types.ts against the publishers and subscribers).       *)
TablesAgree ==
  /\ WriterIsNamed
  /\ GuideIsTrue
  /\ CardsSuitTheirMessages
  /\ PagesKnowTheirData
=============================================================================
