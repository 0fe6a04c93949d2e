----------------------------- MODULE TopicGuide -----------------------------
(***************************************************************************)
(* The topics of the blackboard, in the four places that speak of them:    *)
(* the contract (src/src/common/topics.py), who publishes and hears, the   *)
(* console's guide (src/console/web/src/lib/docs.ts, pages/                *)
(* Architecture.tsx) and its table of services (lib/services.ts).          *)
(*                                                                         *)
(* A topic is the sequence of its levels below "space".  What a topic is   *)
(* about and its fields are left out.                                      *)
(***************************************************************************)
EXTENDS Integers, Sequences

(* Mutant: only "#" stands for anything.                                     *)
TopicMatchesPlainly(want, have) ==
  LET Stops(i) == want[i] = "#" /\ \A j \in 1..(i - 1) : want[j] # "#"
      Same(n) == \A i \in 1..n : i <= Len(have) /\ want[i] = have[i]
  IN \/ \E i \in DOMAIN want : Stops(i) /\ Same(i - 1)
     \/ Len(want) = Len(have) /\ Same(Len(want))

(* matches: "+" is any one level, "#" whatever is left.                      *)
TopicMatches(want, have) ==
  LET Stops(i) == want[i] = "#" /\ \A j \in 1..(i - 1) : want[j] # "#"
      Same(n) == \A i \in 1..n : i <= Len(have) /\ want[i] \in {"+", have[i]}
  IN \/ \E i \in DOMAIN want : Stops(i) /\ Same(i - 1)
     \/ Len(want) = Len(have) /\ Same(Len(want))

(* One topic of a pattern: its parameter, if it has one, is "x".             *)
Concrete(pattern) == [i \in DOMAIN pattern |-> IF pattern[i] = "+" THEN "x" ELSE pattern[i]]

-----------------------------------------------------------------------------
(* The contract, and who publishes on it ("devices" is the bridge,           *)
(* "device_services" whatever src/devices and the MCP bridge run, "cli" the  *)
(* tools): publish calls under src/src, src/sim and src/tools.               *)

Spec1(pattern, qos, retain, writers) ==
  [pattern |-> pattern, qos |-> qos, retain |-> retain, writers |-> writers]

PlantContract == {
  Spec1(<<"sensor", "+", "state">>, 0, FALSE, {"simulator", "devices"}),
  Spec1(<<"sensor", "+", "health">>, 1, TRUE, {"detectors"}),
  Spec1(<<"estimate", "thermal">>, 0, TRUE, {"estimator"}),
  Spec1(<<"estimate", "coefficients">>, 1, TRUE, {"estimator"}),
  Spec1(<<"fault", "+">>, 1, TRUE, {"detectors", "estimator"}),
  Spec1(<<"diagnosis", "+">>, 1, TRUE, {"reasoning", "detectors"}),
  Spec1(<<"system", "mode">>, 1, TRUE, {"detectors"}),
  Spec1(<<"goal", "proposed">>, 1, FALSE, {"reasoning", "cli"}),
  Spec1(<<"goal", "active">>, 1, TRUE, {"control"}),
  Spec1(<<"actuator", "+", "command">>, 1, FALSE, {"control"}),
  Spec1(<<"actuator", "+", "state">>, 1, TRUE, {"simulator", "devices"})}

DeviceContract == {
  Spec1(<<"message", "incoming">>, 1, FALSE, {"console"}),
  Spec1(<<"message", "status", "+">>, 1, TRUE, {"console", "speech"}),
  Spec1(<<"device", "+", "manifest">>, 1, TRUE, {"device_services", "simulator", "devices"}),
  Spec1(<<"device", "+", "availability">>, 1, TRUE, {"device_services", "simulator", "devices"}),
  Spec1(<<"device", "+", "command">>, 1, FALSE, {"assistance"}),
  Spec1(<<"device", "+", "result">>, 1, FALSE, {"device_services"}),
  Spec1(<<"device", "+", "state">>, 1, TRUE, {"device_services", "simulator", "devices"}),
  Spec1(<<"control", "tracking">>, 1, TRUE, {"control"}),
  Spec1(<<"tariff", "state">>, 1, TRUE, {"control"})}

PeopleContract == {
  Spec1(<<"context", "preference">>, 1, FALSE, {"speech", "console", "reasoning", "cli"}),
  Spec1(<<"context", "reply">>, 1, FALSE, {"reasoning"}),
  Spec1(<<"context", "utterance">>, 1, FALSE, {"console"}),
  Spec1(<<"context", "ambient">>, 1, FALSE, {"speech", "cli"}),
  Spec1(<<"speech", "settings">>, 1, TRUE, {"console"}),
  Spec1(<<"speech", "status">>, 1, TRUE, {"speech"}),
  Spec1(<<"context", "profile", "+">>, 1, TRUE, {"assistance"}),
  Spec1(<<"assist", "proposed">>, 1, FALSE, {"reasoning", "console", "device_services"}),
  Spec1(<<"assist", "confirmed">>, 1, FALSE, {"console", "cli"}),
  Spec1(<<"assist", "result">>, 1, FALSE, {"assistance"}),
  Spec1(<<"assist", "catalogue">>, 1, TRUE, {"assistance"}),
  Spec1(<<"assist", "google">>, 1, TRUE, {"assistance"}),
  Spec1(<<"system", "reset">>, 1, FALSE, {"console", "cli"}),
  Spec1(<<"inject", "+">>, 1, TRUE, {"console", "cli"}),
  Spec1(<<"audit", "validation">>, 1, FALSE, {"control"}),
  Spec1(<<"audit", "reasoning">>, 1, FALSE, {"reasoning"})}

Contract == PlantContract \cup DeviceContract \cup PeopleContract
AllTopics == {Concrete(c.pattern) : c \in Contract}
ContractOf(topic) == CHOOSE c \in Contract : TopicMatches(c.pattern, topic)
Writes == UNION {{<<w, Concrete(c.pattern)>> : w \in c.writers} : c \in Contract}

(* _retained: whether the contract retains it; unknown topics are not.       *)
Retains(topic) == \E c \in Contract : TopicMatches(c.pattern, topic) /\ c.retain

-----------------------------------------------------------------------------
(* The guide: TOPIC_DOCS, group by group. *)

Doc(pattern, producers, consumers, retained, qos) ==
  [pattern |-> pattern, producers |-> producers, consumers |-> consumers, retained |-> retained, qos |-> qos]

Sensing == <<
  Doc(<<"sensor", "+", "state">>, {"simulator", "devices"}, {"estimator", "control", "detectors", "reasoning", "console"}, FALSE, 0),
  Doc(<<"sensor", "+", "health">>, {"detectors"}, {"estimator", "console"}, TRUE, 1)>>

Model == <<
  Doc(<<"estimate", "thermal">>, {"estimator"}, {"control", "detectors", "reasoning", "console"}, TRUE, 0),
  Doc(<<"estimate", "coefficients">>, {"estimator"}, {"detectors", "reasoning", "console"}, TRUE, 1)>>

Control == <<
  Doc(<<"goal", "proposed">>, {"reasoning"}, {"control", "console"}, FALSE, 1),
  Doc(<<"goal", "active">>, {"control"}, {"reasoning", "console"}, TRUE, 1),
  Doc(<<"control", "tracking">>, {"control"}, {"reasoning", "console"}, TRUE, 1),
  Doc(<<"tariff", "state">>, {"control"}, {"reasoning", "console"}, TRUE, 1),
  Doc(<<"actuator", "+", "command">>, {"control"}, {"simulator", "devices", "detectors"}, FALSE, 1),
  Doc(<<"actuator", "+", "state">>, {"simulator", "devices"}, {"estimator", "console"}, TRUE, 1)>>

Faults == <<
  Doc(<<"fault", "+">>, {"detectors", "estimator"}, {"estimator", "reasoning", "detectors", "console"}, TRUE, 1),
  Doc(<<"diagnosis", "+">>, {"reasoning", "detectors"}, {"reasoning", "console"}, TRUE, 1),
  Doc(<<"system", "mode">>, {"detectors"}, {"control", "estimator", "reasoning", "console"}, TRUE, 1),
  Doc(<<"system", "reset">>, {"console", "cli"}, {"detectors"}, FALSE, 1),
  Doc(<<"inject", "+">>, {"console", "cli"}, {"simulator", "devices"}, TRUE, 1)>>

Conversing == <<
  Doc(<<"speech", "status">>, {"speech"}, {"console"}, TRUE, 1),
  Doc(<<"context", "ambient">>, {"speech"}, {"reasoning", "console"}, FALSE, 1),
  Doc(<<"context", "utterance">>, {"console"}, {"reasoning"}, FALSE, 1),
  Doc(<<"context", "preference">>, {"speech", "reasoning", "console"}, {"control", "reasoning", "console"}, FALSE, 1),
  Doc(<<"context", "reply">>, {"reasoning"}, {"assistance", "console"}, FALSE, 1),
  Doc(<<"context", "profile", "+">>, {"assistance"}, {"reasoning", "speech", "console"}, TRUE, 1)>>

Tools == <<
  Doc(<<"assist", "proposed">>, {"reasoning", "console"}, {"assistance", "console"}, FALSE, 1),
  Doc(<<"assist", "confirmed">>, {"console", "cli"}, {"assistance"}, FALSE, 1),
  Doc(<<"assist", "result">>, {"assistance"}, {"reasoning", "assistance", "console"}, FALSE, 1),
  Doc(<<"assist", "catalogue">>, {"assistance"}, {"console"}, TRUE, 1)>>

DeviceTopics == <<
  Doc(<<"device", "+", "manifest">>, {"device_services", "simulator"}, {"assistance", "reasoning", "console"}, TRUE, 1),
  Doc(<<"device", "+", "availability">>, {"device_services"}, {"assistance", "console"}, TRUE, 1),
  Doc(<<"device", "+", "command">>, {"assistance"}, {"device_services"}, FALSE, 1),
  Doc(<<"device", "+", "result">>, {"device_services"}, {"assistance"}, FALSE, 1),
  Doc(<<"device", "+", "state">>, {"device_services", "simulator"}, {"console"}, TRUE, 1)>>

Audit == <<
  Doc(<<"audit", "validation">>, {"control"}, {"reasoning", "console"}, FALSE, 1),
  Doc(<<"audit", "reasoning">>, {"reasoning"}, {"console"}, FALSE, 1)>>

TopicDocs == Sensing \o Model \o Control \o Faults \o Conversing \o Tools \o DeviceTopics \o Audit

(* docFor: the first that matches, or none; as a set.                        *)
DocFor(topic) ==
  {TopicDocs[i] : i \in {k \in DOMAIN TopicDocs :
     /\ TopicMatches(TopicDocs[k].pattern, topic)
     /\ \A j \in 1..(k - 1) : ~TopicMatches(TopicDocs[j].pattern, topic)}}

-----------------------------------------------------------------------------
(* The services: what each publishes, and the seconds between its messages,  *)
(* 0 for one that speaks only on change.                                     *)
Services == [
  simulator |-> [publishes |-> {<<"sensor", "+", "state">>, <<"actuator", "+", "state">>}, cadence |-> 5],
  estimator |-> [publishes |-> {<<"estimate", "thermal">>, <<"estimate", "coefficients">>}, cadence |-> 5],
  control |-> [publishes |-> {<<"actuator", "+", "command">>, <<"audit", "validation">>, <<"goal", "active">>,
                              <<"control", "tracking">>, <<"tariff", "state">>}, cadence |-> 5],
  detectors |-> [publishes |-> {<<"sensor", "+", "health">>, <<"fault", "+">>, <<"system", "mode">>}, cadence |-> 0],
  reasoning |-> [publishes |-> {<<"goal", "proposed">>, <<"audit", "reasoning">>, <<"context", "reply">>,
                                <<"diagnosis", "+">>, <<"assist", "proposed">>}, cadence |-> 300],
  assistance |-> [publishes |-> {<<"assist", "result">>, <<"assist", "catalogue">>, <<"context", "profile", "+">>},
                  cadence |-> 30],
  device_services |-> [publishes |-> {<<"device", "+", "manifest">>, <<"device", "+", "availability">>,
                                      <<"device", "+", "state">>, <<"device", "+", "result">>}, cadence |-> 0],
  speech |-> [publishes |-> {<<"speech", "status">>, <<"context", "preference">>, <<"context", "ambient">>},
              cadence |-> 15],
  console |-> [publishes |-> {<<"context", "utterance">>, <<"assist", "confirmed">>, <<"inject", "+">>,
                              <<"system", "reset">>}, cadence |-> 0]]
-----------------------------------------------------------------------------
(* Who hears what: the subscribe calls under src/src and src/sim.            *)
Subscribed == [
  simulator |-> {<<"actuator", "+", "command">>, <<"inject", "+">>},
  devices |-> {<<"actuator", "+", "command">>, <<"inject", "+">>},
  estimator |-> {<<"sensor", "+", "state">>, <<"sensor", "+", "health">>, <<"actuator", "+", "state">>,
                 <<"system", "mode">>, <<"fault", "+">>},
  control |-> {<<"sensor", "+", "state">>, <<"estimate", "thermal">>, <<"system", "mode">>,
               <<"goal", "proposed">>, <<"context", "preference">>},
  detectors |-> {<<"sensor", "+", "state">>, <<"estimate", "thermal">>, <<"estimate", "coefficients">>,
                 <<"actuator", "+", "command">>, <<"system", "reset">>, <<"fault", "+">>},
  reasoning |-> {<<"sensor", "+", "state">>, <<"estimate", "+">>, <<"goal", "active">>, <<"tariff", "state">>,
                 <<"control", "tracking">>, <<"actuator", "+", "state">>, <<"system", "mode">>, <<"fault", "+">>,
                 <<"diagnosis", "+">>, <<"audit", "validation">>, <<"context", "ambient">>,
                 <<"context", "utterance">>, <<"context", "preference">>, <<"context", "profile", "+">>,
                 <<"assist", "result">>, <<"assist", "catalogue">>, <<"device", "+", "manifest">>,
                 <<"device", "+", "availability">>, <<"device", "+", "state">>},
  assistance |-> {<<"assist", "proposed">>, <<"assist", "confirmed">>, <<"assist", "result">>,
                  <<"context", "reply">>, <<"device", "+", "manifest">>, <<"device", "+", "availability">>,
                  <<"device", "+", "result">>},
  device_services |-> {<<"device", "+", "command">>, <<"assist", "result">>, <<"context", "preference">>,
                       <<"context", "reply">>, <<"speech", "status">>},
  speech |-> {<<"context", "profile", "+">>, <<"context", "reply">>, <<"speech", "settings">>,
              <<"system", "mode">>, <<"message", "incoming">>, <<"message", "status", "+">>,
              <<"device", "+", "manifest">>, <<"device", "+", "availability">>, <<"device", "+", "state">>},
  console |-> {<<"#">>}]

Hears(who, topic) == \E want \in Subscribed[who] : TopicMatches(want, topic)

(* topicsOfActor, on the page How it works. *)
TopicsOfActor(who) == [
  produces |-> {d \in {TopicDocs[i] : i \in DOMAIN TopicDocs} : who \in d.producers},
  consumes |-> {d \in {TopicDocs[i] : i \in DOMAIN TopicDocs} : who \in d.consumers}]

(* The page's boxes, each with the dot of its service, and its sections.     *)
Layers == {{"reasoning"}, {"detectors"}, {"estimator", "control"},
           {"simulator", "speech", "assistance", "console"}}
Boxes == UNION Layers
JudgedAs(who) == IF who = "devices" THEN "simulator" ELSE who
Sections == {"simulator", "estimator", "control", "detectors", "reasoning", "assistance", "speech", "console"}
ServiceSection(who) ==
  [dot |-> JudgedAs(who), writes |-> TopicsOfActor(who).produces, reads |-> TopicsOfActor(who).consumes]

(* Its walks through what happens: the topics of the steps, the silent ones  *)
(* left out.                                                                 *)
Flows == {
  <<<<"sensor", "+", "state">>, <<"estimate", "thermal">>, <<"audit", "validation">>,
    <<"actuator", "+", "command">>, <<"actuator", "+", "state">>>>,
  <<<<"speech", "status">>, <<"context", "preference">>, <<"audit", "validation">>, <<"context", "reply">>>>,
  <<<<"fault", "+">>, <<"system", "mode">>, <<"diagnosis", "+">>, <<"system", "reset">>>>,
  <<<<"context", "ambient">>, <<"assist", "proposed">>, <<"context", "profile", "+">>>>,
  <<<<"assist", "proposed">>, <<"assist", "confirmed">>, <<"assist", "result">>>>}

(* docBySlug: a step's link leads to its topic's page. *)
Linked(pattern) == \E i \in DOMAIN TopicDocs : TopicDocs[i].pattern = pattern
=============================================================================
