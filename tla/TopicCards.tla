----------------------------- MODULE TopicCards -----------------------------
(***************************************************************************)
(* What is in a message, on the three sides that must agree on it without  *)
(* a compiler between them: the schemas the services publish               *)
(* (src/src/common/schemas.py, devices.py, tools.py), the cards by which   *)
(* the pages Topics and MQTT board draw a message (lib/renderers.tsx), and *)
(* the types the other pages give what the console sends them              *)
(* (lib/types.ts).                                                         *)
(*                                                                         *)
(* A field is the set of what it may hold: Some stands for any value of a  *)
(* free type, Null for none, and a field of an enumeration holds its       *)
(* words.  A record is a function from its fields.                         *)
(***************************************************************************)
EXTENDS TopicGuide, TLC

Some == {"some"}
Null == {"null"}
Absent == {"absent"}
Plain(names) == [n \in names |-> Some]
OrNull(names) == [n \in names |-> Some \cup Null]

-----------------------------------------------------------------------------
(* What is published. *)

Qualities == {"ok", "suspect", "faulted"}
Modes == {"INIT", "NORMAL", "DEGRADED_SENSOR", "DEGRADED_ACTUATOR", "SAFE_HOLD"}
CommandKinds == {"COOL", "OFF", "MAINTAIN", "HOLD"}
Bands == {"normal", "peak"}
Intents == {"environment", "service", "question", "none"}
Effects == {"read", "write", "commit"}
Hypotheses == {"sensor_stuck", "sensor_dropout", "sensor_out_of_range", "sensor_drift",
               "actuator_no_response", "model_divergence", "unknown"}
DetectorIds == {"D1_DROPOUT", "D2_STUCK_AT", "D3_OUT_OF_RANGE", "D4_DRIFT",
                "D5_ACTUATOR_NO_RESPONSE", "MODEL_DIVERGENCE"}

SensorReading ==
  Plain({"ts", "sensor_id", "value"}) @@ [unit |-> {"C", "%RH", "bool", "W"}, quality |-> Qualities]
SensorHealth ==
  Plain({"ts", "sensor_id"}) @@ [quality |-> Qualities] @@ OrNull({"last_reading_ts", "active_fault_id"})

Estimates == [
  ThermalEstimate |-> [adaptation |-> {"active", "frozen"}] @@
    Plain({"ts", "t_in", "t_pred", "residual", "residual_sigma", "model_confidence", "horizon_residual",
           "horizon_residual_sigma"}),
  Coefficients |-> Plain({"ts", "a1", "a2", "a3", "a4", "trace_p", "steady_state_residual", "samples_since_reset"})]

FaultsAndModes == [
  FaultEvent |-> Plain({"fault_id", "subject", "confidence", "detected_ts", "evidence"}) @@
    [detector |-> DetectorIds, class |-> {"sensor", "actuator", "model"}, mode_impact |-> Modes],
  ModeState |-> [mode |-> Modes] @@ Plain({"ts", "since_ts", "active_fault_ids", "reason"})]

GoalsAndVerdicts == [
  Goal |-> [source |-> {"supervisor", "preference", "default", "operator"}, mode |-> Modes] @@
    Plain({"ts", "setpoint_c", "rationale", "expires_ts"}),
  ValidationVerdict |-> Plain({"ts", "proposed", "applied"}) @@
    [verdict |-> {"ACCEPTED", "CLAMPED", "BLOCKED"},
     reason |-> {"NONE", "BOUND_CLAMP", "RATE_LIMIT", "DWELL", "CMD_RATE", "MODE_BLOCK", "STALE_GOAL", "PREFERENCE_HOLD"}]]

Commands == [
  Command |-> [kind |-> CommandKinds] @@ Plain({"ts", "actuator_id"}) @@ OrNull({"setpoint_c"}),
  PreferenceHint |-> [intent |-> Intents, comfort |-> {"warmer", "cooler", "unchanged"}] @@
    Plain({"ts", "subject", "rationale", "spoken_reply", "transcript", "profile_id", "typed", "release", "remote"}) @@
    OrNull({"target_c", "hold_s", "command"}),
  ActuatorState |-> [kind |-> CommandKinds, ack |-> {"ACKNOWLEDGED", "FAILED", "UNKNOWN"}] @@
    Plain({"ts", "actuator_id", "simulated"}) @@ OrNull({"setpoint_c", "last_command_ts"}),
  ModeReset |-> Plain({"ts", "requester", "reason"})]

(* The fault put in is one of src/src/common/injection.py's.                 *)
InjectionCommand ==
  [kind |-> {"NONE", "DROPOUT", "STUCK_AT", "OUT_OF_RANGE", "DRIFT", "NO_RESPONSE"}] @@
  Plain({"ts", "subject", "magnitude", "requester"})

Talking == [
  ReasoningRecord |-> [caller |-> {"supervisor", "assistant", "diagnosis", "ambient"}] @@
    Plain({"ts", "trigger", "model", "inputs", "raw_output", "verdict", "applied", "tool_calls", "latency_s",
           "prompt_tokens", "completion_tokens"}),
  AssistantReply |-> [intent |-> Intents] @@
    Plain({"ts", "transcript", "reply", "invocation_ids", "awaiting_confirmation", "spoken", "remote", "profile_id"}),
  ConsoleUtterance |-> Plain({"ts", "utterance_id", "text", "profile_id", "remote"}),
  AmbientUtterance |-> Plain({"ts", "transcript", "profile_id", "duration_s"})]

Settings == [
  SpeechSettings |-> Plain({"ts", "listening", "speak_replies", "speak_typed", "speak_alerts", "volume",
                            "quiet_from", "quiet_to"}),
  GoogleStatus |-> OrNull({"last_sync_ts"}) @@
    Plain({"ts", "configured", "connected", "account", "outbox", "online", "last_error", "needs_reconnect"}),
  SpeechStatus |-> Plain({"ts", "heard", "microphone", "wake_word", "heartbeat_s", "voice"}) @@
    [activity |-> {"waiting", "listening", "overhearing", "transcribing", "understanding", "speaking", "muted"},
     listen_mode |-> {"wake_word", "continuous"}]]

Contexts == [
  ProfileContext |-> Plain({"ts", "profile_id", "display_name", "preferences", "facts", "recent", "suggestions"}),
  TrackingState |-> [band |-> Bands] @@ Plain({"ts", "setpoint_c", "tracked_c", "reason"}),
  TariffState |-> [band |-> Bands] @@ Plain({"ts", "next_transition_ts"}),
  FaultDiagnosis |-> [primary_hypothesis |-> Hypotheses, confidence |-> {"low", "medium", "high"},
                      recommended_mode |-> Modes] @@
    Plain({"ts", "fault_id", "supporting_evidence", "user_message", "recommendation_legal", "generic"})]

Messages == [
  HomeMessage |-> Plain({"ts", "message_id", "sender", "transcript", "duration_s", "audio_file"}),
  MessageStatus |-> [state |-> {"sent", "playing", "played", "replied", "failed"}] @@
    Plain({"ts", "message_id", "sender", "transcript", "duration_s", "sent_ts", "reply_transcript", "reply_file",
           "detail"}) @@ OrNull({"played_ts", "replied_ts", "reply_duration_s"})]

Devices == [
  DeviceManifest |-> [kind |-> {"ac", "fan", "light", "media", "tv", "robot", "other"}] @@
    Plain({"ts", "device_id", "name", "room", "aliases", "simulated", "provider", "capabilities"}),
  DeviceAvailability |-> Plain({"ts", "device_id", "online"}),
  DeviceState |-> Plain({"ts", "device_id", "values", "simulated"})]

(* What a manifest and the catalogue are made of. *)
ToolParameter ==
  [type |-> {"string", "number", "integer", "boolean", "timestamp"}] @@ OrNull({"minimum", "maximum"}) @@
  Plain({"name", "description", "required", "choices", "supplied_by_system"})
ToolSpec ==
  [effect |-> Effects] @@ Plain({"name", "purpose", "parameters", "offered_to_assistant", "device"})
DeviceCapability == [device_class |-> {"plant", "comfort", "media"}] @@ Plain({"min_interval_s"}) @@ ToolSpec

Invocations == [
  ToolInvocation |-> Plain({"ts", "invocation_id", "tool", "arguments", "rationale", "expires_ts"}) @@
    [requester |-> {"personal_context", "console", "operator", "ambient", "assistance", "device"}],
  ToolResult |-> Plain({"ts", "invocation_id", "tool", "message", "detail", "provider", "simulated"}) @@
    [status |-> {"OK", "UNKNOWN_TOOL", "BAD_ARGUMENTS", "CONFIRMATION_REQUIRED", "EXPIRED", "UNAVAILABLE", "FAILED"}],
  ToolCatalogue |-> Plain({"ts", "tools"})]

(* The topics whose messages the console reads, and their schemas.           *)
Handled == {
  <<<<"sensor", "+", "state">>, SensorReading>>, <<<<"sensor", "+", "health">>, SensorHealth>>,
  <<<<"estimate", "thermal">>, Estimates.ThermalEstimate>>,
  <<<<"estimate", "coefficients">>, Estimates.Coefficients>>,
  <<<<"actuator", "+", "state">>, Commands.ActuatorState>>, <<<<"system", "mode">>, FaultsAndModes.ModeState>>,
  <<<<"goal", "active">>, GoalsAndVerdicts.Goal>>, <<<<"goal", "proposed">>, GoalsAndVerdicts.Goal>>,
  <<<<"control", "tracking">>, Contexts.TrackingState>>, <<<<"tariff", "state">>, Contexts.TariffState>>,
  <<<<"speech", "status">>, Settings.SpeechStatus>>, <<<<"speech", "settings">>, Settings.SpeechSettings>>,
  <<<<"assist", "google">>, Settings.GoogleStatus>>, <<<<"device", "+", "manifest">>, Devices.DeviceManifest>>,
  <<<<"device", "+", "availability">>, Devices.DeviceAvailability>>,
  <<<<"device", "+", "state">>, Devices.DeviceState>>, <<<<"message", "status", "+">>, Messages.MessageStatus>>,
  <<<<"fault", "+">>, FaultsAndModes.FaultEvent>>, <<<<"diagnosis", "+">>, Contexts.FaultDiagnosis>>,
  <<<<"context", "utterance">>, Talking.ConsoleUtterance>>,
  <<<<"context", "preference">>, Commands.PreferenceHint>>, <<<<"context", "reply">>, Talking.AssistantReply>>,
  <<<<"context", "profile", "+">>, Contexts.ProfileContext>>,
  <<<<"assist", "proposed">>, Invocations.ToolInvocation>>, <<<<"assist", "result">>, Invocations.ToolResult>>,
  <<<<"assist", "catalogue">>, Invocations.ToolCatalogue>>,
  <<<<"audit", "validation">>, GoalsAndVerdicts.ValidationVerdict>>,
  <<<<"audit", "reasoning">>, Talking.ReasoningRecord>>, <<<<"system", "reset">>, Commands.ModeReset>>,
  <<<<"inject", "+">>, InjectionCommand>>}

(* The rest of the contract, which the console only shows on its board.      *)
OnTheBoardOnly == {
  <<<<"actuator", "+", "command">>, Commands.Command>>, <<<<"assist", "confirmed">>, Invocations.ToolInvocation>>,
  <<<<"context", "ambient">>, Talking.AmbientUtterance>>, <<<<"message", "incoming">>, Messages.HomeMessage>>,
  <<<<"device", "+", "command">>, Invocations.ToolInvocation>>, <<<<"device", "+", "result">>, Invocations.ToolResult>>}

Carries(topic) == (CHOOSE c \in Handled \cup OnTheBoardOnly : TopicMatches(c[1], topic))[2]

-----------------------------------------------------------------------------
(* The cards.  A card shows fields; some it needs a value of, or drawing     *)
(* throws; of an enumeration it asks for some of the words, or tells all of  *)
(* them apart, its last phrase standing for the one word it did not ask for. *)
(* "within" are the same of the records a field lists.                       *)

Part(shows, asks) == [shows |-> shows, needs |-> {}, asks |-> asks, tells |-> <<>>]
Card(pattern, shows, needs, asks, tells) ==
  [pattern |-> pattern, shows |-> shows, needs |-> needs, asks |-> asks, tells |-> tells, within |-> <<>>]

SensorCards == {
  Card(<<"sensor", "+", "state">>, {"value", "unit", "quality", "sensor_id", "ts"}, {"value"},
       <<>>, [unit |-> {"bool", "W", "%RH"}, quality |-> {"ok", "suspect"}]),
  Card(<<"sensor", "+", "health">>, {"quality", "active_fault_id", "sensor_id", "ts", "last_reading_ts"}, {},
       [quality |-> {"ok", "suspect"}], <<>>)}

(* horizon_residual is asked for null before it is written out.              *)
EstimateCards == {
  Card(<<"estimate", "thermal">>,
       {"t_in", "t_pred", "residual", "residual_sigma", "adaptation", "horizon_residual",
        "horizon_residual_sigma", "model_confidence", "ts"}, {"residual"},
       <<>>, [adaptation |-> {"active"}]),
  Card(<<"estimate", "coefficients">>, {"a1", "a2", "a3", "a4", "trace_p", "samples_since_reset", "ts"},
       {"a1", "a2", "a3", "a4", "samples_since_reset"}, <<>>, <<>>)}

ActuatorCards == {
  Card(<<"actuator", "+", "command">>, {"kind", "setpoint_c", "actuator_id", "ts"}, {}, <<>>,
       [kind |-> {"MAINTAIN", "HOLD", "COOL"}]),
  Card(<<"actuator", "+", "state">>, {"kind", "ack", "simulated", "last_command_ts", "ts"}, {},
       [kind |-> {"COOL"}], [ack |-> {"UNKNOWN", "ACKNOWLEDGED"}])}

FaultCards == {
  Card(<<"fault", "+">>, {"detector", "subject", "mode_impact", "class", "detected_ts", "confidence", "evidence"},
       {}, <<>>, <<>>),
  Card(<<"diagnosis", "+">>,
       {"user_message", "primary_hypothesis", "confidence", "recommended_mode", "recommendation_legal",
        "supporting_evidence", "generic", "ts"}, {}, [confidence |-> {"high", "medium"}], <<>>),
  Card(<<"system", "mode">>, {"mode", "reason", "since_ts", "active_fault_ids"}, {},
       [mode |-> {"NORMAL", "SAFE_HOLD"}], <<>>),
  Card(<<"system", "reset">>, {"requester", "reason", "ts"}, {}, <<>>, <<>>),
  Card(<<"inject", "+">>, {"kind", "magnitude", "requester", "subject", "ts"}, {}, [kind |-> {"NONE"}], <<>>)}

GoalCards == {
  Card(<<"goal", "+">>, {"setpoint_c", "source", "rationale", "mode", "ts", "expires_ts"}, {}, <<>>, <<>>),
  Card(<<"control", "tracking">>, {"tracked_c", "setpoint_c", "band", "reason", "ts"}, {},
       [band |-> {"peak"}], <<>>),
  Card(<<"tariff", "state">>, {"band", "next_transition_ts", "ts"}, {}, <<>>, [band |-> {"peak"}])}

TalkCards == {
  Card(<<"speech", "status">>, {"activity", "heard", "wake_word", "microphone", "heartbeat_s", "ts"}, {},
       [activity |-> {"waiting"}], <<>>),
  Card(<<"context", "preference">>,
       {"intent", "target_c", "comfort", "transcript", "rationale", "subject", "profile_id", "ts"}, {},
       [comfort |-> {"unchanged"}], <<>>),
  Card(<<"context", "reply">>, {"reply", "transcript", "intent", "invocation_ids", "awaiting_confirmation", "ts"},
       {}, <<>>, <<>>),
  Card(<<"context", "ambient">>, {"profile_id", "transcript", "duration_s", "ts"}, {}, <<>>, <<>>),
  Card(<<"context", "utterance">>, {"text", "profile_id", "ts"}, {}, <<>>, <<>>),
  Card(<<"context", "profile", "+">>, {"display_name", "facts", "recent", "suggestions", "preferences", "ts"},
       {}, <<>>, <<>>)}

ToolCards == {
  Card(<<"assist", "proposed">>, {"tool", "arguments", "requester", "rationale", "invocation_id", "ts", "expires_ts"},
       {}, <<>>, <<>>),
  Card(<<"assist", "confirmed">>, {"tool", "arguments", "invocation_id", "ts"}, {}, <<>>, <<>>),
  Card(<<"assist", "result">>,
       {"status", "tool", "message", "simulated", "detail", "provider", "invocation_id", "ts"}, {},
       [status |-> {"OK", "CONFIRMATION_REQUIRED"}], <<>>),
  [Card(<<"assist", "catalogue">>, {"tools"}, {}, <<>>, <<>>) EXCEPT
     !.within = <<<<Part({"name", "purpose"}, [effect |-> {"commit", "write"}]), ToolSpec>>>>]}

DeviceCards == {
  [Card(<<"device", "+", "manifest">>,
        {"name", "capabilities", "simulated", "device_id", "kind", "provider", "aliases", "ts"}, {}, <<>>, <<>>) EXCEPT
     !.within = <<<<Part({"name", "purpose", "parameters"}, [device_class |-> {"plant"}, effect |-> {"commit"}]),
                    DeviceCapability>>,
                  <<Part({"name", "minimum", "maximum"}, <<>>), ToolParameter>>>>],
  Card(<<"device", "+", "availability">>, {"online", "device_id", "ts"}, {}, <<>>, <<>>),
  Card(<<"device", "+", "command">>, {"tool", "arguments", "requester", "invocation_id", "ts"}, {}, <<>>, <<>>),
  Card(<<"device", "+", "result">>, {"status", "message", "tool", "simulated", "invocation_id", "ts"}, {},
       [status |-> {"OK", "CONFIRMATION_REQUIRED"}], <<>>),
  Card(<<"device", "+", "state">>, {"values", "simulated", "ts"}, {}, <<>>, <<>>)}

AuditCards == {
  Card(<<"audit", "validation">>, {"proposed", "applied", "verdict", "reason", "ts"}, {},
       [verdict |-> {"ACCEPTED", "CLAMPED"}, reason |-> {"NONE"}], <<>>),
  Card(<<"audit", "reasoning">>,
       {"caller", "latency_s", "prompt_tokens", "completion_tokens", "trigger", "model", "tool_calls", "verdict",
        "applied", "raw_output", "ts"}, {}, <<>>, <<>>)}

RENDERERS == SensorCards \cup EstimateCards \cup ActuatorCards \cup FaultCards \cup GoalCards \cup TalkCards
             \cup ToolCards \cup DeviceCards \cup AuditCards

(* rendererFor: its own card; without one, FALLBACK lists whatever is there. *)
RendererFor(topic) == {c \in RENDERERS : TopicMatches(c.pattern, topic)}

Words(schema, f) == IF f \in DOMAIN schema THEN schema[f] ELSE {}
(* What a card takes for granted of a record is so.                          *)
Draws(card, schema) ==
  /\ card.shows \cup card.needs \cup DOMAIN card.asks \cup DOMAIN card.tells \subseteq DOMAIN schema
  /\ \A f \in card.needs : schema[f] = Some
  /\ \A f \in DOMAIN card.asks : card.asks[f] \subseteq Words(schema, f)
  /\ \A f \in DOMAIN card.tells :
       \E last \in Words(schema, f) \ card.tells[f] : Words(schema, f) = card.tells[f] \cup {last}

(* A topic has a card if it has a page in the guide, just one, and the card  *)
(* suits what the topic carries.                                             *)
WellDrawn(topic) ==
  /\ DocFor(topic) # {} <=> RendererFor(topic) # {}
  /\ \A c, d \in RendererFor(topic) : c = d
  /\ \A c \in RendererFor(topic) :
       Draws(c, Carries(topic)) /\ \A i \in DOMAIN c.within : Draws(c.within[i][1], c.within[i][2])

-----------------------------------------------------------------------------
(* What the console makes of the messages for its pages, where it does not   *)
(* pass them on as they are.                                                 *)

Tones == {"neutral", "info", "good", "warn", "alert"}
TurnSaid ==
  Plain({"id", "ts", "text"}) @@ [role |-> {"occupant", "assistant", "system"}, source |-> {"voice", "console"} \cup Absent,
    profile_id |-> Some \cup Absent, intent |-> Some \cup Absent, waiting |-> Some \cup Absent,
    tone |-> {"good", "alert"} \cup Absent, fault_id |-> Some \cup Absent]
StepTaken == Plain({"id", "ts", "kind", "text", "detail", "ref"}) @@ [tone |-> {"neutral", "info", "good", "warn", "alert"}]
(* Mutant: a device that has not said whether it is here is listed as it is. *)
DeviceListed_online_unknown ==
  Plain({"device_id", "manifest", "state"}) @@ OrNull({"online", "state_ts", "last_result"})
(* _device, for a device that announced itself: it is online then.           *)
DeviceListed == Plain({"device_id", "manifest", "state", "online"}) @@ OrNull({"state_ts", "last_result"})
LastResult == Plain({"tool", "status", "message", "ts"})
WaitingListed == Plain({"invocation_id", "tool", "arguments", "expires_ts", "summary"})
Booked == OrNull({"nights"}) @@ Plain({"reference", "kind", "destination", "origin", "depart_on", "ts", "message"})
Mailed == Plain({"reference", "to", "subject", "body", "ts", "queued", "mock"})
MailedIn == Plain({"id", "ts", "sender", "subject", "body", "kind"}) @@ [tone |-> Tones]
EntryRead == Plain({"event_id", "starts_at", "subject", "tentative", "google"}) @@ [heard |-> Some \cup Absent]
EnergyCounted == Plain({"day", "kwh", "cost", "currency"})
ProfileListed == Plain({"profile_id", "display_name", "facts", "preferences", "suggestions"})
BoardRow == Plain({"topic", "count", "first_ts", "last_ts", "retained", "payload", "per_minute"})

-----------------------------------------------------------------------------
(* What the pages take them to be: an optional field may be absent.          *)

OrAbsent(names) == [n \in names |-> Some \cup Absent]

TalkTypes == [
  Turn |-> Plain({"id", "ts", "text"}) @@ OrAbsent({"profile_id", "intent", "waiting", "fault_id"}) @@
    [role |-> {"occupant", "assistant", "system"}, source |-> {"voice", "console"} \cup Absent,
     tone |-> {"neutral", "info", "good", "warn", "alert"} \cup Absent],
  Step |-> Plain({"id", "ts", "kind", "text", "detail", "ref"}) @@ [tone |-> {"neutral", "info", "good", "warn", "alert"}]]

RoomTypes == [
  Reading |-> Plain({"ts", "sensor_id", "value", "unit"}) @@ [quality |-> {"ok", "suspect", "faulted"}],
  Health |-> Plain({"sensor_id"}) @@ OrNull({"active_fault_id"}) @@ [quality |-> {"ok", "suspect", "faulted"}],
  Thermal |-> Plain({"t_in", "t_pred", "residual", "residual_sigma", "model_confidence"}) @@
    [adaptation |-> {"active", "frozen"}],
  ModeState |-> Plain({"since_ts", "active_fault_ids", "reason"}) @@
    [mode |-> {"INIT", "NORMAL", "DEGRADED_SENSOR", "DEGRADED_ACTUATOR", "SAFE_HOLD"}],
  Tracking |-> Plain({"setpoint_c", "tracked_c", "reason"}) @@ [band |-> {"normal", "peak"}],
  Actuator |-> Plain({"actuator_id", "simulated", "kind", "ack"}),
  Goal |-> Plain({"ts", "source", "setpoint_c", "rationale"}),
  Fault |-> Plain({"fault_id", "detector", "subject", "class", "detected_ts", "mode_impact"}),
  Diagnosis |-> Plain({"fault_id", "user_message", "primary_hypothesis", "confidence"})]

SettingTypes == [
  SpeechStatus |-> Plain({"ts", "heard", "microphone", "wake_word", "heartbeat_s"}) @@ OrAbsent({"voice"}) @@
    [activity |-> {"waiting", "listening", "overhearing", "transcribing", "understanding", "speaking", "muted"},
     listen_mode |-> {"continuous", "wake_word"} \cup Absent],
  SpeechSettings |-> Plain({"listening", "speak_replies", "speak_typed", "speak_alerts", "volume", "quiet_from",
                            "quiet_to"}),
  GoogleStatus |-> OrNull({"last_sync_ts"}) @@
    Plain({"ts", "configured", "connected", "account", "outbox", "online", "last_error", "needs_reconnect"})]

DeviceTypes == [
  DeviceParameter |-> Plain({"name", "description", "required", "choices"}) @@ OrNull({"minimum", "maximum"}) @@
    OrAbsent({"supplied_by_system"}) @@ [type |-> {"string", "number", "integer", "boolean", "timestamp"}],
  DeviceCapability |-> Plain({"name", "purpose", "parameters"}) @@
    [effect |-> {"read", "write", "commit"}, device_class |-> {"plant", "comfort", "media"}],
  DeviceManifest |-> Plain({"device_id", "name", "room", "aliases", "simulated", "provider", "capabilities"}) @@
    [kind |-> {"ac", "fan", "light", "media", "tv", "robot", "other"}],
  Device |-> Plain({"device_id", "manifest", "online", "state"}) @@ OrNull({"state_ts", "last_result"}),
  LastResult |-> Plain({"tool", "status", "message", "ts"})]

HomeTypes == [
  Energy |-> Plain({"day", "kwh", "cost", "currency"}),
  Waiting |-> Plain({"invocation_id", "tool", "arguments", "expires_ts", "summary"}),
  CalendarEntry |-> Plain({"event_id", "starts_at", "subject"}) @@ OrAbsent({"tentative", "heard", "google"}),
  Profile |-> Plain({"profile_id", "display_name", "facts", "preferences"}) @@ OrAbsent({"suggestions"})]

RoomShown ==
  Plain({"sensors", "health"}) @@
  OrNull({"thermal", "coefficients", "actuator", "mode", "goal", "tracking", "tariff"})
SnapshotShown ==
  OrNull({"speech", "speech_settings", "google", "house"}) @@
  Plain({"server_ts", "broker", "room", "series", "topics", "bookings", "sent", "inbox", "faults", "diagnoses",
         "profiles", "injections", "conversation", "activity", "waiting", "calendar", "tools", "operator_controls",
         "energy", "presets", "cooling_off_c", "bounds_c", "devices", "messages", "tls_port"})

BoardTypes == [
  TopicRow |-> OrAbsent({"arrivals"}) @@
    Plain({"topic", "count", "first_ts", "last_ts", "retained", "payload", "per_minute"}),
  BoardMessage |-> Plain({"topic", "ts"}) @@ OrAbsent({"payload", "count", "retained", "withdrawn"}),
  Booking |-> OrNull({"nights"}) @@
    Plain({"reference", "kind", "destination", "origin", "depart_on", "ts", "message"}),
  SentMail |-> Plain({"reference", "to", "subject", "body", "ts"}) @@ OrAbsent({"queued", "mock"}),
  InboxItem |-> Plain({"id", "ts", "sender", "subject", "body", "kind"}) @@
    [tone |-> {"neutral", "info", "good", "warn", "alert"}]]

HomeMessageShown ==
  Plain({"ts", "message_id", "sender", "transcript", "duration_s", "sent_ts", "reply_transcript", "reply_file",
         "detail"}) @@ OrNull({"played_ts", "replied_ts", "reply_duration_s"}) @@
  [state |-> {"sent", "playing", "played", "replied", "failed"}]

-----------------------------------------------------------------------------
(* What the pages are sent: the records of a message as it was published, or *)
(* what the console made of it (state.py).                                   *)

RoomSent ==
  Plain({"sensors", "health"}) @@
  OrNull({"thermal", "coefficients", "actuator", "mode", "goal", "tracking", "tariff"})
(* snapshot, and "broker", which the server adds.                            *)
SnapshotSent ==
  OrNull({"speech", "speech_settings", "google", "house"}) @@
  Plain({"server_ts", "room", "series", "topics", "bookings", "sent", "inbox", "faults", "diagnoses", "profiles",
         "injections", "conversation", "activity", "waiting", "calendar", "tools", "operator_controls", "devices",
         "messages", "energy", "presets", "cooling_off_c", "bounds_c", "tls_port", "broker"})

(* _say, by each of its callers: what is said, what was typed or heard, a    *)
(* reply, the mode, a diagnosis.                                             *)
Said ==
  LET Turn == Plain({"id", "ts", "role", "text"})
  IN {[role |-> {"occupant"}, source |-> {"console", "voice"}] @@ Plain({"profile_id"}) @@ Turn,
      [role |-> {"assistant"}] @@ Plain({"intent", "profile_id", "waiting"}) @@ Turn,
      [role |-> {"assistant"}] @@ Plain({"intent"}) @@ Turn,
      [role |-> {"system"}, tone |-> {"good", "alert"}] @@ Turn,
      [role |-> {"system"}, tone |-> {"alert"}] @@ Plain({"fault_id"}) @@ Turn}
StepSent == Plain({"id", "ts", "kind", "text", "detail", "ref"}) @@ [tone |-> {"neutral", "info", "good", "warn", "alert"}]

(* _device, listed once it announced itself, which counts as being online.   *)
DeviceSent == Plain({"device_id", "manifest", "state", "online"}) @@ OrNull({"state_ts", "last_result"})
LastResultSent == Plain({"tool", "message", "ts"}) @@ [status |-> Invocations.ToolResult.status]
WaitingSent == Plain({"invocation_id", "tool", "arguments", "expires_ts", "summary"})
BookingSent == OrNull({"nights"}) @@
  Plain({"reference", "kind", "destination", "origin", "depart_on", "ts", "message"})
MailSent == Plain({"reference", "to", "subject", "body", "ts", "queued", "mock"})
InboxSent == Plain({"id", "ts", "sender", "subject", "body", "kind"}) @@ [tone |-> {"neutral", "info", "good", "alert"}]
EntrySent == Plain({"event_id", "starts_at", "subject", "tentative", "google"}) @@ OrAbsent({"heard"})
EnergySent == Plain({"day", "kwh", "cost", "currency"})
ProfileSent == Plain({"profile_id", "display_name", "facts", "preferences", "suggestions"})
RowSent == Plain({"topic", "count", "first_ts", "last_ts", "retained", "payload", "per_minute"})
BoardSent == {Plain({"topic", "ts", "withdrawn"}), Plain({"topic", "ts", "payload", "count", "retained"})}

-----------------------------------------------------------------------------
Holds(given, declared) ==
  given \cap (Null \cup Absent) \subseteq declared /\ (Some \subseteq declared \/ given \subseteq declared)
(* A record sent is one of the declared type.                                *)
Fits(sent, declared) ==
  \A f \in DOMAIN declared : Holds(IF f \in DOMAIN sent THEN sent[f] ELSE Absent, declared[f])

(* What a page holds once a message of a topic has come, and takes it for.   *)
Taken(topic) ==
  LET From(pattern) == TopicMatches(pattern, topic)
      From2(p, q) == From(p) \/ From(q)
      Given(yes, pairs) == IF yes THEN pairs ELSE {}
      same == Carries(topic)
  IN UNION {
    {<<SnapshotSent, SnapshotShown>>, <<RoomSent, RoomShown>>, <<RowSent, BoardTypes.TopicRow>>, <<StepSent, TalkTypes.Step>>},
    {<<b, BoardTypes.BoardMessage>> : b \in BoardSent},
    Given(From(<<"sensor", "+", "state">>), {<<same, RoomTypes.Reading>>, <<EnergySent, HomeTypes.Energy>>}),
    Given(From(<<"sensor", "+", "health">>), {<<same, RoomTypes.Health>>}),
    Given(From(<<"estimate", "thermal">>), {<<same, RoomTypes.Thermal>>}),
    Given(From(<<"system", "mode">>),
          {<<same, RoomTypes.ModeState>>, <<InboxSent, BoardTypes.InboxItem>>} \cup {<<t, TalkTypes.Turn>> : t \in Said}),
    Given(From(<<"control", "tracking">>), {<<same, RoomTypes.Tracking>>}),
    Given(From(<<"actuator", "+", "state">>), {<<same, RoomTypes.Actuator>>}),
    Given(From(<<"goal", "active">>), {<<same, RoomTypes.Goal>>}),
    Given(From(<<"fault", "+">>), {<<same, RoomTypes.Fault>>}),
    Given(From(<<"diagnosis", "+">>), {<<same, RoomTypes.Diagnosis>>}),
    Given(From(<<"speech", "status">>), {<<same, SettingTypes.SpeechStatus>>}),
    Given(From(<<"speech", "settings">>), {<<same, SettingTypes.SpeechSettings>>}),
    Given(From(<<"assist", "google">>), {<<same, SettingTypes.GoogleStatus>>}),
    Given(From(<<"device", "+", "manifest">>),
          {<<same, DeviceTypes.DeviceManifest>>, <<DeviceCapability, DeviceTypes.DeviceCapability>>,
           <<ToolParameter, DeviceTypes.DeviceParameter>>, <<DeviceSent, DeviceTypes.Device>>}),
    Given(From2(<<"assist", "result">>, <<"assist", "proposed">>),
          {<<LastResultSent, DeviceTypes.LastResult>>, <<WaitingSent, HomeTypes.Waiting>>,
           <<EntrySent, HomeTypes.CalendarEntry>>, <<BookingSent, BoardTypes.Booking>>, <<MailSent, BoardTypes.SentMail>>}),
    Given(From(<<"context", "profile", "+">>), {<<ProfileSent, HomeTypes.Profile>>}),
    Given(From(<<"message", "status", "+">>), {<<same, HomeMessageShown>>})}

WellTaken(topic) == \A pair \in Taken(topic) : Fits(pair[1], pair[2])
=============================================================================
