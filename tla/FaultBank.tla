----------------------------- MODULE FaultBank -----------------------------
(***************************************************************************)
(* The detector bank process (src/src/faults/service.py) with the          *)
(* aggregator and the mode manager it owns: the fault lifecycle and the    *)
(* mode that follows from it.                                              *)
(*                                                                         *)
(* Here every handler and every tick is one step; FaultBankThreads takes   *)
(* them apart.  One tick is one unit of time (loop.regulatory_period_s),   *)
(* and elapsed times are counted in ticks and saturate at the period they  *)
(* are compared with.  D1 to D3 are represented by the judgments they may  *)
(* give, D4 and D5 by the evidence that survives from one tick to the next.*)
(***************************************************************************)
EXTENDS ModeManager

CONSTANTS
  ClearConfirm,    \* ticks a clear must hold before a fault is retired
  Budget,          \* ticks of control on prediction before SAFE_HOLD
  D5Window,        \* ticks of one actuator evaluation window
  MaxDivergences   \* bound: divergence faults retained at the same time

ASSUME PeriodsAssumption ==
  /\ ClearConfirm \in Nat
  /\ Budget \in Nat \ {0}
  /\ D5Window \in Nat
  /\ MaxDivergences \in Nat

VARIABLES
  mode,          \* ModeManager._mode
  degradedFor,   \* ticks since _degraded_since_s, NotRunning for None
  resetPending,  \* ModeManager._reset_pending
  faultIds,      \* ModeManager._fault_ids, as the keys they name
  active,        \* the keys of FaultAggregator._active
  clearFor,      \* ticks since each entry's clear_since_s
  d5Age,         \* ticks since the active D5 fault's detected_ts
  heard,         \* sensors in _last_reading_ts
  roomSeen,      \* D5: _latest_temperature_c is known
  cooling,       \* D5: _cooling, the plant is being told to cool
  anchored,      \* D5: an evaluation window is running
  warm,          \* D4: past its warm-up samples
  drifting,      \* D4: a sum over threshold, or a contradiction held
  faultTopic,    \* broker: retained faults whose id this bank holds
  staleTopic,    \* broker: retained faults of an earlier run of this bank
  divergences,   \* broker: retained divergence faults not held by the bank
  modeTopic,     \* broker: the retained mode
  healthTopic    \* broker: each sensor's retained health

managerVars  == <<mode, degradedFor, resetPending, faultIds>>
detectorVars == <<heard, roomSeen, cooling, anchored, warm, drifting>>
lifeVars     == <<active, clearFor, d5Age>>
brokerVars   == <<faultTopic, staleTopic, divergences, modeTopic, healthTopic>>
vars == <<managerVars, detectorVars, lifeVars, brokerVars>>

NotRunning == -1
Quality    == {"OK", "FAULTED"}
NoHealth   == [quality |-> "none", named |-> FALSE]
Health     == [quality : Quality, named : BOOLEAN] \cup {NoHealth}

Min2(a, b) == IF a <= b THEN a ELSE b
OneTickOn(t, cap) == IF t = NotRunning THEN t ELSE Min2(t + 1, cap)

TypeOK ==
  /\ mode \in Mode
  /\ degradedFor \in NotRunning..Budget
  /\ resetPending \in BOOLEAN
  /\ faultIds \subseteq Key
  /\ active \subseteq Key
  /\ clearFor \in [Key -> NotRunning..ClearConfirm]
  /\ d5Age \in 0..(D5Window + 1)
  /\ heard \subseteq Sensors
  /\ roomSeen \in BOOLEAN
  /\ cooling \in BOOLEAN
  /\ anchored \in BOOLEAN
  /\ warm \in BOOLEAN
  /\ drifting \in BOOLEAN
  /\ faultTopic \subseteq Key
  /\ staleTopic \subseteq OwnKey
  /\ divergences \in Nat
  /\ modeTopic \in Mode \cup {"none"}
  /\ healthTopic \in [Sensors -> Health]

Subjects(faults) == {k.subject : k \in faults}
Trusted(s) == s \notin Subjects(active)

(* The in-memory state of a bank process that has just started. *)
Booted ==
  /\ mode = "INIT" /\ degradedFor = NotRunning
  /\ resetPending = FALSE /\ faultIds = {}
  /\ active = {} /\ clearFor = [k \in Key |-> NotRunning] /\ d5Age = 0
  /\ heard = {} /\ roomSeen = FALSE /\ cooling = FALSE /\ anchored = FALSE
  /\ warm = FALSE /\ drifting = FALSE

Init ==
  /\ Booted
  /\ faultTopic = {} /\ staleTopic = {} /\ divergences = 0
  /\ modeTopic = "none"
  /\ healthTopic = [s \in Sensors |-> NoHealth]

----------------------------------------------------------------------------
(* ModeManager.update on a set of active faults, with `elapsed` ticks on   *)
(* the prediction budget, followed by DetectorBankService._publish_mode.   *)
Spent(elapsed) == elapsed # NotRunning /\ elapsed >= Budget

(* ModeManager._track_substitution. *)
TrackSubstitutionKept(target, elapsed) ==
  IF target = "DEGRADED_SENSOR" /\ elapsed = NotRunning THEN 0 ELSE elapsed
TrackSubstitution(target, elapsed) ==
  IF target = mode THEN elapsed
  ELSE IF target = "DEGRADED_SENSOR" THEN 0 ELSE NotRunning

PublishMode(faults, elapsed, reporting) ==
  LET target == Decide(mode, faults, resetPending, reporting, Spent(elapsed)) IN
  /\ mode' = target
  /\ degradedFor' = TrackSubstitution(target, elapsed)
  /\ resetPending' = FALSE
  /\ faultIds' = faults
  /\ modeTopic' = IF target # mode \/ faults # faultIds THEN target ELSE modeTopic

(* _withdraw_fault: the retained message and its diagnosis are cleared. *)
Withdraw(topic, gone) == topic \ gone

----------------------------------------------------------------------------
(* A reading from one sensor.  D5 follows the indoor sensor only, while it *)
(* is trusted: the first reading while cooling anchors its window.         *)
OnReading(s) ==
  /\ heard' = heard \cup {s}
  /\ roomSeen' = (roomSeen \/ (s = Indoor /\ Trusted(Indoor)))
  /\ anchored' = IF s = Indoor THEN cooling /\ Trusted(Indoor) ELSE anchored
  /\ UNCHANGED <<managerVars, lifeVars, cooling, warm, drifting, brokerVars>>

(* A flagged indoor reading: counted as heard, not shown to D5, which only *)
(* loses its window when the sensor is already known to be faulted.        *)
OnSuspectReading ==
  /\ heard' = heard \cup {Indoor}
  /\ anchored' = (anchored /\ Trusted(Indoor))
  /\ UNCHANGED <<managerVars, lifeVars, roomSeen, cooling, warm, drifting, brokerVars>>

(* A state-changing command.  COOL while cooling keeps the window; OFF     *)
(* abandons it.  A window begun before any reading has no temperature and  *)
(* is judged UNKNOWN, so it counts as anchored once a temperature is known.*)
OnCommand(kind) ==
  /\ cooling' = (kind = "COOL")
  /\ anchored' = (kind = "COOL" /\ IF cooling THEN anchored ELSE roomSeen)
  /\ UNCHANGED <<managerVars, lifeVars, heard, roomSeen, warm, drifting, brokerVars>>

(* The estimator publishes an estimate for each indoor reading, and, while *)
(* the health it has read says the sensor is faulted, on its own clock.    *)
EstimatorPublishes ==
  Indoor \in heard \/ healthTopic[Indoor].quality = "FAULTED"

(* An estimate's residual reaches D4 only while the indoor sensor and the  *)
(* actuator are both trusted.                                              *)
OnEstimate ==
  /\ EstimatorPublishes
  /\ Trusted(Indoor) /\ Trusted(Ac)
  /\ warm' \in {warm, TRUE}
  /\ drifting' \in IF warm' THEN BOOLEAN ELSE {drifting}
  /\ UNCHANGED <<managerVars, lifeVars, heard, roomSeen, cooling, anchored, brokerVars>>

(* The estimator publishes a divergence, retained, with a new id. *)
EstimatorDiverges ==
  /\ divergences + (IF DivergenceKey \in faultTopic THEN 1 ELSE 0) < MaxDivergences
  /\ divergences' = divergences + 1
  /\ UNCHANGED <<managerVars, lifeVars, detectorVars,
                 faultTopic, staleTopic, modeTopic, healthTopic>>

(* A divergence fault arrives and none is held: it is adopted and the mode *)
(* is published at once.                                                   *)
OnFaultAdopted ==
  /\ divergences > 0
  /\ DivergenceKey \notin active
  /\ divergences' = divergences - 1
  /\ faultTopic' = faultTopic \cup {DivergenceKey}
  /\ active' = active \cup {DivergenceKey}
  /\ PublishMode(active \cup {DivergenceKey}, degradedFor, heard # {})
  /\ UNCHANGED <<clearFor, d5Age, detectorVars, staleTopic, healthTopic>>

(* A fault left retained by an earlier run arrives: it is withdrawn. *)
OnFaultWithdrawn(k) ==
  /\ k \in staleTopic
  /\ staleTopic' = Withdraw(staleTopic, {k})
  /\ UNCHANGED <<managerVars, lifeVars, detectorVars,
                 faultTopic, divergences, modeTopic, healthTopic>>

(* _reset_detector for a set of faults: D4 with any fault on its sensor,   *)
(* D5 with any fault on its own subject or on the indoor sensor.           *)
ResetDetectors(gone) ==
  /\ drifting' = (drifting /\ Indoor \notin Subjects(gone))
  /\ anchored' = (anchored /\ {Ac, Indoor} \cap Subjects(gone) = {})

(* An operator's reset retires every fault, withdraws it and re-tests. *)
OnReset ==
  /\ active' = {}
  /\ faultTopic' = Withdraw(faultTopic, active)
  /\ ResetDetectors(active)
  /\ resetPending' = TRUE
  /\ clearFor' = [k \in Key |-> NotRunning]
  /\ d5Age' = 0
  /\ UNCHANGED <<mode, degradedFor, faultIds, heard, roomSeen, cooling, warm,
                 staleTopic, divergences, modeTopic, healthTopic>>

----------------------------------------------------------------------------
(* One tick.  A round of findings is the pair of sets of keys judged       *)
(* FAULTED and CLEAR; a key in neither is UNKNOWN.  The judgments of D1 to *)
(* D3 are given, and `verdict` is what D5 makes of a full window.          *)

Verdict == {"early", "worked", "failed", "contradicted"}

(* What the direct tests may say: nothing of a sensor before its first     *)
(* reading, and D1 always something after it.                              *)
DirectMaySay(faulted, clear) ==
  /\ faulted \cap clear = {}
  /\ \A k \in faulted \cup clear : k.subject \in heard
  /\ \A s \in heard : [detector |-> "D1", subject |-> s] \in faulted \cup clear

(* D5 is reset on every tick the indoor sensor is not trusted. *)
D5NeverSuspended == anchored
D5Anchored == anchored /\ Trusted(Indoor)

(* D4 is FAULTED on its sums or on a contradiction D5 hands it. *)
DriftFaulted(verdict) == drifting \/ (D5Anchored /\ verdict = "contradicted")

FaultedIn(directFaulted, verdict) ==
  directFaulted
    \cup (IF DriftFaulted(verdict) THEN {DriftKey} ELSE {})
    \cup (IF D5Anchored /\ verdict = "failed" THEN {ActuatorKey} ELSE {})

ClearIn(directClear, verdict) ==
  directClear
    \cup (IF warm /\ ~DriftFaulted(verdict) THEN {DriftKey} ELSE {})
    \cup (IF D5Anchored /\ verdict = "worked" THEN {ActuatorKey} ELSE {})

(* FaultAggregator.ingest: what a round raises and what it retires. *)
Raised(faulted) == faulted \ active

RetiresAfter(t) ==
  IF t = NotRunning THEN ClearConfirm = 0
                    ELSE OneTickOn(t, ClearConfirm) >= ClearConfirm

Cleared(clear) == {k \in clear \cap active : RetiresAfter(clearFor[k])}

CountdownRestarted(faulted, clear, k) ==
  IF k \notin active \/ k \in faulted THEN NotRunning
  ELSE IF k \in clear THEN 0 ELSE OneTickOn(clearFor[k], ClearConfirm)
Countdown(faulted, clear, k) ==
  LET t == OneTickOn(clearFor[k], ClearConfirm) IN
  IF k \notin active \/ k \in faulted THEN NotRunning
  ELSE IF k \in clear /\ t = NotRunning THEN 0 ELSE t

(* _discredited_by: an actuator fault no older than one evaluation window  *)
(* is withdrawn when a direct test faults the indoor sensor.               *)
DirectlyFaulted(raised) == \E k \in raised : k \in DirectKey /\ k.subject = Indoor

D5AgeNow(raised) ==
  IF ActuatorKey \in raised THEN 0 ELSE Min2(d5Age + 1, D5Window + 1)

Discredited(raised, held) ==
  IF DirectlyFaulted(raised) /\ D5AgeNow(raised) <= D5Window
  THEN held \cap {ActuatorKey} ELSE {}

(* _publish_health: what it says of every sensor something was observed of,*)
(* `held` being the faults now active.                                     *)
PublishQualityOnly(faulted, clear, held) ==
  healthTopic' = [s \in Sensors |->
    IF /\ s \in Subjects(faulted \cup clear)
       /\ healthTopic[s].quality # (IF s \in Subjects(faulted) THEN "FAULTED" ELSE "OK")
    THEN [quality |-> IF s \in Subjects(faulted) THEN "FAULTED" ELSE "OK",
          named   |-> s \in Subjects(held)]
    ELSE healthTopic[s]]
PublishHealth(faulted, clear, held) ==
  healthTopic' = [s \in Sensors |->
    IF s \in Subjects(faulted \cup clear)
    THEN [quality |-> IF s \in Subjects(faulted) THEN "FAULTED" ELSE "OK",
          named   |-> s \in Subjects(held)]
    ELSE healthTopic[s]]

Tick(directFaulted, directClear, verdict) ==
  LET faulted   == FaultedIn(directFaulted, verdict)
      clear     == ClearIn(directClear, verdict)
      raised    == Raised(faulted)
      cleared   == Cleared(clear)
      withdrawn == Discredited(raised, (active \cup raised) \ cleared)
      held      == ((active \cup raised) \ cleared) \ withdrawn
  IN
  /\ UNCHANGED <<heard, roomSeen, cooling, warm, staleTopic, divergences>>
  /\ active' = held
  /\ clearFor' = [k \in Key |->
       IF k \in held THEN Countdown(faulted, clear, k) ELSE NotRunning]
  /\ d5Age' = IF ActuatorKey \in held THEN D5AgeNow(raised) ELSE 0
  /\ drifting' = (/\ DriftFaulted(verdict)
                  /\ ActuatorKey \notin raised
                  /\ Indoor \notin Subjects(cleared))
  /\ anchored' = (D5Anchored /\ {Ac, Indoor} \cap Subjects(cleared \cup withdrawn) = {})
  /\ faultTopic' = Withdraw(faultTopic \cup raised, cleared \cup withdrawn)
  /\ PublishHealth(faulted, clear, held)
  /\ PublishMode(held, OneTickOn(degradedFor, Budget), heard # {})

SomeTick ==
  \E faulted, clear \in SUBSET DirectKey, verdict \in Verdict :
    /\ DirectMaySay(faulted, clear)
    /\ Tick(faulted, clear, verdict)

(* The process dies and systemd starts it again.  What it held is gone;    *)
(* what it had retained on the broker stays there.                         *)
Restart ==
  /\ mode' = "INIT" /\ degradedFor' = NotRunning
  /\ resetPending' = FALSE /\ faultIds' = {}
  /\ active' = {} /\ clearFor' = [k \in Key |-> NotRunning] /\ d5Age' = 0
  /\ heard' = {} /\ roomSeen' = FALSE /\ cooling' = FALSE /\ anchored' = FALSE
  /\ warm' = FALSE /\ drifting' = FALSE
  /\ faultTopic' = {}
  /\ staleTopic' = staleTopic \cup (faultTopic \cap OwnKey)
  /\ divergences' = IF DivergenceKey \in faultTopic THEN divergences + 1 ELSE divergences
  /\ UNCHANGED <<modeTopic, healthTopic>>

Handler ==
  \/ \E s \in Sensors : OnReading(s)
  \/ OnSuspectReading
  \/ \E kind \in {"COOL", "OFF"} : OnCommand(kind)
  \/ OnEstimate
  \/ OnFaultAdopted
  \/ OnReset

Next == Handler \/ SomeTick \/ EstimatorDiverges

Spec == Init /\ [][Next]_vars

(* The same bank with crashes and restarts.  Only a bank that has had a    *)
(* predecessor finds faults of an earlier run on the broker.               *)
NextWithRestarts ==
  \/ Next
  \/ \E k \in OwnKey : OnFaultWithdrawn(k)
  \/ Restart
SpecWithRestarts == Init /\ [][NextWithRestarts]_vars

(* The main thread's loop goes on (`while not stopped: tick(); sleep`) and *)
(* the broker delivers what it retains to a connected client.              *)
Fairness ==
  /\ WF_vars(SomeTick)
  /\ WF_vars(OnFaultAdopted)

FairSpec == Spec /\ Fairness

----------------------------------------------------------------------------
(* Properties. *)

(* In NORMAL nothing the loop controls on is known to be broken; in        *)
(* DEGRADED_SENSOR the indoor sensor is, and it alone; a hold for the      *)
(* actuator has an actuator fault.  Until the next tick applies it, an     *)
(* operator's reset may have retired the cause of a mode already published.*)
NormalIsClean == mode = "NORMAL" => Controlling(active) = {}

PredictionHasOneCause ==
  mode = "DEGRADED_SENSOR" =>
    \/ resetPending
    \/ /\ Controlling(active) # {}
       /\ \A k \in Controlling(active) : k.subject = Indoor /\ k # DivergenceKey

HoldIsExplained == mode = "DEGRADED_ACTUATOR" => resetPending \/ ActuatorKey \in active

ModeFollowsFaults == NormalIsClean /\ PredictionHasOneCause /\ HoldIsExplained

(* FR-27: the clock on the prediction budget runs exactly while control is *)
(* on prediction, and control is never on prediction once it is used up.   *)
BudgetBounded ==
  /\ (mode = "DEGRADED_SENSOR") <=> (degradedFor # NotRunning)
  /\ degradedFor < Budget

(* The retained fault topics answer "what is wrong now": this bank's own   *)
(* are the ones it holds, and the retained mode is the one it is in.       *)
BlackboardShowsHeld ==
  /\ faultTopic = active
  /\ mode # "INIT" => modeTopic = mode

(* A health of "ok" is published only for a sensor this bank has heard     *)
(* from: OK would otherwise assert health nobody has measured.             *)
OkHealthIsMeasured ==
  [][\A s \in Sensors :
       healthTopic'[s].quality = "OK" /\ healthTopic'[s] # healthTopic[s]
         => s \in heard]_vars

(* SAFE_HOLD is left only to NORMAL, on an operator's reset, and with no   *)
(* controlling fault left active.                                          *)
SafeHoldLatched ==
  [][mode = "SAFE_HOLD" /\ mode' # "SAFE_HOLD" =>
       /\ resetPending
       /\ mode' = "NORMAL"
       /\ Controlling(active') = {}]_vars

(* The actuator is never blamed on a room temperature already known to be  *)
(* wrong, nor on one a direct test faults in the same round.               *)
ActuatorJudgedOnTrustedRoom ==
  [][ActuatorKey \notin active /\ ActuatorKey \in active' =>
       /\ Trusted(Indoor)
       /\ \A k \in DirectKey : k.subject = Indoor => k \notin active']_vars

(* One broken thing never stops actuation by itself being counted twice:   *)
(* from NORMAL, SAFE_HOLD is entered on a diverged model or on two         *)
(* controlling subjects, never on several findings about one.              *)
EscalationCountsSubjects ==
  [][mode = "NORMAL" /\ mode' = "SAFE_HOLD" =>
       \/ DivergenceKey \in active'
       \/ {Indoor, Ac} \subseteq Subjects(active')]_vars

(* The bank implements the contract its readers rely on. *)
Contract == INSTANCE DegradationContract WITH
  acknowledged <- resetPending, predictedFor <- degradedFor
ImplementsContract == Contract!ContractSpec

(* A published divergence stops the loop: the mode ends in a hold, unless  *)
(* no sensor has ever been heard.                                          *)
DivergenceStopsLoop ==
  divergences > 0 ~> (mode \in OperatorOnlyExits \/ heard = {})

(* After a crash, every fault the dead process left on the blackboard is   *)
(* eventually withdrawn.                                                   *)
StaleFaultsWithdrawn == \A k \in OwnKey : k \in staleTopic ~> k \notin staleTopic

(* An operator's reset with nothing left broken releases any hold. *)
ResetIsAnswered == resetPending ~> (mode = "NORMAL" \/ Controlling(active) # {})

(* A retained health that names a fault the sensor no longer has is put    *)
(* right, also when the quality it states has not changed.                 *)
HealthCatchesUp ==
  \A s \in Sensors :
    healthTopic[s].named /\ s \notin Subjects(active)
      ~> (healthTopic[s].named => s \in Subjects(active))

(* The same latch, on the retained mode the rest of the system reads: "the *)
(* one mode the system will not leave on its own".                         *)
PublishedHoldLatched ==
  [][modeTopic = "SAFE_HOLD" /\ modeTopic' # "SAFE_HOLD" => resetPending]_vars

(* What the bank keeps true of itself in every state, crashes included:  *)
(* the published mode is the one the held faults call for and names its  *)
(* cause, the budget of degraded operation is spent once and never       *)
(* overdrawn, and what the blackboard retains is what the bank holds     *)
(* (mode_manager.py, service.py).  None of these is inductive by itself: *)
(* the mode follows the faults only where the budget is kept, and the    *)
(* budget is kept only because the mode that spends it has one cause.    *)
IInv ==
  /\ TypeOK
  /\ ModeFollowsFaults
  /\ BudgetBounded
  /\ BlackboardShowsHeld

(* What the bank is told it answers: it publishes no health it has not     *)
(* measured, puts right a health that names a fault the sensor no longer   *)
(* has, stops the loop on a published divergence, and answers a reset once *)
(* nothing is broken (service.py, mode_manager.py).                        *)
BankAnswers ==
  /\ OkHealthIsMeasured
  /\ HealthCatchesUp
  /\ DivergenceStopsLoop
  /\ ResetIsAnswered
============================================================================
