-------------------------- MODULE FaultBank_proofs --------------------------
(***************************************************************************)
(* Proofs about the detector bank, for every set of sensors and every      *)
(* period.  The decision is characterised once (DecideSound); every action *)
(* that publishes a mode then rests on that lemma.                         *)
(***************************************************************************)
EXTENDS FaultBank, TLAPS

LEMMA KeyFacts ==
  /\ DirectKey \subseteq OwnKey /\ OwnKey \subseteq Key
  /\ DriftKey \in OwnKey /\ ActuatorKey \in OwnKey /\ DivergenceKey \in Key
  /\ \A k \in DirectKey : k.detector \in {"D1", "D2", "D3"} /\ k.subject \in Sensors
BY SubjectsAssumption DEF DirectKey, OwnKey, Key, DriftKey, ActuatorKey, DivergenceKey

(* What the impact of a key says about it. *)
LEMMA ImpactFacts ==
  ASSUME NEW k \in Key
  PROVE  /\ Impact(k) \in {"NORMAL", "DEGRADED_SENSOR", "DEGRADED_ACTUATOR", "SAFE_HOLD"}
         /\ Impact(k) = "DEGRADED_ACTUATOR" <=> k = ActuatorKey
         /\ Impact(k) = "SAFE_HOLD" <=> k = DivergenceKey
         /\ Impact(k) = "DEGRADED_SENSOR" => k.subject = Indoor
         /\ Impact(k) # "NORMAL" => k.subject \in {Indoor, Ac}
<1>1. CASE k \in DirectKey
  BY <1>1, KeyFacts DEF Impact, ActuatorKey, DivergenceKey
<1>2. CASE k = DriftKey
  BY <1>2 DEF Impact, DriftKey, ActuatorKey, DivergenceKey
<1>3. CASE k = ActuatorKey
  BY <1>3 DEF Impact, ActuatorKey, DivergenceKey
<1>4. CASE k = DivergenceKey
  BY <1>4 DEF Impact, ActuatorKey, DivergenceKey
<1> QED BY <1>1, <1>2, <1>3, <1>4 DEF Key, OwnKey

(* What a decision `d` shows of the evidence it was made on. *)
Sound(d, m, A, pending, spent) ==
  /\ d \in Mode
  /\ d = "INIT" => m = "INIT"
  /\ d = "NORMAL" => Controlling(A) = {}
  /\ d = "DEGRADED_SENSOR" =>
       /\ Controlling(A) # {}
       /\ \A k \in Controlling(A) : k.subject = Indoor /\ k # DivergenceKey
       /\ ~spent
  /\ d = "DEGRADED_ACTUATOR" => ActuatorKey \in A
  /\ m = "SAFE_HOLD" /\ d # "SAFE_HOLD" => pending /\ d = "NORMAL"
  /\ m \notin OperatorOnlyExits /\ d = "SAFE_HOLD" =>
       \/ DivergenceKey \in A
       \/ {Indoor, Ac} \subseteq Subjects(A)
       \/ spent

LEMMA DecideSound ==
  ASSUME NEW m \in Mode, NEW A \in SUBSET Key,
         NEW pending \in BOOLEAN, NEW reporting \in BOOLEAN, NEW spent \in BOOLEAN
  PROVE  Sound(Decide(m, A, pending, reporting, spent), m, A, pending, spent)
<1> DEFINE C == Controlling(A)
           d == Decide(m, A, pending, reporting, spent)
<1> USE DEF Sound
<1>1. C \subseteq A /\ \A k \in C : Impact(k) # "NORMAL"
  BY DEF Controlling
<1>2. C \subseteq Key
  BY <1>1
<1>3. \A k \in C : k.subject \in {Indoor, Ac}
  BY <1>1, <1>2, ImpactFacts
<1>4. SeveralSubjects(C) => {Indoor, Ac} \subseteq Subjects(A)
  BY <1>1, <1>3 DEF SeveralSubjects, Subjects
<1>5. Reaches(C, "SAFE_HOLD") <=> DivergenceKey \in C
  BY <1>1, <1>2, ImpactFacts, KeyFacts DEF Reaches
<1>6. Reaches(C, "DEGRADED_ACTUATOR") <=> ActuatorKey \in C
  BY <1>1, <1>2, ImpactFacts, KeyFacts DEF Reaches
<1>7. CASE pending /\ C = {}
  <2>1. d = "NORMAL"
    BY <1>7 DEF Decide, Released
  <2> QED BY <2>1, <1>7 DEF Mode
<1>8. CASE ~(pending /\ C = {}) /\ m \in OperatorOnlyExits /\ StillHeld(m, C)
  <2>1. d = m
    BY <1>8 DEF Decide, Released
  <2> QED BY <2>1, <1>8, <1>1, <1>6 DEF OperatorOnlyExits, StillHeld, Mode
<1> DEFINE Freed == /\ ~(pending /\ C = {})
                    /\ ~(m \in OperatorOnlyExits /\ StillHeld(m, C))
<1>9. Freed => m # "SAFE_HOLD"
  BY DEF OperatorOnlyExits, StillHeld
<1>10. CASE Freed /\ m = "INIT" /\ ~reporting
  <2>1. d = "INIT"
    BY <1>10 DEF Decide, Released
  <2> QED BY <2>1, <1>10 DEF Mode
<1>11. CASE Freed /\ ~(m = "INIT" /\ ~reporting) /\ C = {}
  <2>1. d = "NORMAL"
    BY <1>11 DEF Decide, Released
  <2> QED BY <2>1, <1>9, <1>11 DEF Mode
<1> DEFINE Broken == Freed /\ ~(m = "INIT" /\ ~reporting) /\ C # {}
<1>12. CASE Broken /\ (Reaches(C, "SAFE_HOLD") \/ SeveralSubjects(C) \/ spent)
  <2>1. d = "SAFE_HOLD"
    BY <1>12 DEF Decide, Released
  <2> QED BY <2>1, <1>1, <1>4, <1>5, <1>9, <1>12 DEF Mode
<1>13. CASE Broken /\ ~(Reaches(C, "SAFE_HOLD") \/ SeveralSubjects(C) \/ spent)
  <2>1. d = DominantImpact(C)
    BY <1>13 DEF Decide, Released
  <2>2. CASE ActuatorKey \in C
    <3>1. d = "DEGRADED_ACTUATOR"
      BY <2>1, <2>2, <1>6, <1>13 DEF DominantImpact
    <3> QED BY <3>1, <2>2, <1>1, <1>9, <1>13 DEF Mode
  <2>3. CASE ActuatorKey \notin C
    <3>1. d = "DEGRADED_SENSOR"
      BY <2>1, <2>3, <1>6, <1>13 DEF DominantImpact
    <3>2. \A k \in C : k.subject = Indoor /\ k # DivergenceKey
      BY <1>1, <1>2, <1>5, <1>13, <2>3, ImpactFacts
    <3> QED BY <3>1, <3>2, <1>9, <1>13 DEF Mode
  <2> QED BY <2>2, <2>3
<1> QED BY <1>7, <1>8, <1>10, <1>11, <1>12, <1>13

-----------------------------------------------------------------------------
(* Type correctness. *)

LEMMA OneTickOnType ==
  ASSUME NEW cap \in Nat, NEW t \in NotRunning..cap
  PROVE  OneTickOn(t, cap) \in NotRunning..cap
BY DEF OneTickOn, NotRunning, Min2

(* What publishing a mode keeps typed, whatever set of faults it follows. *)
LEMMA PublishModeType ==
  ASSUME TypeOK, NEW A \in SUBSET Key, NEW e \in NotRunning..Budget,
         NEW reporting \in BOOLEAN, PublishMode(A, e, reporting)
  PROVE  /\ mode' \in Mode
         /\ degradedFor' \in NotRunning..Budget
         /\ resetPending' \in BOOLEAN
         /\ faultIds' \subseteq Key
         /\ modeTopic' \in Mode \cup {"none"}
<1>1. Spent(e) \in BOOLEAN
  BY DEF Spent
<1>2. mode' \in Mode
  BY <1>1, DecideSound DEF Sound, PublishMode, TypeOK
<1>3. degradedFor' \in NotRunning..Budget
  BY PeriodsAssumption DEF PublishMode, TrackSubstitution, NotRunning
<1> QED BY <1>2, <1>3 DEF PublishMode, TypeOK

LEMMA InitType == Init => TypeOK
<1> SUFFICES ASSUME Init PROVE TypeOK
  OBVIOUS
<1>1. mode \in Mode /\ modeTopic \in Mode \cup {"none"}
  BY DEF Init, Booted, Mode
<1>2. /\ degradedFor \in NotRunning..Budget
      /\ clearFor \in [Key -> NotRunning..ClearConfirm]
      /\ d5Age \in 0..(D5Window + 1)
  BY PeriodsAssumption DEF Init, Booted, NotRunning
<1>3. healthTopic \in [Sensors -> Health]
  BY DEF Init, Health
<1>4. /\ resetPending \in BOOLEAN /\ roomSeen \in BOOLEAN /\ cooling \in BOOLEAN
      /\ anchored \in BOOLEAN /\ warm \in BOOLEAN /\ drifting \in BOOLEAN
  BY DEF Init, Booted
<1>5. /\ faultIds \subseteq Key /\ active \subseteq Key /\ heard \subseteq Sensors
      /\ faultTopic \subseteq Key /\ staleTopic \subseteq OwnKey
  BY DEF Init, Booted
<1>6. divergences \in Nat
  BY DEF Init
<1> QED BY <1>1, <1>2, <1>3, <1>4, <1>5, <1>6 DEF TypeOK

LEMMA TickType ==
  ASSUME TypeOK, NEW F \in SUBSET DirectKey, NEW C \in SUBSET DirectKey,
         NEW verdict \in Verdict, Tick(F, C, verdict)
  PROVE  TypeOK'
<1> DEFINE faulted   == FaultedIn(F, verdict)
           clear     == ClearIn(C, verdict)
           raised    == Raised(faulted)
           cleared   == Cleared(clear)
           withdrawn == Discredited(raised, (active \cup raised) \ cleared)
           held      == ((active \cup raised) \ cleared) \ withdrawn
<1>1. faulted \subseteq Key /\ raised \subseteq Key
  BY KeyFacts DEF FaultedIn, Raised
<1>2. held \subseteq Key
  BY <1>1 DEF TypeOK
<1>3. active' \subseteq Key
  BY <1>2 DEF Tick
<1>4. clearFor' \in [Key -> NotRunning..ClearConfirm]
  <2>1. \A k \in Key : Countdown(faulted, clear, k) \in NotRunning..ClearConfirm
    <3> TAKE k \in Key
    <3>1. clearFor[k] \in NotRunning..ClearConfirm
      BY DEF TypeOK
    <3>2. OneTickOn(clearFor[k], ClearConfirm) \in NotRunning..ClearConfirm
      BY <3>1, OneTickOnType, PeriodsAssumption
    <3> QED BY <3>2, PeriodsAssumption DEF Countdown, NotRunning
  <2>2. clearFor' = [k \in Key |->
           IF k \in held THEN Countdown(faulted, clear, k) ELSE NotRunning]
    BY DEF Tick
  <2> QED BY <2>1, <2>2, PeriodsAssumption DEF NotRunning
<1>5. d5Age' \in 0..(D5Window + 1)
  <2>1. D5AgeNow(raised) \in 0..(D5Window + 1)
    BY PeriodsAssumption DEF D5AgeNow, Min2, TypeOK
  <2>2. d5Age' = IF ActuatorKey \in held THEN D5AgeNow(raised) ELSE 0
    BY DEF Tick
  <2> QED BY <2>1, <2>2, PeriodsAssumption
<1>6. drifting' \in BOOLEAN /\ anchored' \in BOOLEAN
  BY DEF Tick
<1>7. faultTopic' \subseteq Key
  BY <1>1 DEF Tick, Withdraw, TypeOK
<1>8. healthTopic' \in [Sensors -> Health]
  <2>1. PublishHealth(faulted, clear, held)
    BY DEF Tick
  <2>2. \A s \in Sensors : healthTopic[s] \in Health
    BY DEF TypeOK
  <2>3. \A s \in Sensors :
          [quality |-> IF s \in Subjects(faulted) THEN "FAULTED" ELSE "OK",
           named   |-> s \in Subjects(held)] \in Health
    BY DEF Health, Quality
  <2> QED BY <2>1, <2>2, <2>3 DEF PublishHealth
<1>9. PublishMode(held, OneTickOn(degradedFor, Budget), heard # {})
  BY DEF Tick
<1>10. OneTickOn(degradedFor, Budget) \in NotRunning..Budget
  BY OneTickOnType, PeriodsAssumption DEF TypeOK
<1>11. /\ mode' \in Mode /\ degradedFor' \in NotRunning..Budget
       /\ resetPending' \in BOOLEAN /\ faultIds' \subseteq Key
       /\ modeTopic' \in Mode \cup {"none"}
  BY <1>2, <1>9, <1>10, PublishModeType
<1> QED BY <1>3, <1>4, <1>5, <1>6, <1>7, <1>8, <1>11 DEF Tick, TypeOK

LEMMA NextType == TypeOK /\ [NextWithRestarts]_vars => TypeOK'
<1> SUFFICES ASSUME TypeOK, [NextWithRestarts]_vars PROVE TypeOK'
  OBVIOUS
<1>1. ASSUME NEW s \in Sensors, OnReading(s) PROVE TypeOK'
  BY <1>1 DEF OnReading, TypeOK, managerVars, lifeVars, brokerVars, Trusted
<1>2. CASE OnSuspectReading
  BY <1>2, SubjectsAssumption DEF OnSuspectReading, TypeOK, managerVars, lifeVars, brokerVars
<1>3. ASSUME NEW kind \in {"COOL", "OFF"}, OnCommand(kind) PROVE TypeOK'
  BY <1>3 DEF OnCommand, TypeOK, managerVars, lifeVars, brokerVars
<1>4. CASE OnEstimate
  <2>1. warm' \in BOOLEAN /\ drifting' \in BOOLEAN
    BY <1>4 DEF OnEstimate, TypeOK
  <2> QED BY <1>4, <2>1 DEF OnEstimate, TypeOK, managerVars, lifeVars, brokerVars
<1>5. CASE EstimatorDiverges
  BY <1>5 DEF EstimatorDiverges, TypeOK, managerVars, lifeVars, detectorVars
<1>6. CASE OnFaultAdopted
  <2>1. PublishMode(active \cup {DivergenceKey}, degradedFor, heard # {})
    BY <1>6 DEF OnFaultAdopted
  <2>2. active \cup {DivergenceKey} \in SUBSET Key
    BY KeyFacts DEF TypeOK
  <2>3. degradedFor \in NotRunning..Budget
    BY DEF TypeOK
  <2>4. /\ mode' \in Mode /\ degradedFor' \in NotRunning..Budget
        /\ resetPending' \in BOOLEAN /\ faultIds' \subseteq Key
        /\ modeTopic' \in Mode \cup {"none"}
    BY <2>1, <2>2, <2>3, PublishModeType
  <2>5. active' \subseteq Key /\ faultTopic' \subseteq Key /\ divergences' \in Nat
    BY <1>6, <2>2, KeyFacts DEF OnFaultAdopted, TypeOK
  <2> QED BY <1>6, <2>4, <2>5 DEF OnFaultAdopted, TypeOK, detectorVars
<1>7. ASSUME NEW k \in OwnKey, OnFaultWithdrawn(k) PROVE TypeOK'
  BY <1>7 DEF OnFaultWithdrawn, Withdraw, TypeOK, managerVars, lifeVars, detectorVars
<1>8. CASE OnReset
  <2>1. clearFor' \in [Key -> NotRunning..ClearConfirm] /\ d5Age' \in 0..(D5Window + 1)
    BY <1>8, PeriodsAssumption DEF OnReset, NotRunning
  <2>2. drifting' \in BOOLEAN /\ anchored' \in BOOLEAN
    BY <1>8 DEF OnReset, ResetDetectors
  <2> QED BY <1>8, <2>1, <2>2 DEF OnReset, Withdraw, TypeOK
<1>9. CASE SomeTick
  BY <1>9, TickType DEF SomeTick
<1>10. CASE Restart
  <2>1. clearFor' \in [Key -> NotRunning..ClearConfirm] /\ d5Age' \in 0..(D5Window + 1)
        /\ degradedFor' \in NotRunning..Budget
    BY <1>10, PeriodsAssumption DEF Restart, NotRunning
  <2>2. divergences' \in Nat /\ staleTopic' \subseteq OwnKey
    BY <1>10 DEF Restart, TypeOK
  <2> QED BY <1>10, <2>1, <2>2 DEF Restart, TypeOK, Mode
<1>11. CASE UNCHANGED vars
  BY <1>11 DEF vars, managerVars, detectorVars, lifeVars, brokerVars, TypeOK
<1> QED
  BY <1>1, <1>2, <1>3, <1>4, <1>5, <1>6, <1>7, <1>8, <1>9, <1>10, <1>11
  DEF NextWithRestarts, Next, Handler

LEMMA SpecNext == [Next]_vars => [NextWithRestarts]_vars
BY DEF NextWithRestarts

(* Type correctness of the bank, with and without crashes. *)
THEOREM TypeCorrect == SpecWithRestarts => []TypeOK
BY InitType, NextType, PTL DEF SpecWithRestarts

-----------------------------------------------------------------------------
(* The shape both publications of a mode share: a tick counts one more     *)
(* tick on prediction, an adopted divergence none.                         *)
Publishes(A) ==
  /\ active' = A
  /\ \E e \in {degradedFor, OneTickOn(degradedFor, Budget)} :
       PublishMode(A, e, heard # {})

LEMMA TickPublishes ==
  ASSUME TypeOK, NEW F \in SUBSET DirectKey, NEW C \in SUBSET DirectKey,
         NEW verdict \in Verdict, Tick(F, C, verdict)
  PROVE  Publishes(active') /\ active' \in SUBSET Key
<1>1. Publishes(active')
  BY DEF Tick, Publishes
<1>2. active' \in SUBSET Key
  BY TickType DEF TypeOK
<1> QED BY <1>1, <1>2

LEMMA AdoptionPublishes ==
  ASSUME TypeOK, OnFaultAdopted
  PROVE  Publishes(active') /\ active' \in SUBSET Key
<1>1. Publishes(active')
  BY DEF OnFaultAdopted, Publishes
<1>2. active' \in SUBSET Key
  BY KeyFacts DEF OnFaultAdopted, TypeOK
<1> QED BY <1>1, <1>2

(* What every publication establishes. *)
LEMMA PublishSound ==
  ASSUME IInv, NEW A \in SUBSET Key, Publishes(A)
  PROVE  /\ ModeFollowsFaults' /\ BudgetBounded'
         /\ mode' # "INIT" => modeTopic' = mode'
         /\ mode' \in Mode /\ resetPending' = FALSE
         /\ degradedFor' \in {NotRunning, 0, degradedFor, degradedFor + 1}
         /\ mode' = mode /\ mode = "DEGRADED_SENSOR" =>
              degradedFor' \in {degradedFor, degradedFor + 1}
         /\ mode' # mode /\ mode' = "DEGRADED_SENSOR" => degradedFor' = 0
         /\ mode' # "DEGRADED_SENSOR" => degradedFor' = NotRunning
         /\ mode' = "INIT" => mode = "INIT"
         /\ mode' = "NORMAL" => Controlling(A) = {}
         /\ mode = "SAFE_HOLD" /\ mode' # "SAFE_HOLD" => resetPending /\ mode' = "NORMAL"
         /\ mode = "NORMAL" /\ mode' = "SAFE_HOLD" =>
              DivergenceKey \in A \/ {Indoor, Ac} \subseteq Subjects(A)
<1>1. PICK e \in {degradedFor, OneTickOn(degradedFor, Budget)} :
        PublishMode(A, e, heard # {})
  BY DEF Publishes
<1> DEFINE reporting == heard # {}
           d == Decide(mode, A, resetPending, reporting, Spent(e))
<1>2. /\ mode \in Mode /\ resetPending \in BOOLEAN
      /\ degradedFor \in NotRunning..Budget /\ Budget \in Nat \ {0}
  BY PeriodsAssumption DEF IInv, TypeOK
<1>3. /\ e \in NotRunning..Budget
      /\ degradedFor = NotRunning <=> e = NotRunning
      /\ degradedFor # NotRunning => e \in {degradedFor, degradedFor + 1}
  BY <1>2 DEF OneTickOn, Min2, NotRunning
<1>4. Spent(e) \in BOOLEAN /\ reporting \in BOOLEAN
  BY DEF Spent
<1>5. /\ mode' = d
      /\ degradedFor' = TrackSubstitution(d, e)
      /\ resetPending' = FALSE
      /\ modeTopic' = IF d # mode \/ A # faultIds THEN d ELSE modeTopic
  BY <1>1 DEF PublishMode
<1>6. Sound(d, mode, A, resetPending, Spent(e))
  BY <1>2, <1>4, DecideSound
<1>7. active' = A
  BY DEF Publishes
<1>8. ModeFollowsFaults'
  BY <1>5, <1>6, <1>7
  DEF Sound, ModeFollowsFaults, NormalIsClean, PredictionHasOneCause, HoldIsExplained, Controlling
<1>9. (mode = "DEGRADED_SENSOR") <=> (degradedFor # NotRunning)
  BY DEF IInv, BudgetBounded
<1>10. d = "DEGRADED_SENSOR" => e < Budget
  BY <1>2, <1>3, <1>6 DEF Spent, Sound, NotRunning
<1>11. BudgetBounded'
  BY <1>2, <1>3, <1>5, <1>9, <1>10 DEF BudgetBounded, TrackSubstitution, NotRunning
<1>12. mode' # "INIT" => modeTopic' = mode'
  BY <1>5 DEF IInv, BlackboardShowsHeld
<1>13. mode = "NORMAL" => ~Spent(e)
  BY <1>3, <1>9 DEF Spent
<1>14. mode = "NORMAL" /\ d = "SAFE_HOLD" =>
         DivergenceKey \in A \/ {Indoor, Ac} \subseteq Subjects(A)
  BY <1>6, <1>13 DEF Sound, OperatorOnlyExits
<1>15. /\ d = mode /\ mode = "DEGRADED_SENSOR" =>
            degradedFor' \in {degradedFor, degradedFor + 1}
       /\ d # mode /\ d = "DEGRADED_SENSOR" => degradedFor' = 0
       /\ d # "DEGRADED_SENSOR" => degradedFor' = NotRunning
  BY <1>3, <1>5, <1>9 DEF TrackSubstitution
<1>16. degradedFor' \in {NotRunning, 0, degradedFor, degradedFor + 1}
  BY <1>5, <1>15
<1> QED BY <1>5, <1>6, <1>8, <1>11, <1>12, <1>14, <1>15, <1>16 DEF Sound

(* A step that leaves the managed state and the set of faults alone. *)
LEMMA QuietStep ==
  ASSUME IInv, UNCHANGED <<mode, degradedFor, resetPending, active, faultTopic, modeTopic>>
  PROVE  ModeFollowsFaults' /\ BudgetBounded' /\ BlackboardShowsHeld'
BY DEF IInv, ModeFollowsFaults, NormalIsClean, PredictionHasOneCause, HoldIsExplained,
       Controlling, BudgetBounded, BlackboardShowsHeld

(* The handlers other than a reset and an adoption are quiet. *)
LEMMA HandlersQuiet ==
  ASSUME \/ \E s \in Sensors : OnReading(s)
         \/ OnSuspectReading
         \/ \E kind \in {"COOL", "OFF"} : OnCommand(kind)
         \/ OnEstimate
         \/ \E k \in OwnKey : OnFaultWithdrawn(k)
         \/ EstimatorDiverges
         \/ UNCHANGED vars
  PROVE  UNCHANGED <<mode, degradedFor, resetPending, active, faultTopic, modeTopic>>
BY DEF OnReading, OnSuspectReading, OnCommand, OnEstimate, OnFaultWithdrawn,
       EstimatorDiverges, vars, managerVars, lifeVars, brokerVars, detectorVars

(* A tick keeps its retained faults equal to the ones it holds. *)
LEMMA TickShowsHeld ==
  ASSUME IInv, NEW F, NEW C, NEW verdict, Tick(F, C, verdict)
  PROVE  faultTopic' = active'
BY DEF Tick, Withdraw, IInv, BlackboardShowsHeld

LEMMA ResetKeeps ==
  ASSUME IInv, OnReset
  PROVE  ModeFollowsFaults' /\ BudgetBounded' /\ BlackboardShowsHeld'
<1>1. mode' = mode /\ degradedFor' = degradedFor /\ modeTopic' = modeTopic
      /\ active' = {} /\ resetPending' = TRUE /\ faultTopic' = faultTopic \ active
  BY DEF OnReset, Withdraw
<1>2. Controlling(active)' = {}
  BY <1>1 DEF Controlling
<1> QED BY <1>1, <1>2 DEF IInv, ModeFollowsFaults, NormalIsClean, PredictionHasOneCause,
     HoldIsExplained, BudgetBounded, BlackboardShowsHeld

LEMMA RestartKeeps ==
  ASSUME Restart
  PROVE  ModeFollowsFaults' /\ BudgetBounded' /\ BlackboardShowsHeld'
BY PeriodsAssumption DEF Restart, ModeFollowsFaults, NormalIsClean, PredictionHasOneCause,
   HoldIsExplained, BudgetBounded, BlackboardShowsHeld, NotRunning

LEMMA InitIInv == Init => IInv
<1> SUFFICES ASSUME Init PROVE IInv
  OBVIOUS
<1>1. ModeFollowsFaults /\ BudgetBounded /\ BlackboardShowsHeld
  BY PeriodsAssumption DEF Init, Booted, ModeFollowsFaults, NormalIsClean,
     PredictionHasOneCause, HoldIsExplained, BudgetBounded, BlackboardShowsHeld, NotRunning
<1> QED BY <1>1, InitType DEF IInv

LEMMA NextIInv == IInv /\ [NextWithRestarts]_vars => IInv'
<1> SUFFICES ASSUME IInv, [NextWithRestarts]_vars PROVE IInv'
  OBVIOUS
<1>1. TypeOK'
  BY NextType DEF IInv
<1>2. CASE SomeTick
  <2>1. PICK F \in SUBSET DirectKey, C \in SUBSET DirectKey, verdict \in Verdict :
          Tick(F, C, verdict)
    BY <1>2 DEF SomeTick
  <2>2. Publishes(active') /\ active' \in SUBSET Key
    BY <2>1, TickPublishes DEF IInv
  <2>3. ModeFollowsFaults' /\ BudgetBounded' /\ (mode' # "INIT" => modeTopic' = mode')
    BY <2>2, PublishSound
  <2> QED BY <2>1, <2>3, <1>1, TickShowsHeld DEF IInv, BlackboardShowsHeld
<1>3. CASE OnFaultAdopted
  <2>1. ModeFollowsFaults' /\ BudgetBounded' /\ (mode' # "INIT" => modeTopic' = mode')
    BY <1>3, AdoptionPublishes, PublishSound DEF IInv
  <2>2. faultTopic' = active'
    BY <1>3 DEF OnFaultAdopted, IInv, BlackboardShowsHeld
  <2> QED BY <2>1, <2>2, <1>1 DEF IInv, BlackboardShowsHeld
<1>4. CASE OnReset
  BY <1>1, <1>4, ResetKeeps DEF IInv
<1>5. CASE Restart
  BY <1>1, <1>5, RestartKeeps DEF IInv
<1>6. ASSUME \/ \E s \in Sensors : OnReading(s)
             \/ OnSuspectReading
             \/ \E kind \in {"COOL", "OFF"} : OnCommand(kind)
             \/ OnEstimate
             \/ \E k \in OwnKey : OnFaultWithdrawn(k)
             \/ EstimatorDiverges
             \/ UNCHANGED vars
      PROVE  IInv'
  BY <1>1, <1>6, HandlersQuiet, QuietStep DEF IInv
<1> QED BY <1>2, <1>3, <1>4, <1>5, <1>6 DEF NextWithRestarts, Next, Handler

THEOREM Invariant == SpecWithRestarts => []IInv
BY InitIInv, NextIInv, PTL DEF SpecWithRestarts

LEMMA SpecRestarts == Spec => SpecWithRestarts
BY SpecNext, PTL DEF Spec, SpecWithRestarts

(* In every mode the faults it stands for are held, and in NORMAL none     *)
(* that bears on control is.                                               *)
THEOREM ModeIsExplained == SpecWithRestarts => []ModeFollowsFaults
<1>1. IInv => ModeFollowsFaults
  BY DEF IInv
<1> QED BY <1>1, Invariant, PTL

(* Control on prediction is time-boxed, whatever the period. *)
THEOREM BudgetIsKept == SpecWithRestarts => []BudgetBounded
<1>1. IInv => BudgetBounded
  BY DEF IInv
<1> QED BY <1>1, Invariant, PTL

(* The blackboard shows what the bank holds, across crashes too. *)
THEOREM BlackboardIsCurrent == SpecWithRestarts => []BlackboardShowsHeld
<1>1. IInv => BlackboardShowsHeld
  BY DEF IInv
<1> QED BY <1>1, Invariant, PTL

-----------------------------------------------------------------------------
(* What a step may never do.  Only a tick and an adopted divergence change *)
(* the mode or add a fault.                                                *)

SafeHoldStep ==
  mode = "SAFE_HOLD" /\ mode' # "SAFE_HOLD" =>
    resetPending /\ mode' = "NORMAL" /\ Controlling(active') = {}

EscalationStep ==
  mode = "NORMAL" /\ mode' = "SAFE_HOLD" =>
    DivergenceKey \in active' \/ {Indoor, Ac} \subseteq Subjects(active')

BlameStep ==
  ActuatorKey \notin active /\ ActuatorKey \in active' =>
    /\ Trusted(Indoor)
    /\ \A k \in DirectKey : k.subject = Indoor => k \notin active'

LEMMA OtherSteps ==
  ASSUME IInv, Handler \/ EstimatorDiverges \/ UNCHANGED vars, ~OnFaultAdopted
  PROVE  mode' = mode /\ active' \subseteq active
<1>1. CASE OnReset
  BY <1>1 DEF OnReset
<1> QED BY <1>1, HandlersQuiet DEF Handler

LEMMA PublishingStep ==
  ASSUME IInv, Publishes(active'), active' \in SUBSET Key
  PROVE  SafeHoldStep /\ EscalationStep
BY PublishSound DEF SafeHoldStep, EscalationStep

(* A direct test that faults the indoor sensor withdraws, in the same      *)
(* round, the actuator fault the round raised.                             *)
LEMMA TickBlame ==
  ASSUME IInv, NEW F \in SUBSET DirectKey, NEW C \in SUBSET DirectKey,
         NEW verdict \in Verdict, Tick(F, C, verdict)
  PROVE  BlameStep
<1> DEFINE faulted   == FaultedIn(F, verdict)
           clear     == ClearIn(C, verdict)
           raised    == Raised(faulted)
           cleared   == Cleared(clear)
           withdrawn == Discredited(raised, (active \cup raised) \ cleared)
           held      == ((active \cup raised) \ cleared) \ withdrawn
<1> SUFFICES ASSUME ActuatorKey \notin active, ActuatorKey \in active'
             PROVE  /\ Trusted(Indoor)
                    /\ \A k \in DirectKey : k.subject = Indoor => k \notin active'
  BY DEF BlameStep
<1>1. active' = held
  BY DEF Tick
<1>2. ActuatorKey \in raised /\ ActuatorKey \in faulted
  BY <1>1 DEF Raised
<1>3. ActuatorKey \notin DirectKey /\ ActuatorKey # DriftKey
  BY KeyFacts DEF ActuatorKey, DriftKey
<1>4. Trusted(Indoor)
  BY <1>2, <1>3 DEF FaultedIn, D5Anchored
<1>5. ASSUME NEW k \in DirectKey, k.subject = Indoor, k \in active' PROVE FALSE
  <2>1. k \in raised
    BY <1>1, <1>4, <1>5 DEF Trusted, Subjects
  <2>2. DirectlyFaulted(raised)
    BY <2>1, <1>5 DEF DirectlyFaulted
  <2>3. D5AgeNow(raised) <= D5Window
    BY <1>2, PeriodsAssumption DEF D5AgeNow
  <2>4. ActuatorKey \in withdrawn
    BY <1>1, <2>2, <2>3 DEF Discredited
  <2> QED BY <1>1, <2>4
<1> QED BY <1>4, <1>5

LEMMA StepFacts ==
  ASSUME IInv, [Next]_vars
  PROVE  SafeHoldStep /\ EscalationStep /\ BlameStep
<1>1. CASE SomeTick
  <2>1. PICK F \in SUBSET DirectKey, C \in SUBSET DirectKey, verdict \in Verdict :
          Tick(F, C, verdict)
    BY <1>1 DEF SomeTick
  <2>2. BlameStep
    BY <2>1, TickBlame
  <2>3. SafeHoldStep /\ EscalationStep
    BY <2>1, TickPublishes, PublishingStep DEF IInv
  <2> QED BY <2>2, <2>3
<1>2. CASE OnFaultAdopted
  <2>1. SafeHoldStep /\ EscalationStep
    BY <1>2, AdoptionPublishes, PublishingStep DEF IInv
  <2>2. ActuatorKey # DivergenceKey
    BY DEF ActuatorKey, DivergenceKey
  <2>3. BlameStep
    BY <1>2, <2>2 DEF OnFaultAdopted, BlameStep
  <2> QED BY <2>1, <2>3
<1>3. CASE ~SomeTick /\ ~OnFaultAdopted
  <2>1. mode' = mode /\ active' \subseteq active
    BY <1>3, OtherSteps DEF Next
  <2> QED BY <2>1 DEF SafeHoldStep, EscalationStep, BlameStep
<1> QED BY <1>1, <1>2, <1>3

LEMMA SpecInvariant == Spec => []IInv
BY SpecRestarts, Invariant, PTL

(* While the bank runs, SAFE_HOLD is left only on an operator's reset, to  *)
(* NORMAL, with nothing controlling still faulted.                         *)
THEOREM SafeHoldIsLatched == Spec => SafeHoldLatched
<1>1. IInv /\ [Next]_vars =>
        [mode = "SAFE_HOLD" /\ mode' # "SAFE_HOLD" =>
           /\ resetPending
           /\ mode' = "NORMAL"
           /\ Controlling(active') = {}]_vars
  BY StepFacts DEF SafeHoldStep
<1> QED BY <1>1, SpecInvariant, PTL DEF Spec, SafeHoldLatched

(* The actuator is blamed only on a room temperature nothing has faulted.  *)
THEOREM ActuatorIsJudgedFairly == Spec => ActuatorJudgedOnTrustedRoom
<1>1. IInv /\ [Next]_vars =>
        [ActuatorKey \notin active /\ ActuatorKey \in active' =>
           /\ Trusted(Indoor)
           /\ \A k \in DirectKey : k.subject = Indoor => k \notin active']_vars
  BY StepFacts DEF BlameStep
<1> QED BY <1>1, SpecInvariant, PTL DEF Spec, ActuatorJudgedOnTrustedRoom

(* Escalation from NORMAL counts broken things, not findings. *)
THEOREM EscalationIsByCause == Spec => EscalationCountsSubjects
<1>1. IInv /\ [Next]_vars =>
        [mode = "NORMAL" /\ mode' = "SAFE_HOLD" =>
           \/ DivergenceKey \in active'
           \/ {Indoor, Ac} \subseteq Subjects(active')]_vars
  BY StepFacts DEF EscalationStep
<1> QED BY <1>1, SpecInvariant, PTL DEF Spec, EscalationCountsSubjects

-----------------------------------------------------------------------------
(* The bank implements the contract: a step that publishes a mode maps to  *)
(* one decision, a reset to an acknowledgement, every other to a stutter.  *)
LEMMA PublishingRefines ==
  ASSUME IInv, Publishes(active'), active' \in SUBSET Key
  PROVE  Contract!ContractNext
<1>1. mode \in Mode /\ mode' \in Mode /\ resetPending' = FALSE
  BY PublishSound DEF IInv, TypeOK
<1>2. BudgetBounded'
  BY PublishSound
<1>3. /\ mode' = mode /\ mode = "DEGRADED_SENSOR" =>
           degradedFor' \in {degradedFor, degradedFor + 1}
      /\ mode' # mode /\ mode' = "DEGRADED_SENSOR" => degradedFor' = 0
      /\ mode' # "DEGRADED_SENSOR" => degradedFor' = -1
  BY PublishSound DEF NotRunning
<1>4. /\ mode' = "INIT" => mode = "INIT"
      /\ mode = "SAFE_HOLD" /\ mode' # "SAFE_HOLD" => resetPending /\ mode' = "NORMAL"
  BY PublishSound
<1> USE DEF Contract!Decision
<1>5. CASE mode' = mode
  <2>1. Contract!Stay
    BY <1>1, <1>2, <1>3, <1>5 DEF Contract!Stay, BudgetBounded
  <2> QED BY <2>1 DEF Contract!ContractNext
<1>6. CASE mode' # mode /\ mode' = "DEGRADED_SENSOR"
  <2>1. mode \in {"INIT", "NORMAL", "DEGRADED_ACTUATOR"}
    BY <1>1, <1>4, <1>6 DEF Mode
  <2>2. Contract!Predict
    BY <2>1, <1>1, <1>3, <1>6 DEF Contract!Predict
  <2> QED BY <2>2 DEF Contract!ContractNext
<1>7. CASE mode' # mode /\ mode' = "DEGRADED_ACTUATOR"
  <2>1. mode \in {"INIT", "NORMAL", "DEGRADED_SENSOR"}
    BY <1>1, <1>4, <1>7 DEF Mode
  <2>2. Contract!StopActuating
    BY <2>1, <1>1, <1>3, <1>7 DEF Contract!StopActuating
  <2> QED BY <2>2 DEF Contract!ContractNext
<1>8. CASE mode' # mode /\ mode' = "SAFE_HOLD"
  <2>1. Contract!Hold
    BY <1>1, <1>3, <1>8 DEF Contract!Hold
  <2> QED BY <2>1 DEF Contract!ContractNext
<1>9. CASE mode' # mode /\ mode' = "NORMAL"
  <2>1. Contract!Recover
    BY <1>1, <1>3, <1>4, <1>9 DEF Contract!Recover
  <2> QED BY <2>1 DEF Contract!ContractNext
<1> QED BY <1>1, <1>4, <1>5, <1>6, <1>7, <1>8, <1>9 DEF Mode

LEMMA StepRefines ==
  IInv /\ [Next]_vars => [Contract!ContractNext]_(Contract!contractVars)
<1> SUFFICES ASSUME IInv, [Next]_vars
             PROVE  Contract!ContractNext \/ UNCHANGED Contract!contractVars
  OBVIOUS
<1>1. CASE SomeTick
  <2>1. PICK F \in SUBSET DirectKey, C \in SUBSET DirectKey, verdict \in Verdict :
          Tick(F, C, verdict)
    BY <1>1 DEF SomeTick
  <2> QED BY <2>1, TickPublishes, PublishingRefines DEF IInv
<1>2. CASE OnFaultAdopted
  BY <1>2, AdoptionPublishes, PublishingRefines DEF IInv
<1>3. CASE OnReset
  BY <1>3 DEF OnReset, Contract!ContractNext, Contract!Acknowledge
<1>4. CASE ~SomeTick /\ ~OnFaultAdopted /\ ~OnReset
  BY <1>4, HandlersQuiet DEF Next, Handler, Contract!contractVars
<1> QED BY <1>1, <1>2, <1>3, <1>4

THEOREM Refinement == Spec => ImplementsContract
<1>1. Init => Contract!Start
  BY DEF Init, Booted, Contract!Start, NotRunning
<1> QED BY <1>1, StepRefines, SpecInvariant, PTL
     DEF Spec, ImplementsContract, Contract!ContractSpec

-----------------------------------------------------------------------------
(* What has been said of a sensor.  In one life of the bank whatever is     *)
(* known of the room, D5's window, what D4 has learnt and every health was  *)
(* heard of: the estimator speaks only of a room that was, and a window     *)
(* without a temperature does not count as one.                             *)
Measured ==
  /\ roomSeen \/ anchored \/ warm \/ drifting => Indoor \in heard
  /\ \A s \in Sensors : healthTopic[s].quality # "none" => s \in heard

(* A round finds something only of what has been heard, but for D5, whose   *)
(* subject is no sensor.                                                    *)
LEMMA FoundIsHeard ==
  ASSUME Measured, NEW F \in SUBSET DirectKey, NEW C \in SUBSET DirectKey, DirectMaySay(F, C), NEW verdict \in Verdict,
         NEW s \in Sensors, s \in Subjects(FaultedIn(F, verdict) \cup ClearIn(C, verdict))
  PROVE  s \in heard
<1>1. PICK k \in FaultedIn(F, verdict) \cup ClearIn(C, verdict) : k.subject = s
  BY DEF Subjects
<1>2. CASE k \in F \cup C
  BY <1>1, <1>2 DEF DirectMaySay
<1>3. CASE k = ActuatorKey
  BY <1>1, <1>3, SubjectsAssumption DEF ActuatorKey
<1>4. CASE k = DriftKey /\ k \notin F \cup C
  <2>1. s = Indoor
    BY <1>1, <1>4 DEF DriftKey
  <2>2. DriftKey # ActuatorKey
    BY DEF DriftKey, ActuatorKey
  <2>3. DriftFaulted(verdict) \/ warm
    BY <1>1, <1>4, <2>2 DEF FaultedIn, ClearIn
  <2> QED BY <2>1, <2>3 DEF Measured, DriftFaulted, D5Anchored
<1> QED BY <1>1, <1>2, <1>3, <1>4 DEF FaultedIn, ClearIn

LEMMA TickMeasured ==
  ASSUME IInv, Measured, NEW F \in SUBSET DirectKey, NEW C \in SUBSET DirectKey, DirectMaySay(F, C),
         NEW verdict \in Verdict, Tick(F, C, verdict)
  PROVE  /\ Measured'
         /\ \A s \in Sensors : healthTopic'[s] # healthTopic[s] => s \in heard
<1>1. /\ heard' = heard /\ roomSeen' = roomSeen /\ warm' = warm
      /\ drifting' => DriftFaulted(verdict)
      /\ anchored' => anchored
  BY DEF Tick, D5Anchored
<1>2. ASSUME NEW s \in Sensors, s \notin Subjects(FaultedIn(F, verdict) \cup ClearIn(C, verdict))
      PROVE  healthTopic'[s] = healthTopic[s]
  BY <1>2 DEF Tick, PublishHealth
<1>3. \A s \in Sensors : healthTopic'[s] # healthTopic[s] => s \in heard
  BY <1>2, FoundIsHeard
<1>4. roomSeen' \/ anchored' \/ warm' \/ drifting' => Indoor \in heard
  BY <1>1 DEF Measured, DriftFaulted, D5Anchored
<1> QED BY <1>1, <1>3, <1>4 DEF Measured

LEMMA StepMeasured ==
  ASSUME IInv, Measured, [Next]_vars
  PROVE  /\ Measured'
         /\ \A s \in Sensors : healthTopic'[s] # healthTopic[s] => s \in heard
<1>1. CASE SomeTick
  <2>1. PICK F \in SUBSET DirectKey, C \in SUBSET DirectKey, verdict \in Verdict :
          DirectMaySay(F, C) /\ Tick(F, C, verdict)
    BY <1>1 DEF SomeTick
  <2> QED BY <2>1, TickMeasured
<1>2. ASSUME NEW s \in Sensors, OnReading(s) PROVE Measured' /\ healthTopic' = healthTopic
  BY <1>2 DEF OnReading, Measured, brokerVars
<1>3. CASE OnSuspectReading
  BY <1>3 DEF OnSuspectReading, Measured, brokerVars
<1>4. ASSUME NEW kind \in {"COOL", "OFF"}, OnCommand(kind) PROVE Measured' /\ healthTopic' = healthTopic
  BY <1>4 DEF OnCommand, Measured, brokerVars
<1>5. CASE OnEstimate
  <2>1. /\ warm' \in {warm, TRUE} /\ heard' = heard /\ roomSeen' = roomSeen /\ anchored' = anchored /\ healthTopic' = healthTopic
    BY <1>5 DEF OnEstimate, brokerVars
  <2>2. Indoor \in heard
    BY <1>5, SubjectsAssumption DEF OnEstimate, EstimatorPublishes, Measured
  <2> QED BY <2>1, <2>2 DEF Measured
<1>6. CASE OnFaultAdopted
  BY <1>6 DEF OnFaultAdopted, detectorVars, Measured
<1>7. CASE OnReset
  BY <1>7 DEF OnReset, ResetDetectors, Measured
<1>8. CASE EstimatorDiverges
  BY <1>8 DEF EstimatorDiverges, detectorVars, Measured
<1>9. CASE UNCHANGED vars
  BY <1>9 DEF vars, detectorVars, brokerVars, Measured
<1> QED BY <1>1, <1>2, <1>3, <1>4, <1>5, <1>6, <1>7, <1>8, <1>9 DEF Next, Handler

(* In one life of the bank no sensor is said to be well that it has not     *)
(* heard (service.py, _publish_health).                                     *)
THEOREM HealthIsMeasured == Spec => OkHealthIsMeasured
<1>1. Init => Measured
  BY DEF Init, Booted, NoHealth, Measured
<1>2. IInv /\ Measured /\ [Next]_vars => Measured'
  BY StepMeasured
<1>3. IInv /\ Measured /\ [Next]_vars =>
        [\A s \in Sensors :
           healthTopic'[s].quality = "OK" /\ healthTopic'[s] # healthTopic[s] => s \in heard]_vars
  BY StepMeasured
<1> QED BY <1>1, <1>2, <1>3, SpecInvariant, PTL DEF Spec, OkHealthIsMeasured
=============================================================================
