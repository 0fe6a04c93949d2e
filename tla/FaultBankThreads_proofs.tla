----------------------- MODULE FaultBankThreads_proofs -----------------------
(***************************************************************************)
(* What the bank holds is announced, for any sensors and direct tests and  *)
(* any number of faults, resets and deaths, however the two threads        *)
(* interleave.                                                             *)
(*                                                                         *)
(* No lock keeps a handler from withdrawing what the other thread has just *)
(* raised.  What does is that an identifier is never used twice, and that  *)
(* a divergence, which the bank adopts from the blackboard, is delivered   *)
(* to it once in a life: it is on its way, in the handler's hand, or held. *)
(*                                                                         *)
(* And what a person is told of a fault is true, for any occurrences of    *)
(* faults, any size of the inbox and any plot of restarts and broken       *)
(* links.                                                                  *)
(***************************************************************************)
EXTENDS FaultBankThreads, FaultDesk, FiniteSetTheorems, SequenceTheorems, WellFoundedInduction, NaturalsInduction, TLAPS

-----------------------------------------------------------------------------
(* Every fault there is has been numbered. *)
Numbered ==
  \A f \in active \cup raised \cup cleared \cup inHand \cup inbox \cup retained \cup snap["net"] : f.n <= minted

(* The tick's outcome waits for its announcement, and is the bank's own. *)
OutcomeIsOwn ==
  /\ pc["main"] # "announce" => raised = {} /\ cleared = {}
  /\ \A f \in raised \cup cleared : f.key \in OwnKey
  /\ cleared \cap active = {}

(* A divergence on its way is on the blackboard and not held, and no reset *)
(* that is being carried out has listed it.                                *)
Resetting == pc["net"] \in {"clear", "acknowledge"}
Arriving(f) ==
  /\ f \in retained /\ f \notin active
  /\ Resetting => f \notin snap["net"]

DeliveredOnce ==
  /\ \A f \in inbox \cup inHand : f.key \notin OwnKey => Arriving(f)
  /\ \A f \in inbox \cap inHand : f.key \in OwnKey

(* What a reset has retired is not held again when it is withdrawn. *)
RetiredIsGone == pc["net"] = "acknowledge" => snap["net"] \cap active = {}

IInv ==
  /\ ThreadsAgree
  /\ Numbered
  /\ OutcomeIsOwn
  /\ DeliveredOnce
  /\ RetiredIsGone

-----------------------------------------------------------------------------
LEMMA Decided ==
  ASSUME NEW m \in Mode, NEW F, NEW pending, NEW reporting, NEW spent
  PROVE  Decide(m, F, pending, reporting, spent) \in Mode
BY DEF Decide, DominantImpact, OperatorOnlyExits, Mode

LEMMA JudgedIsOwn == Judged \subseteq OwnKey /\ OwnKey \subseteq Key /\ DivergenceKey \in Key
BY ThreadBounds DEF ThreadBounds, Key

LEMMA DivergenceIsNotOwn == DivergenceKey \notin OwnKey
BY SubjectsAssumption DEF SubjectsAssumption, OwnKey, DirectKey, DriftKey, ActuatorKey, DivergenceKey

LEMMA FaultParts == \A f \in Fault : f.key \in Key /\ f.n \in Nat /\ f.n >= 1
BY ThreadBounds DEF ThreadBounds, Fault

(* The numbers: MaxRaises and minted. *)
LEMMA Minting ==
  ASSUME TypeOK, minted < MaxRaises
  PROVE  /\ minted \in Nat /\ minted + 1 \in 0..MaxRaises
         /\ \A k \in Key : [key |-> k, n |-> minted + 1] \in Fault
BY ThreadBounds DEF TypeOK, ThreadBounds, Fault

LEMMA Dooming ==
  ASSUME TypeOK, NEW t \in Thread, NEW resized \in BOOLEAN, MayDoom(t, resized)
  PROVE  doomed' \subseteq Thread /\ deaths' \in 0..MaxDeaths
<1>1. deaths \in 0..MaxDeaths /\ MaxDeaths \in Nat /\ doomed \subseteq Thread
  BY ThreadBounds DEF TypeOK, ThreadBounds
<1>2. CASE UNCHANGED <<doomed, deaths>>
  BY <1>1, <1>2
<1>3. CASE deaths < MaxDeaths /\ deaths' = deaths + 1 /\ doomed' = doomed \cup {t}
  BY <1>1, <1>3
<1> QED BY <1>2, <1>3 DEF MayDoom

LEMMA InitTyped == Init => TypeOK
<1> SUFFICES ASSUME Init PROVE TypeOK
  OBVIOUS
<1>1. minted \in 0..MaxRaises /\ resets \in 0..MaxResets /\ deaths \in 0..MaxDeaths
  BY ThreadBounds DEF Init, ThreadBounds
<1>2. /\ pc \in [Thread -> Pc] /\ snap \in [Thread -> SUBSET Fault] /\ target \in [Thread -> Mode]
      /\ mode \in Mode
  BY DEF Init, Idle, NoFaults, Mode, Pc
<1> QED BY <1>1, <1>2 DEF Init, TypeOK

LEMMA StepTyped == TypeOK /\ [Next]_vars => TypeOK'
<1> SUFFICES ASSUME TypeOK, [Next]_vars PROVE TypeOK'
  OBVIOUS
<1>1. ASSUME NEW t \in Thread, PublishSteps(t) PROVE TypeOK'
  <2>1. CASE ListActive(t)
    BY <2>1 DEF ListActive, Goes, TypeOK, Pc, managerVars, brokerVars
  <2>2. CASE TakeReset(t)
    BY <2>2 DEF TakeReset, Goes, TypeOK, Pc, Mode, brokerVars
  <2>3. CASE DecideMode(t)
    <3>1. PICK spent \in BOOLEAN :
            target' = [target EXCEPT ![t] = Decide(mode, Keys(snap[t]), FALSE, TRUE, spent)]
      BY <2>3 DEF DecideMode
    <3>2. Decide(mode, Keys(snap[t]), FALSE, TRUE, spent) \in Mode
      BY Decided DEF TypeOK
    <3> QED BY <2>3, <3>1, <3>2 DEF DecideMode, Goes, TypeOK, Pc, managerVars, brokerVars
  <2>4. CASE Transition(t)
    BY <2>4 DEF Transition, Goes, Forgets, TypeOK, Pc, Mode, brokerVars
  <2>5. CASE PublishMode(t)
    BY <2>5 DEF PublishMode, Goes, Forgets, TypeOK, Pc, Mode, managerVars
  <2> QED BY <1>1, <2>1, <2>2, <2>3, <2>4, <2>5 DEF PublishSteps
<1>2. ASSUME StartTick PROVE TypeOK'
  BY <1>2 DEF StartTick, Goes, TypeOK, Pc, Thread, managerVars, brokerVars
<1>3. ASSUME NEW found \in SUBSET Judged, NEW gone \in SUBSET {f \in active : f.key \in OwnKey},
             Ingest(found, gone)
      PROVE  TypeOK'
  <2>1. minted' \in 0..MaxRaises /\ raised' \subseteq Fault
    <3>1. CASE found = {}
      BY <1>3, <3>1 DEF Ingest, TypeOK
    <3>2. CASE found # {}
      BY <1>3, <3>2, Minting, JudgedIsOwn DEF Ingest
    <3> QED BY <3>1, <3>2
  <2>2. cleared' \subseteq Fault /\ active' \subseteq Fault
    BY <1>3, <2>1 DEF Ingest, TypeOK
  <2>3. doomed' \subseteq Thread /\ deaths' \in 0..MaxDeaths
    BY <1>3, Dooming DEF Ingest, Thread
  <2> QED BY <1>3, <2>1, <2>2, <2>3 DEF Ingest, Goes, TypeOK, Pc, managerVars, brokerVars
<1>4. ASSUME Announce PROVE TypeOK'
  BY <1>4 DEF Announce, Withdraw, Goes, TypeOK, Pc, managerVars
<1>5. ASSUME TickDies PROVE TypeOK'
  BY <1>5 DEF TickDies, Restart, TypeOK, Idle, NoFaults, Mode, Pc, Thread
<1>6. ASSUME NEW f \in inbox, Receive(f) PROVE TypeOK'
  BY <1>6 DEF Receive, Goes, TypeOK, Pc, managerVars
<1>7. ASSUME OnFault PROVE TypeOK'
  <2>1. active' \subseteq active \cup inHand /\ retained' \subseteq retained
    BY <1>7 DEF OnFault, Withdraw
  <2>2. doomed' \subseteq Thread /\ deaths' \in 0..MaxDeaths
    <3>1. PICK resized \in BOOLEAN : MayDoom("main", resized)
      BY <1>7 DEF OnFault
    <3> QED BY <3>1, Dooming DEF Thread
  <2>3. pc' \in [Thread -> Pc]
    BY <1>7 DEF OnFault, Goes, TypeOK, Pc
  <2> QED BY <1>7, <2>1, <2>2, <2>3 DEF OnFault, TypeOK, managerVars
<1>8. ASSUME ReceiveReset \/ RetireList PROVE TypeOK'
  <2>1. CASE ReceiveReset
    BY <2>1 DEF ReceiveReset, Goes, TypeOK, Pc, managerVars
  <2>2. CASE RetireList
    BY <2>2 DEF RetireList, Goes, TypeOK, Pc, managerVars, brokerVars
  <2> QED BY <1>8, <2>1, <2>2
<1>9. ASSUME RetireClear PROVE TypeOK'
  <2>1. doomed' \subseteq Thread /\ deaths' \in 0..MaxDeaths
    BY <1>9, Dooming DEF RetireClear, Thread
  <2> QED BY <1>9, <2>1 DEF RetireClear, Goes, TypeOK, Pc, managerVars, brokerVars
<1>10. ASSUME Acknowledge PROVE TypeOK'
  BY <1>10 DEF Acknowledge, Withdraw, Forgets, Goes, TypeOK, Pc, Mode
<1>11. ASSUME HandlerDies PROVE TypeOK'
  BY <1>11 DEF HandlerDies, Goes, TypeOK, Pc, managerVars, brokerVars
<1>12. ASSUME EstimatorDiverges PROVE TypeOK'
  <2> DEFINE new == [key |-> DivergenceKey, n |-> minted + 1]
  <2>1. new \in Fault /\ minted' \in 0..MaxRaises
    BY <1>12, Minting, JudgedIsOwn DEF EstimatorDiverges
  <2>2. retained' = retained \cup {new} /\ inbox' = inbox \cup {new}
    BY <1>12 DEF EstimatorDiverges
  <2> HIDE DEF new
  <2> QED BY <1>12, <2>1, <2>2 DEF EstimatorDiverges, TypeOK, managerVars, threadVars
<1>13. ASSUME OperatorResets PROVE TypeOK'
  BY <1>13, ThreadBounds DEF OperatorResets, ThreadBounds, TypeOK, managerVars, threadVars
<1>14. CASE UNCHANGED vars
  BY <1>14 DEF vars, TypeOK, managerVars, threadVars, brokerVars
<1> QED
  BY <1>1, <1>2, <1>3, <1>4, <1>5, <1>6, <1>7, <1>8, <1>9, <1>10, <1>11, <1>12, <1>13, <1>14
     DEF Next, MainStep, NetStep, Thread

-----------------------------------------------------------------------------
LEMMA InitInv == Init => IInv
<1> SUFFICES ASSUME Init PROVE IInv
  OBVIOUS
<1>1. TypeOK
  BY InitTyped
<1>2. /\ active = {} /\ raised = {} /\ cleared = {} /\ inHand = {} /\ inbox = {} /\ retained = {}
      /\ snap["net"] = {} /\ pc["net"] = "idle"
  BY DEF Init, NoFaults, Idle, Thread
<1> QED
  BY <1>1, <1>2 DEF IInv, ThreadsAgree, HeldIsAnnounced, Numbered, OutcomeIsOwn, DeliveredOnce, RetiredIsGone

(* What a thread does with the mode touches neither the faults nor a reset; *)
(* what the network thread lists then is held by the bank.                  *)
LEMMA PublishStep ==
  ASSUME IInv, TypeOK', NEW t \in Thread, PublishSteps(t)
  PROVE  IInv'
<1>1. UNCHANGED <<active, raised, cleared, inHand, inbox, retained, minted>>
  BY DEF PublishSteps, ListActive, TakeReset, DecideMode, Transition, PublishMode, brokerVars
<1>2. /\ pc[t] \notin {"announce", "clear", "acknowledge"} /\ pc'[t] \notin {"announce", "clear", "acknowledge"}
      /\ \A s \in Thread \ {t} : pc'[s] = pc[s] /\ snap'[s] = snap[s]
      /\ snap'[t] \in {snap[t], active, {}}
  BY DEF PublishSteps, ListActive, TakeReset, DecideMode, Transition, PublishMode, At, Goes, Forgets,
         IInv, ThreadsAgree, TypeOK
<1>3. snap'["net"] \in {snap["net"], active, {}} /\ (pc'["net"] \in {"clear", "acknowledge"} => pc'["net"] = pc["net"] /\ snap'["net"] = snap["net"])
  BY <1>2 DEF Thread
<1>4. pc'["main"] # "announce" => pc["main"] # "announce"
  BY <1>2 DEF Thread
<1>5. Numbered'
  BY <1>1, <1>3 DEF IInv, Numbered
<1>6. OutcomeIsOwn'
  BY <1>1, <1>4 DEF IInv, OutcomeIsOwn
<1>7. DeliveredOnce'
  BY <1>1, <1>3 DEF IInv, DeliveredOnce, Arriving, Resetting
<1>8. RetiredIsGone'
  BY <1>1, <1>3 DEF IInv, RetiredIsGone
<1>9. HeldIsAnnounced'
  BY <1>1 DEF IInv, ThreadsAgree, HeldIsAnnounced
<1> QED BY <1>5, <1>6, <1>7, <1>8, <1>9 DEF IInv, ThreadsAgree

(* The tick: what it raises has numbers of its own, and what it clears and *)
(* withdraws are the bank's own faults, none of them held any more.        *)
LEMMA IngestStep ==
  ASSUME IInv, TypeOK',
         NEW found \in SUBSET Judged, NEW gone \in SUBSET {f \in active : f.key \in OwnKey},
         Ingest(found, gone)
  PROVE  IInv'
<1>1. TypeOK
  BY DEF IInv, ThreadsAgree
<1>2. /\ raised' = {[key |-> k, n |-> minted + 1] : k \in found} /\ cleared' = gone
      /\ active' = (active \cup raised') \ gone
      /\ UNCHANGED <<inHand, inbox, retained, snap>>
      /\ pc["main"] = "ingest" /\ pc' = [pc EXCEPT !["main"] = "announce"]
      /\ minted' = IF found = {} THEN minted ELSE minted + 1
  BY DEF Ingest, At, Goes, brokerVars
<1>3. minted \in Nat /\ minted' \in Nat /\ minted <= minted'
  BY <1>1, <1>2 DEF TypeOK
<1>4. \A f \in raised' : f.n = minted + 1 /\ f.n <= minted' /\ f.key \in OwnKey
  BY <1>2, <1>3, JudgedIsOwn
<1>5. raised = {} /\ cleared = {}
  BY <1>2 DEF IInv, OutcomeIsOwn
<1>6. pc'["net"] = pc["net"] /\ pc'["main"] = "announce"
  BY <1>1, <1>2 DEF TypeOK, Thread
<1>7. \A f \in active \cup inHand \cup inbox \cup retained \cup snap["net"] : f.n <= minted /\ f \in Fault
  BY <1>1 DEF IInv, Numbered, TypeOK, Thread
<1>8. \A f \in active \cup inHand \cup inbox \cup retained \cup snap["net"] : f.n <= minted' /\ f \notin raised'
  BY <1>3, <1>4, <1>7, FaultParts
<1>9. Numbered'
  BY <1>2, <1>4, <1>8 DEF Numbered
<1>10. OutcomeIsOwn'
  BY <1>2, <1>4, <1>6 DEF OutcomeIsOwn
<1>11. DeliveredOnce'
  BY <1>2, <1>6, <1>8 DEF IInv, DeliveredOnce, Arriving, Resetting
<1>12. RetiredIsGone'
  BY <1>2, <1>6, <1>8 DEF IInv, RetiredIsGone
<1>13. HeldIsAnnounced'
  BY <1>2, <1>5 DEF IInv, ThreadsAgree, HeldIsAnnounced
<1> QED BY <1>9, <1>10, <1>11, <1>12, <1>13 DEF IInv, ThreadsAgree

LEMMA AnnounceStep ==
  ASSUME IInv, TypeOK', Announce
  PROVE  IInv'
<1>1. /\ retained' = (retained \ cleared) \cup (raised \ cleared) /\ inbox' = inbox \cup raised
      /\ raised' = {} /\ cleared' = {} /\ pc' = [pc EXCEPT !["main"] = "list"]
      /\ UNCHANGED <<active, inHand, snap, minted>>
  BY DEF Announce, Withdraw, Goes
<1>2. pc'["net"] = pc["net"]
  BY <1>1 DEF IInv, ThreadsAgree, TypeOK, Thread
<1>3. Numbered'
  BY <1>1 DEF IInv, Numbered
<1>4. OutcomeIsOwn'
  BY <1>1 DEF OutcomeIsOwn
<1>5. DeliveredOnce'
  BY <1>1, <1>2 DEF IInv, OutcomeIsOwn, DeliveredOnce, Arriving, Resetting
<1>6. RetiredIsGone'
  BY <1>1, <1>2 DEF IInv, RetiredIsGone
<1>7. HeldIsAnnounced'
  BY <1>1 DEF IInv, OutcomeIsOwn, ThreadsAgree, HeldIsAnnounced
<1> QED BY <1>3, <1>4, <1>5, <1>6, <1>7 DEF IInv, ThreadsAgree

(* The handlers: only a divergence is adopted, and it is on the blackboard; *)
(* what is withdrawn is not held.                                           *)
LEMMA OnFaultStep ==
  ASSUME IInv, TypeOK', OnFault
  PROVE  IInv'
<1> DEFINE own == {f \in inHand : Stale(f)}
           adopts == {f \in inHand \ own : f.key \notin Keys(active)}
<1>1. /\ active' = active \cup adopts /\ retained' = retained \ own /\ inHand' = {}
      /\ pc["net"] = "checking" /\ pc'["net"] \in {"idle", "list"} /\ pc'["main"] = pc["main"]
      /\ UNCHANGED <<raised, cleared, inbox, snap, minted>>
  BY DEF OnFault, At, Goes, Withdraw, IInv, ThreadsAgree, TypeOK, Thread
<1>2. \A f \in own : f \in inHand /\ f.key \in OwnKey /\ f \notin active
  BY DEF Stale
<1>3. \A f \in adopts : f \in inHand /\ f.key \notin OwnKey
  BY DEF Stale, Keys
<1> HIDE DEF own, adopts
<1>4. Numbered'
  BY <1>1, <1>3 DEF IInv, Numbered
<1>5. OutcomeIsOwn'
  BY <1>1, <1>3 DEF IInv, OutcomeIsOwn
<1>6. DeliveredOnce'
  BY <1>1, <1>2, <1>3 DEF IInv, DeliveredOnce, Arriving, Resetting
<1>7. RetiredIsGone'
  BY <1>1 DEF RetiredIsGone
<1>8. HeldIsAnnounced'
  BY <1>1, <1>2, <1>3 DEF IInv, DeliveredOnce, Arriving, ThreadsAgree, HeldIsAnnounced
<1> QED BY <1>4, <1>5, <1>6, <1>7, <1>8 DEF IInv, ThreadsAgree

LEMMA HandlerStep ==
  ASSUME IInv, TypeOK',
         \/ \E f \in inbox : Receive(f)
         \/ ReceiveReset \/ RetireList \/ RetireClear \/ Acknowledge \/ HandlerDies
  PROVE  IInv'
<1> USE DEF IInv
<1>1. TypeOK
  BY DEF ThreadsAgree
<1>2. ASSUME NEW f \in inbox, Receive(f) PROVE IInv'
  <2>1. /\ inbox' = inbox \ {f} /\ inHand' = {f} /\ pc'["net"] = "checking" /\ pc'["main"] = pc["main"]
        /\ UNCHANGED <<active, raised, cleared, retained, snap, minted>>
    BY <1>1, <1>2 DEF Receive, Goes, TypeOK, Thread
  <2> QED BY <2>1 DEF ThreadsAgree, HeldIsAnnounced, Numbered, OutcomeIsOwn, DeliveredOnce, Arriving,
                      Resetting, RetiredIsGone
<1>3. ASSUME ReceiveReset \/ HandlerDies PROVE IInv'
  <2>1. /\ inHand' \subseteq inHand /\ pc'["net"] \in {"retire", "idle"} /\ pc'["main"] = pc["main"]
        /\ UNCHANGED <<active, raised, cleared, inbox, retained, snap, minted>>
    BY <1>1, <1>3 DEF ReceiveReset, HandlerDies, Goes, TypeOK, Thread, brokerVars
  <2> QED BY <2>1 DEF ThreadsAgree, HeldIsAnnounced, Numbered, OutcomeIsOwn, DeliveredOnce, Arriving,
                      Resetting, RetiredIsGone
<1>4. ASSUME RetireList PROVE IInv'
  <2>1. /\ snap'["net"] = active /\ pc'["net"] = "clear" /\ pc'["main"] = pc["main"]
        /\ UNCHANGED <<active, raised, cleared, inHand, inbox, retained, minted>>
    BY <1>1, <1>4 DEF RetireList, Goes, TypeOK, Thread, brokerVars
  <2> QED BY <2>1 DEF ThreadsAgree, HeldIsAnnounced, Numbered, OutcomeIsOwn, DeliveredOnce, Arriving,
                      Resetting, RetiredIsGone
<1>5. ASSUME RetireClear PROVE IInv'
  <2>1. /\ active' = {} /\ pc["net"] = "clear" /\ pc'["net"] = "acknowledge" /\ pc'["main"] = pc["main"]
        /\ UNCHANGED <<raised, cleared, inHand, inbox, retained, snap, minted>>
    BY <1>1, <1>5 DEF RetireClear, At, Goes, TypeOK, Thread, brokerVars
  <2> QED BY <2>1 DEF ThreadsAgree, HeldIsAnnounced, Numbered, OutcomeIsOwn, DeliveredOnce, Arriving,
                      Resetting, RetiredIsGone
<1>6. ASSUME Acknowledge PROVE IInv'
  <2>1. /\ retained' = retained \ snap["net"] /\ snap'["net"] = {} /\ pc["net"] = "acknowledge"
        /\ pc'["net"] = "idle" /\ pc'["main"] = pc["main"]
        /\ UNCHANGED <<active, raised, cleared, inHand, inbox, minted>>
    BY <1>1, <1>6 DEF Acknowledge, Withdraw, At, Goes, Forgets, TypeOK, Thread
  <2> QED BY <2>1 DEF ThreadsAgree, HeldIsAnnounced, Numbered, OutcomeIsOwn, DeliveredOnce, Arriving,
                      Resetting, RetiredIsGone
<1> QED BY <1>2, <1>3, <1>4, <1>5, <1>6

(* A restart holds nothing and is told all that is on the blackboard. *)
LEMMA OtherStep ==
  ASSUME IInv, TypeOK', StartTick \/ TickDies \/ EstimatorDiverges \/ OperatorResets \/ UNCHANGED vars
  PROVE  IInv'
<1> USE DEF IInv
<1>1. TypeOK
  BY DEF ThreadsAgree
<1>2. ASSUME StartTick PROVE IInv'
  <2>1. /\ pc["main"] = "idle" /\ pc'["net"] = pc["net"] /\ pc'["main"] = "ingest"
        /\ UNCHANGED <<active, raised, cleared, inHand, inbox, retained, snap, minted>>
    BY <1>1, <1>2 DEF StartTick, At, Goes, TypeOK, Thread, brokerVars
  <2> QED BY <2>1 DEF ThreadsAgree, HeldIsAnnounced, Numbered, OutcomeIsOwn, DeliveredOnce, Arriving,
                      Resetting, RetiredIsGone
<1>3. ASSUME TickDies PROVE IInv'
  <2>1. /\ active' = {} /\ raised' = {} /\ cleared' = {} /\ inHand' = {} /\ inbox' = retained
        /\ snap'["net"] = {} /\ pc'["net"] = "idle" /\ UNCHANGED <<retained, minted>>
    BY <1>3 DEF TickDies, Restart, Idle, NoFaults, Thread
  <2> QED BY <2>1 DEF ThreadsAgree, HeldIsAnnounced, Numbered, OutcomeIsOwn, DeliveredOnce, Arriving,
                      Resetting, RetiredIsGone
<1>4. ASSUME EstimatorDiverges PROVE IInv'
  <2> DEFINE new == [key |-> DivergenceKey, n |-> minted + 1]
  <2>1. /\ retained' = retained \cup {new} /\ inbox' = inbox \cup {new} /\ minted' = minted + 1
        /\ UNCHANGED <<active, raised, cleared, inHand, snap, pc>>
    BY <1>4 DEF EstimatorDiverges, threadVars
  <2>2. minted \in Nat /\ new.n = minted + 1
    BY <1>1 DEF TypeOK
  <2>3. \A f \in active \cup raised \cup cleared \cup inHand \cup inbox \cup retained \cup snap["net"] :
          f.n <= minted' /\ f # new
    <3>1. \A f \in active \cup raised \cup cleared \cup inHand \cup inbox \cup retained \cup snap["net"] :
            f.n <= minted /\ f.n \in Nat
      BY <1>1, FaultParts DEF Numbered, TypeOK, Thread
    <3> HIDE DEF new
    <3> QED BY <2>1, <2>2, <3>1
  <2> HIDE DEF new
  <2>4. Numbered'
    BY <2>1, <2>2, <2>3 DEF Numbered
  <2> QED BY <2>1, <2>3, <2>4 DEF ThreadsAgree, HeldIsAnnounced, OutcomeIsOwn, DeliveredOnce, Arriving,
                                  Resetting, RetiredIsGone
<1>5. ASSUME UNCHANGED <<active, raised, cleared, inHand, inbox, retained, snap, minted, pc>> PROVE IInv'
  BY <1>5 DEF ThreadsAgree, HeldIsAnnounced, Numbered, OutcomeIsOwn, DeliveredOnce, Arriving,
              Resetting, RetiredIsGone
<1>6. ASSUME OperatorResets \/ UNCHANGED vars PROVE IInv'
  BY <1>5, <1>6 DEF OperatorResets, vars, threadVars, brokerVars
<1> QED BY <1>2, <1>3, <1>4, <1>6

LEMMA InvStep == IInv /\ [Next]_vars => IInv'
<1> SUFFICES ASSUME IInv, [Next]_vars PROVE IInv'
  OBVIOUS
<1>1. TypeOK'
  BY StepTyped DEF IInv, ThreadsAgree
<1> QED
  BY <1>1, PublishStep, IngestStep, AnnounceStep, OnFaultStep, HandlerStep, OtherStep
     DEF Next, MainStep, NetStep, Thread

(* However the tick and the handlers interleave, whatever the detectors     *)
(* find, and whichever thread dies of the other's changes: what the bank    *)
(* holds is on the blackboard, or is about to be announced by the tick that *)
(* raised it (service.py, aggregator.py).                                   *)
THEOREM ThreadsKept == Spec => []ThreadsAgree
<1>1. IInv => ThreadsAgree
  BY DEF IInv
<1> QED BY <1>1, InitInv, InvStep, PTL DEF Spec

-----------------------------------------------------------------------------
(* The desk: lists. *)

LEMMA DeskConstants ==
  /\ Kept \in Nat /\ Kept >= 1 /\ Plots \subseteq PlotType
  /\ \A f \in FaultIds : f \notin Mode /\ f # Never
  /\ \A m \in Mode : m # Never
  /\ Never # "NONE" /\ Never # "FAULT"
BY DeskAssumption

LEMMA FunctionIsList ==
  ASSUME NEW S, NEW n \in Nat, NEW f \in [1..n -> S]
  PROVE  f \in Seq(S) /\ Len(f) = n /\ DOMAIN f = 1..n
<1>1. f \in Seq(S)
  BY SeqDef
<1>2. DOMAIN f = 1..n /\ DOMAIN f = 1..Len(f) /\ Len(f) \in Nat
  BY <1>1, LenProperties
<1> QED BY <1>1, <1>2

(* A finite set, listed: nothing twice. *)
LEMMA ListOfSet ==
  ASSUME NEW S, IsFiniteSet(S)
  PROVE  SetToSeq(S) \in Seq(S) /\ IsInjective(SetToSeq(S))
<1> DEFINE n == Cardinality(S)
<1>1. n \in Nat /\ ExistsBijection(1..n, S)
  BY FS_CardinalityType
<1>2. \E f \in [1..n -> S] : IsInjective(f)
  BY <1>1 DEF ExistsBijection, Bijection, Injection, IsInjective
<1>3. SetToSeq(S) \in [1..n -> S] /\ IsInjective(SetToSeq(S))
  BY <1>2 DEF SetToSeq
<1> HIDE DEF n
<1> QED BY <1>1, <1>3, FunctionIsList

(* The greatest of the places of a list. *)
LEMMA Greatest ==
  ASSUME NEW n \in Nat, NEW I, I \subseteq 1..n, I # {}
  PROVE  Max(I) \in I /\ \A i \in I : i <= Max(I)
<1> DEFINE D == {k \in Nat : n - k \in I}
           less == OpToRel(<, Nat)
<1>1. D # {} /\ D \subseteq Nat
  <2>1. PICK i \in I : TRUE
    OBVIOUS
  <2>2. n - i \in Nat /\ n - (n - i) = i
    BY <2>1
  <2> QED BY <2>1, <2>2
<1> HIDE DEF D
<1>2. \E k \in D : \A j \in D : <<j, k>> \notin less
  BY <1>1, NatLessThanWellFounded, WFMin
<1>3. \A i, j \in Nat : j < i => <<j, i>> \in less
  BY DEF OpToRel
<1> HIDE DEF less
<1>4. PICK k \in D : \A j \in D : <<j, k>> \notin less
  BY <1>2
<1>5. k \in Nat /\ \A j \in D : j \in Nat /\ ~(j < k)
  BY <1>1, <1>3, <1>4
<1>6. n - k \in I
  BY <1>4 DEF D
<1>7. ASSUME NEW i \in I PROVE n - k >= i
  <2>1. i \in 1..n /\ n - i \in Nat /\ n - (n - i) = i
    BY <1>7
  <2>2. n - i \in D
    BY <2>1 DEF D
  <2> QED BY <1>5, <2>1, <2>2
<1>8. \E x \in I : \A y \in I : x >= y
  BY <1>6, <1>7
<1>9. Max(I) \in I /\ \A y \in I : Max(I) >= y
  BY <1>8 DEF Max
<1> QED BY <1>9

-----------------------------------------------------------------------------
(* The inbox. *)

Desks == [mode : Mode \cup {Never}, faults : SUBSET FaultIds, diagnoses : SUBSET FaultIds,
          injections : SUBSET Subjects, inbox : Seq(Item), file : Seq(Item), n : Nat, run : Nat]

(* An inbox keeps the last messages there were, numbered as they came.     *)
Filed(items, n) ==
  /\ Len(items) = IF n < Kept THEN n ELSE Kept
  /\ \A i \in 1..Len(items) : items[i].n = n - Len(items) + i

Sound(d) == d \in Desks /\ d.file = d.inbox /\ Filed(d.inbox, d.n)

Letter(d, news, i) ==
  [n |-> d.n + i, kind |-> IF news[i] \in Mode THEN "mode" ELSE "fault", about |-> news[i], run |-> d.run]

(* The inbox of e is that of d with the news behind it, off of them gone.  *)
Slides(d, news, e, off) ==
  /\ off + Len(e.inbox) = Len(d.inbox) + Len(news)
  /\ off > 0 => Len(e.inbox) = Kept
  /\ \A i \in 1..Len(e.inbox) :
       e.inbox[i] = IF i + off <= Len(d.inbox) THEN d.inbox[i + off] ELSE Letter(d, news, i + off - Len(d.inbox))

Same(d, e) == /\ e.mode = d.mode /\ e.faults = d.faults /\ e.diagnoses = d.diagnoses
              /\ e.injections = d.injections /\ e.run = d.run

LEMMA Joined ==
  ASSUME NEW S, NEW s1 \in Seq(S), NEW s2 \in Seq(S), NEW t, t = s1 \o s2
  PROVE  /\ t \in Seq(S) /\ Len(t) = Len(s1) + Len(s2)
         /\ Len(s1) \in Nat /\ Len(s2) \in Nat
         /\ \A i \in 1..Len(s1) + Len(s2) : t[i] = IF i <= Len(s1) THEN s1[i] ELSE s2[i - Len(s1)]
BY ConcatProperties, LenProperties

LEMMA Ending ==
  ASSUME NEW S, NEW s \in Seq(S), NEW a \in Nat, 1 <= a, a <= Len(s) + 1, NEW t, t = SubSeq(s, a, Len(s))
  PROVE  /\ t \in Seq(S) /\ Len(t) = Len(s) - a + 1 /\ Len(s) \in Nat
         /\ \A i \in 1..Len(s) - a + 1 : t[i] = s[a + i - 1]
<1> DEFINE N == Len(s)
<1>1. N \in Nat /\ \A i \in 1..N : s[i] \in S
  BY LenProperties, ElementOfSeq
<1>2. a <= N + 1 /\ t = SubSeq(s, a, N)
  OBVIOUS
<1> HIDE DEF N
<1>3. a \in Int /\ N \in Int /\ \A i \in a..N : s[i] \in S
  BY <1>1
<1>4. /\ t \in Seq(S) /\ Len(t) = IF a <= N THEN N - a + 1 ELSE 0
      /\ \A i \in 1..N - a + 1 : t[i] = s[a + i - 1]
  BY <1>2, <1>3, SubSeqProperties
<1>5. Len(t) = N - a + 1
  BY <1>1, <1>2, <1>4
<1> QED BY <1>1, <1>4, <1>5 DEF N

LEMMA Trimming ==
  ASSUME NEW S, NEW items \in Seq(S)
  PROVE  /\ Trimmed(items) \in Seq(S)
         /\ \E off \in Nat :
              /\ off + Len(Trimmed(items)) = Len(items)
              /\ Len(Trimmed(items)) = IF Len(items) < Kept THEN Len(items) ELSE Kept
              /\ \A i \in 1..Len(Trimmed(items)) : Trimmed(items)[i] = items[i + off]
<1> DEFINE N == Len(items)
           a == IF N > Kept THEN N - Kept + 1 ELSE 1
           rest == Trimmed(items)
<1>1. N \in Nat /\ Kept \in Nat /\ Kept >= 1
  BY DeskConstants, LenProperties
<1>2. rest = SubSeq(items, a, N)
  BY DEF Trimmed
<1> HIDE DEF rest
<1>3. a \in Nat /\ 1 <= a /\ a <= N + 1 /\ a - 1 \in Nat /\ (a - 1) + (N - a + 1) = N
      /\ N - a + 1 = IF N < Kept THEN N ELSE Kept
  <2> HIDE DEF N
  <2> QED BY <1>1
<1> HIDE DEF a
<1>4. /\ rest \in Seq(S) /\ Len(rest) = N - a + 1
      /\ \A i \in 1..N - a + 1 : rest[i] = items[a + i - 1]
  BY <1>2, <1>3, Ending
<1> HIDE DEF N
<1>6. \A i \in 1..N - a + 1 : rest[i] = items[i + (a - 1)]
  <2> TAKE i \in 1..N - a + 1
  <2>1. a + i - 1 = i + (a - 1)
    BY <1>1, <1>3
  <2> QED BY <1>4, <2>1
<1> DEFINE off == a - 1
<1>7. off \in Nat /\ off + Len(rest) = N /\ Len(rest) = (IF N < Kept THEN N ELSE Kept)
      /\ \A i \in 1..Len(rest) : rest[i] = items[i + off]
  BY <1>3, <1>4, <1>6
<1> HIDE DEF off
<1> QED BY <1>4, <1>7 DEF N, rest

LEMMA Shifted ==
  ASSUME NEW n \in Nat, NEW l \in Nat, NEW k \in Nat, NEW m \in Nat, NEW o \in Nat, NEW i \in Nat, o + m = l + k
  PROVE  n - l + (i + o) = (n + k) - m + i
OBVIOUS

LEMMA Mailed ==
  ASSUME NEW d, Sound(d), NEW news \in Seq(Mode \cup FaultIds)
  PROVE  /\ Sound(MailIn(d, news)) /\ Same(d, MailIn(d, news))
         /\ MailIn(d, news).n = d.n + Len(news)
         /\ \E off \in Nat : Slides(d, news, MailIn(d, news), off)
<1> DEFINE old == d.inbox
           L == Len(old)
           K == Len(news)
           written == [i \in 1..K |-> Letter(d, news, i)]
           all == old \o written
           items == Trimmed(all)
           N == Len(items)
           e == [d EXCEPT !.n = @ + K, !.inbox = items, !.file = items]
<1>1. d \in Desks /\ d.file = old /\ d.n \in Nat /\ d.run \in Nat /\ old \in Seq(Item)
  BY DEF Sound, Desks
<1>2. /\ L \in Nat /\ K \in Nat /\ DOMAIN news = 1..K /\ Kept \in Nat /\ Kept >= 1
      /\ \A i \in 1..K : news[i] \in Mode \cup FaultIds
  <2> HIDE DEF old
  <2> QED BY <1>1, LenProperties, ElementOfSeq, DeskConstants
<1>3. L = (IF d.n < Kept THEN d.n ELSE Kept) /\ \A i \in 1..L : old[i].n = d.n - L + i
  BY DEF Sound, Filed
<1>4. MailIn(d, news) = e
  BY <1>2 DEF MailIn, Saved, Letter
<1>5. \A i \in 1..K : Letter(d, news, i) \in Item
  <2> TAKE i \in 1..K
  <2>1. d.n + i \in Nat
    BY <1>1, <1>2
  <2> HIDE DEF K
  <2> QED BY <1>1, <1>2, <2>1, DeskConstants DEF Letter, Item
<1>6. written \in [1..K -> Item]
  BY <1>5
<1>7. \A i \in 1..K : written[i] = Letter(d, news, i)
  OBVIOUS
<1> HIDE DEF written, K
<1>8. written \in Seq(Item) /\ Len(written) = K
  BY <1>2, <1>6, FunctionIsList
<1> HIDE DEF old
<1>9. /\ all \in Seq(Item) /\ Len(all) = L + K
      /\ \A i \in 1..L + K : all[i] = IF i <= L THEN old[i] ELSE written[i - L]
  BY <1>1, <1>8, Joined
<1> HIDE DEF all, L
<1>10. items \in Seq(Item)
  BY <1>9, Trimming
<1>11. \E off \in Nat :
         /\ off + N = Len(all)
         /\ N = IF Len(all) < Kept THEN Len(all) ELSE Kept
         /\ \A i \in 1..N : items[i] = all[i + off]
  BY <1>9, Trimming
<1>12. PICK off \in Nat :
         /\ off + N = L + K
         /\ N = IF L + K < Kept THEN L + K ELSE Kept
         /\ \A i \in 1..N : items[i] = all[i + off]
  BY <1>9, <1>11
<1> HIDE DEF items
<1>13. N \in Nat
  BY <1>10, LenProperties
<1>a. off \in Nat
  OBVIOUS
<1>b. L \in Nat
  BY <1>2
<1>c. K \in Nat
  BY <1>2
<1>d. off + N = L + K
  BY <1>12
<1>e. d.n \in Nat
  BY <1>1
<1> HIDE DEF N
<1>14. \A i \in 1..N : items[i] = IF i + off <= L THEN old[i + off] ELSE Letter(d, news, i + off - L)
  <2> TAKE i \in 1..N
  <2>1. i + off \in 1..L + K /\ (~(i + off <= L) => i + off - L \in 1..K)
    BY <1>2, <1>13, <1>a, <1>b, <1>c, <1>d
  <2>2. items[i] = IF i + off <= L THEN old[i + off] ELSE written[i + off - L]
    <3> DEFINE k == i + off
    <3>0. k = i + off
      OBVIOUS
    <3>1. k \in 1..L + K /\ items[i] = all[k]
      BY <1>12, <2>1
    <3> HIDE DEF k
    <3>2. k <= L => items[i] = old[k]
      BY <1>9, <3>1
    <3>3. ~(k <= L) => items[i] = written[k - L]
      BY <1>9, <3>1
    <3>4. i \in Nat
      BY <1>13
    <3> QED BY <1>a, <1>b, <3>0, <3>2, <3>3, <3>4
  <2> QED BY <1>7, <2>1, <2>2
<1>15. /\ e \in Desks /\ e.inbox = items /\ e.file = items /\ e.n = d.n + K /\ Same(d, e)
  <2>1. d.n + K \in Nat
    BY <1>1, <1>2
  <2> QED BY <1>1, <1>10, <2>1 DEF Desks, Same
<1>16. off > 0 => N = Kept
  BY <1>2, <1>3, <1>12, <1>13
<1>17. N = IF d.n + K < Kept THEN d.n + K ELSE Kept
  BY <1>1, <1>2, <1>3, <1>12
<1>18. ASSUME NEW i \in 1..N
       PROVE  items[i].n = (d.n + K) - N + i
  <2>1. i \in Nat /\ i >= 1
    BY <1>13
  <2>2. CASE i + off <= L
    <3>1. i + off \in 1..L
      BY <1>2, <2>1, <2>2
    <3>2. items[i].n = d.n - L + (i + off)
      <4> DEFINE k == i + off
      <4>1. k \in 1..L /\ items[i] = old[k]
        BY <1>14, <2>2, <3>1
      <4> HIDE DEF k
      <4>2. items[i].n = d.n - L + k
        BY <1>3, <4>1
      <4> QED BY <4>2 DEF k
    <3>3. d.n - L + (i + off) = (d.n + K) - N + i
      <4> DEFINE num == d.n
      <4>1. i \in Nat
        BY <2>1
      <4>2. num \in Nat
        BY <1>e
      <4> HIDE DEF num
      <4>3. num - L + (i + off) = (num + K) - N + i
        BY <1>13, <1>a, <1>b, <1>c, <1>d, <4>1, <4>2
      <4> QED BY <4>3 DEF num
    <3> QED BY <3>2, <3>3
  <2>3. CASE ~(i + off <= L)
    <3>1. items[i] = Letter(d, news, i + off - L)
      BY <1>14, <2>3
    <3>3. items[i].n = d.n + (i + off - L)
      BY <3>1 DEF Letter
    <3>2. d.n + (i + off - L) = (d.n + K) - N + i
      BY <1>13, <1>a, <1>b, <1>c, <1>d, <1>e, <2>1
    <3> QED BY <3>2, <3>3
  <2> QED BY <2>2, <2>3
<1> HIDE DEF e
<1>19. Filed(e.inbox, e.n)
  BY <1>15, <1>17, <1>18 DEF Filed, N
<1>20. Slides(d, news, e, off)
  BY <1>12, <1>14, <1>15, <1>16 DEF Slides, L, K, N, old
<1> QED BY <1>4, <1>15, <1>19, <1>20 DEF Sound, K

(* What came of each fault in the inbox: told once in each run, unless it  *)
(* is one of those gone; and of this run only what is known.               *)
OnceTold(items, gone) ==
  \A i, j \in 1..Len(items) :
    i # j /\ items[i].kind = "fault" /\ items[i].about \notin gone =>
      items[i].about # items[j].about \/ items[i].run # items[j].run
ToldOf(items, run, known) ==
  \A i \in 1..Len(items) :
    /\ items[i].run <= run /\ (items[i].kind = "mode" <=> items[i].about \in Mode)
    /\ items[i].about \notin Mode /\ items[i].run = run => items[i].about \in known

LEMMA MailedOnce ==
  ASSUME NEW d, NEW e, Sound(d), Sound(e), NEW news \in Seq(Mode \cup FaultIds), NEW off \in Nat,
         Slides(d, news, e, off), IsInjective(news), NEW gone, NEW known, NEW more,
         OnceTold(d.inbox, gone), ToldOf(d.inbox, d.run, known), known \subseteq more, known \cap Mode = {},
         \A i \in 1..Len(news) : news[i] \in Mode \/ (news[i] \in more /\ (news[i] \notin known \/ news[i] \in gone))
  PROVE  OnceTold(e.inbox, gone) /\ ToldOf(e.inbox, d.run, more)
<1> DEFINE L == Len(d.inbox)
           N == Len(e.inbox)
           K == Len(news)
<1>1. /\ L \in Nat /\ N \in Nat /\ K \in Nat /\ d.run \in Nat /\ d.n \in Nat
      /\ DOMAIN news = 1..K
  BY LenProperties DEF Sound, Desks
<1>2. /\ off + N = L + K
      /\ \A i \in 1..N : e.inbox[i] = IF i + off <= L THEN d.inbox[i + off] ELSE Letter(d, news, i + off - L)
  BY DEF Slides
<1>3. \A a, b \in 1..K : news[a] = news[b] => a = b
  BY <1>1 DEF IsInjective
<1> HIDE DEF L, N, K
<1>4. ASSUME NEW i \in 1..N, i + off <= L
      PROVE  i + off \in 1..L /\ e.inbox[i] = d.inbox[i + off]
  BY <1>1, <1>2, <1>4
<1>5. ASSUME NEW i \in 1..N, ~(i + off <= L)
      PROVE  /\ i + off - L \in 1..K
             /\ e.inbox[i].kind = (IF news[i + off - L] \in Mode THEN "mode" ELSE "fault")
             /\ e.inbox[i].about = news[i + off - L] /\ e.inbox[i].run = d.run
  <2>1. i + off - L \in 1..K
    BY <1>1, <1>2, <1>5
  <2>2. e.inbox[i] = Letter(d, news, i + off - L)
    BY <1>2, <1>5
  <2> QED BY <2>1, <2>2 DEF Letter
<1>6. ToldOf(e.inbox, d.run, more)
  <2> SUFFICES ASSUME NEW i \in 1..N
               PROVE  /\ e.inbox[i].run <= d.run /\ (e.inbox[i].kind = "mode" <=> e.inbox[i].about \in Mode)
                      /\ e.inbox[i].about \notin Mode /\ e.inbox[i].run = d.run => e.inbox[i].about \in more
    BY DEF ToldOf, N
  <2>1. CASE i + off <= L
    BY <1>4, <2>1 DEF ToldOf, L
  <2>2. CASE ~(i + off <= L)
    BY <1>1, <1>5, <2>2 DEF K
  <2> QED BY <2>1, <2>2
<1>7. OnceTold(e.inbox, gone)
  <2> SUFFICES ASSUME NEW i \in 1..N, NEW j \in 1..N, i # j, e.inbox[i].kind = "fault", e.inbox[i].about \notin gone
               PROVE  e.inbox[i].about # e.inbox[j].about \/ e.inbox[i].run # e.inbox[j].run
    BY DEF OnceTold, N
  <2>1. CASE i + off <= L /\ j + off <= L
    <3>1. i + off # j + off /\ i + off \in 1..L /\ j + off \in 1..L
      BY <1>1, <1>4, <2>1
    <3>2. e.inbox[i] = d.inbox[i + off] /\ e.inbox[j] = d.inbox[j + off]
      BY <1>4, <2>1
    <3> QED BY <3>1, <3>2 DEF OnceTold, L
  <2>2. CASE i + off <= L /\ ~(j + off <= L)
    <3>1. e.inbox[i] = d.inbox[i + off] /\ i + off \in 1..L
      BY <1>4, <2>2
    <3>2. e.inbox[i].run = d.run => e.inbox[i].about \in known
      BY <3>1, "fault" # "mode" DEF ToldOf, L
    <3>3. e.inbox[j].run = d.run /\ e.inbox[j].about = news[j + off - L] /\ j + off - L \in 1..K
      BY <1>5, <2>2
    <3>4. ASSUME e.inbox[i].about = news[j + off - L], e.inbox[i].run = d.run PROVE FALSE
      <4>1. news[j + off - L] \in known /\ news[j + off - L] \notin gone
        BY <3>2, <3>4
      <4> QED BY <3>3, <4>1 DEF K
    <3> QED BY <3>3, <3>4
  <2>3. CASE ~(i + off <= L) /\ j + off <= L
    <3>1. e.inbox[j] = d.inbox[j + off] /\ j + off \in 1..L
      BY <1>4, <2>3
    <3>2. /\ i + off - L \in 1..K /\ e.inbox[i].about = news[i + off - L]
          /\ e.inbox[i].run = d.run /\ news[i + off - L] \notin Mode
      BY <1>5, <2>3
    <3>3. ASSUME news[i + off - L] = e.inbox[j].about, e.inbox[j].run = d.run PROVE FALSE
      <4>1. news[i + off - L] \notin known /\ news[i + off - L] \notin gone
        BY <3>2 DEF K
      <4> QED BY <3>1, <3>2, <3>3, <4>1 DEF ToldOf, L
    <3> QED BY <3>2, <3>3
  <2>4. CASE ~(i + off <= L) /\ ~(j + off <= L)
    <3>1. i + off - L # j + off - L
      BY <1>1
    <3> QED BY <1>3, <1>5, <2>4, <3>1
  <2> QED BY <2>1, <2>2, <2>3, <2>4
<1> QED BY <1>6, <1>7

(* The last message of a mode in the inbox, if there is one, is of mode m. *)
LatestIs(items, m) ==
  \A i \in 1..Len(items) :
    items[i].kind = "mode" /\ (\A j \in 1..Len(items) : j > i => items[j].kind # "mode") => items[i].about = m

LEMMA MailedMode ==
  ASSUME NEW d, NEW e, Sound(d), Sound(e), NEW news \in Seq(Mode \cup FaultIds), NEW off \in Nat,
         Slides(d, news, e, off), NEW m
  PROVE  /\ (\A k \in 1..Len(news) : news[k] \notin Mode) /\ LatestIs(d.inbox, m) => LatestIs(e.inbox, m)
         /\ (\A k \in 1..Len(news) : news[k] \in Mode <=> k = 1) /\ Len(news) > 0 /\ news[1] = m => LatestIs(e.inbox, m)
<1> DEFINE L == Len(d.inbox)
           N == Len(e.inbox)
           K == Len(news)
<1>1. L \in Nat
  BY LenProperties DEF Sound, Desks
<1>2. N \in Nat
  BY LenProperties DEF Sound, Desks
<1>3. K \in Nat
  BY LenProperties
<1>4. off + N = L + K
  BY DEF Slides
<1>5. \A i \in 1..N : e.inbox[i] = IF i + off <= L THEN d.inbox[i + off] ELSE Letter(d, news, i + off - L)
  BY DEF Slides
<1> HIDE DEF L, N, K
<1>6. ASSUME NEW i \in 1..N, ~(i + off <= L)
      PROVE  /\ i + off - L \in 1..K
             /\ e.inbox[i].kind = (IF news[i + off - L] \in Mode THEN "mode" ELSE "fault")
             /\ e.inbox[i].about = news[i + off - L]
  <2>1. i + off - L \in 1..K
    BY <1>1, <1>2, <1>3, <1>4, <1>6
  <2>2. e.inbox[i] = Letter(d, news, i + off - L)
    BY <1>5, <1>6
  <2> QED BY <2>1, <2>2 DEF Letter
<1>7. ASSUME \A k \in 1..K : news[k] \notin Mode, LatestIs(d.inbox, m)
      PROVE  LatestIs(e.inbox, m)
  <2> SUFFICES ASSUME NEW i \in 1..N, e.inbox[i].kind = "mode", \A j \in 1..N : j > i => e.inbox[j].kind # "mode"
               PROVE  e.inbox[i].about = m
    BY DEF LatestIs, N
  <2>1. i + off <= L
    BY <1>6, <1>7
  <2>2. i + off \in 1..L /\ e.inbox[i] = d.inbox[i + off]
    BY <1>1, <1>2, <1>5, <2>1
  <2>3. ASSUME NEW j \in 1..L, j > i + off PROVE d.inbox[j].kind # "mode"
    <3> DEFINE k == j - off
    <3>1. k \in 1..N /\ k > i /\ k + off = j
      BY <1>1, <1>2, <1>3, <1>4, <2>3
    <3> HIDE DEF k
    <3>2. e.inbox[k] = d.inbox[j]
      BY <1>5, <3>1
    <3> QED BY <3>1, <3>2
  <2>4. d.inbox[i + off].about = m
    <3> DEFINE k == i + off
    <3>1. k \in 1..L /\ d.inbox[k].kind = "mode" /\ \A j \in 1..L : j > k => d.inbox[j].kind # "mode"
      BY <2>2, <2>3
    <3> HIDE DEF k
    <3>2. d.inbox[k].about = m
      BY <1>7, <3>1 DEF LatestIs, L
    <3> QED BY <3>2 DEF k
  <2> QED BY <2>2, <2>4
<1>8. ASSUME \A k \in 1..K : news[k] \in Mode <=> k = 1, K > 0, news[1] = m
      PROVE  LatestIs(e.inbox, m)
  <2> SUFFICES ASSUME NEW i \in 1..N, e.inbox[i].kind = "mode", \A j \in 1..N : j > i => e.inbox[j].kind # "mode"
               PROVE  e.inbox[i].about = m
    BY DEF LatestIs, N
  <2>1. ~(i + off <= L)
    <3> SUFFICES ASSUME i + off <= L PROVE FALSE
      OBVIOUS
    <3> DEFINE k == L + 1 - off
    <3>1. k \in 1..N /\ k > i /\ ~(k + off <= L) /\ k + off - L = 1
      BY <1>1, <1>2, <1>3, <1>4, <1>8
    <3> HIDE DEF k
    <3>2. news[1] \in Mode
      BY <1>3, <1>8
    <3>3. e.inbox[k].kind = "mode"
      BY <1>6, <3>1, <3>2
    <3> QED BY <3>1, <3>3
  <2>2. news[i + off - L] \in Mode
    BY <1>6, <2>1
  <2>3. i + off - L = 1
    BY <1>6, <1>8, <2>1, <2>2
  <2> QED BY <1>6, <1>8, <2>1, <2>3
<1> QED BY <1>7, <1>8 DEF K

-----------------------------------------------------------------------------
(* What the console makes of each message. *)

(* What mail makes of the inbox: numbered, told once, and the mode last.   *)
LEMMA Receipt ==
  ASSUME NEW d, Sound(d), NEW news \in Seq(Mode \cup FaultIds), IsInjective(news),
         NEW gone, NEW known, NEW more, NEW m,
         OnceTold(d.inbox, gone), ToldOf(d.inbox, d.run, known), known \subseteq more, known \cap Mode = {},
         \A i \in 1..Len(news) : news[i] \in Mode \/ (news[i] \in more /\ (news[i] \notin known \/ news[i] \in gone))
  PROVE  LET e == MailIn(d, news)
         IN  /\ Sound(e) /\ Same(d, e) /\ d.n <= e.n
             /\ OnceTold(e.inbox, gone) /\ ToldOf(e.inbox, e.run, more)
             /\ (\A k \in 1..Len(news) : news[k] \notin Mode) /\ LatestIs(d.inbox, m) => LatestIs(e.inbox, m)
             /\ (\A k \in 1..Len(news) : news[k] \in Mode <=> k = 1) /\ Len(news) > 0 /\ news[1] = m => LatestIs(e.inbox, m)
<1> DEFINE e == MailIn(d, news)
<1>1. /\ Sound(e) /\ Same(d, e) /\ e.n = d.n + Len(news)
      /\ \E off \in Nat : Slides(d, news, e, off)
  BY Mailed
<1> HIDE DEF e
<1>2. PICK off \in Nat : Slides(d, news, e, off)
  BY <1>1
<1>3. d.n \in Nat /\ Len(news) \in Nat /\ e.run = d.run
  BY <1>1, LenProperties DEF Sound, Desks, Same
<1>4. OnceTold(e.inbox, gone) /\ ToldOf(e.inbox, d.run, more)
  BY <1>1, <1>2, MailedOnce
<1>5. /\ (\A k \in 1..Len(news) : news[k] \notin Mode) /\ LatestIs(d.inbox, m) => LatestIs(e.inbox, m)
      /\ (\A k \in 1..Len(news) : news[k] \in Mode <=> k = 1) /\ Len(news) > 0 /\ news[1] = m => LatestIs(e.inbox, m)
  BY <1>1, <1>2, MailedMode
<1>6. d.n <= e.n
  BY <1>1, <1>3
<1> QED BY <1>1, <1>3, <1>4, <1>5, <1>6 DEF e

LEMMA ModeNews ==
  ASSUME NEW d, NEW m \in Mode
  PROVE  /\ NewMode(d, m) \in Seq(Mode \cup FaultIds) /\ IsInjective(NewMode(d, m))
         /\ Len(NewMode(d, m)) = (IF d.mode \in {Never, m} THEN 0 ELSE 1)
         /\ \A i \in 1..Len(NewMode(d, m)) : i = 1 /\ NewMode(d, m)[i] = m
<1>1. <<m>> \in Seq(Mode \cup FaultIds) /\ Len(<<m>>) = 1 /\ <<m>>[1] = m /\ DOMAIN <<m>> = 1..1
  OBVIOUS
<1>2. << >> \in Seq(Mode \cup FaultIds) /\ Len(<< >>) = 0 /\ DOMAIN << >> = {}
  OBVIOUS
<1> DEFINE one == <<m>>
           none == << >>
<1>3. NewMode(d, m) = IF d.mode \in {Never, m} THEN none ELSE one
  BY DEF NewMode
<1>4. /\ one \in Seq(Mode \cup FaultIds) /\ Len(one) = 1 /\ one[1] = m /\ DOMAIN one = 1..1
      /\ none \in Seq(Mode \cup FaultIds) /\ Len(none) = 0 /\ DOMAIN none = {}
  BY <1>1, <1>2
<1> HIDE DEF one, none
<1>5. IsInjective(one) /\ IsInjective(none)
  BY <1>4 DEF IsInjective
<1>6. CASE d.mode \in {Never, m}
  <2>1. NewMode(d, m) = none /\ 1..Len(none) = {}
    BY <1>3, <1>4, <1>6
  <2> QED BY <1>4, <1>5, <1>6, <2>1
<1>7. CASE d.mode \notin {Never, m}
  <2>1. NewMode(d, m) = one /\ \A i \in 1..Len(one) : i = 1
    BY <1>3, <1>4, <1>7
  <2> QED BY <1>4, <1>5, <1>7, <2>1
<1> QED BY <1>6, <1>7

LEMMA ModeHeard ==
  ASSUME NEW d, Sound(d), NEW m \in Mode, NEW gone, NEW known, NEW x,
         OnceTold(d.inbox, gone), ToldOf(d.inbox, d.run, known), known \cap Mode = {}
  PROVE  LET e == OnMode(d, m)
         IN  /\ Sound(e) /\ d.n <= e.n /\ e.mode = m /\ e.run = d.run
             /\ e.faults = d.faults /\ e.diagnoses = d.diagnoses /\ e.injections = d.injections
             /\ OnceTold(e.inbox, gone) /\ ToldOf(e.inbox, e.run, known)
             /\ d.mode \in {Never, m} /\ LatestIs(d.inbox, x) => LatestIs(e.inbox, x)
             /\ d.mode \notin {Never, m} => LatestIs(e.inbox, m)
<1> DEFINE c == [d EXCEPT !.mode = m]
           news == NewMode(d, m)
           e == MailIn(c, news)
           y == IF d.mode \in {Never, m} THEN x ELSE m
<1>1. OnMode(d, m) = e
  BY DEF OnMode
<1>2. Sound(c) /\ c.mode = m /\ c.inbox = d.inbox /\ c.n = d.n /\ c.run = d.run
      /\ c.faults = d.faults /\ c.diagnoses = d.diagnoses /\ c.injections = d.injections
  BY DEF Sound, Desks
<1>3. /\ news \in Seq(Mode \cup FaultIds) /\ IsInjective(news)
      /\ Len(news) = (IF d.mode \in {Never, m} THEN 0 ELSE 1)
      /\ \A i \in 1..Len(news) : i = 1 /\ news[i] = m
  BY ModeNews
<1> HIDE DEF c, news, y
<1>4. /\ Sound(e) /\ Same(c, e) /\ c.n <= e.n
      /\ OnceTold(e.inbox, gone) /\ ToldOf(e.inbox, e.run, known)
      /\ (\A k \in 1..Len(news) : news[k] \notin Mode) /\ LatestIs(c.inbox, y) => LatestIs(e.inbox, y)
      /\ (\A k \in 1..Len(news) : news[k] \in Mode <=> k = 1) /\ Len(news) > 0 /\ news[1] = y => LatestIs(e.inbox, y)
  <2>1. \A i \in 1..Len(news) : news[i] \in Mode
    BY <1>3
  <2> QED BY <1>2, <1>3, <2>1, Receipt
<1> HIDE DEF e
<1>5. ASSUME d.mode \in {Never, m}, LatestIs(d.inbox, x)
      PROVE  LatestIs(e.inbox, x)
  <2>1. Len(news) = 0 /\ y = x
    BY <1>3, <1>5 DEF y
  <2>2. \A k \in 1..Len(news) : news[k] \notin Mode
    BY <2>1
  <2> QED BY <1>2, <1>4, <1>5, <2>1, <2>2
<1>6. ASSUME d.mode \notin {Never, m}
      PROVE  LatestIs(e.inbox, m)
  <2>1. Len(news) = 1 /\ y = m
    BY <1>3, <1>6 DEF y
  <2>2. news[1] = m /\ \A k \in 1..Len(news) : news[k] \in Mode <=> k = 1
    BY <1>3, <2>1
  <2> QED BY <1>4, <2>1, <2>2
<1>7. /\ e.mode = m /\ e.run = d.run /\ d.n <= e.n
      /\ e.faults = d.faults /\ e.diagnoses = d.diagnoses /\ e.injections = d.injections
  BY <1>2, <1>4 DEF Same
<1> QED BY <1>1, <1>4, <1>5, <1>6, <1>7

LEMMA DiagnosisNews ==
  ASSUME NEW d, NEW F \in SUBSET FaultIds, IsFiniteSet(F)
  PROVE  /\ NewDiagnoses(d, F) \in Seq(FaultIds) /\ NewDiagnoses(d, F) \in Seq(Mode \cup FaultIds)
         /\ IsInjective(NewDiagnoses(d, F))
         /\ \A i \in 1..Len(NewDiagnoses(d, F)) : NewDiagnoses(d, F)[i] \in F \ d.diagnoses
<1> DEFINE S == F \ d.diagnoses
           news == SetToSeq(S)
<1>1. IsFiniteSet(S)
  BY FS_Subset
<1>2. NewDiagnoses(d, F) = news
  BY DEF NewDiagnoses
<1>3. S \subseteq FaultIds /\ S \subseteq F \ d.diagnoses
  OBVIOUS
<1> HIDE DEF S
<1>4. news \in Seq(S) /\ IsInjective(news)
  BY <1>1, ListOfSet
<1> HIDE DEF news
<1>5. \A i \in 1..Len(news) : news[i] \in S
  BY <1>4, ElementOfSeq
<1>6. news \in Seq(FaultIds) /\ news \in Seq(Mode \cup FaultIds)
  BY <1>3, <1>4, SeqDef
<1> QED BY <1>2, <1>3, <1>4, <1>5, <1>6

LEMMA DiagnosisHeard ==
  ASSUME NEW d, Sound(d), NEW F \in SUBSET FaultIds, IsFiniteSet(F), NEW gone, NEW known, NEW x,
         OnceTold(d.inbox, gone), ToldOf(d.inbox, d.run, known), known \subseteq FaultIds,
         \A f \in F : f \in known => f \in d.diagnoses \/ f \in gone
  PROVE  LET e == OnDiagnosis(d, F)
         IN  /\ Sound(e) /\ d.n <= e.n /\ e.mode = d.mode /\ e.run = d.run
             /\ e.faults = d.faults /\ e.diagnoses = d.diagnoses \cup F /\ e.injections = d.injections
             /\ OnceTold(e.inbox, gone) /\ ToldOf(e.inbox, e.run, known \cup F)
             /\ LatestIs(d.inbox, x) => LatestIs(e.inbox, x)
<1> DEFINE c == [d EXCEPT !.diagnoses = @ \cup F]
           news == NewDiagnoses(d, F)
           e == MailIn(c, news)
           more == known \cup F
<1>1. OnDiagnosis(d, F) = e
  BY DEF OnDiagnosis
<1>2. Sound(c) /\ c.mode = d.mode /\ c.inbox = d.inbox /\ c.n = d.n /\ c.run = d.run
      /\ c.faults = d.faults /\ c.diagnoses = d.diagnoses \cup F /\ c.injections = d.injections
  BY DEF Sound, Desks
<1>3. /\ news \in Seq(Mode \cup FaultIds) /\ IsInjective(news)
      /\ \A i \in 1..Len(news) : news[i] \in F \ d.diagnoses
  BY DiagnosisNews
<1> HIDE DEF c, news
<1>4. \A i \in 1..Len(news) : news[i] \notin Mode /\ news[i] \in more /\ (news[i] \notin known \/ news[i] \in gone)
  BY <1>3, DeskConstants
<1>5. known \subseteq more /\ known \cap Mode = {}
  BY DeskConstants
<1> HIDE DEF more
<1>6. /\ Sound(e) /\ Same(c, e) /\ c.n <= e.n
      /\ OnceTold(e.inbox, gone) /\ ToldOf(e.inbox, e.run, more)
      /\ (\A k \in 1..Len(news) : news[k] \notin Mode) /\ LatestIs(c.inbox, x) => LatestIs(e.inbox, x)
  BY <1>2, <1>3, <1>4, <1>5, Receipt
<1> HIDE DEF e
<1>7. LatestIs(d.inbox, x) => LatestIs(e.inbox, x)
  BY <1>2, <1>4, <1>6
<1>8. /\ e.mode = d.mode /\ e.run = d.run /\ d.n <= e.n
      /\ e.faults = d.faults /\ e.diagnoses = d.diagnoses \cup F /\ e.injections = d.injections
  BY <1>2, <1>6 DEF Same
<1> QED BY <1>1, <1>6, <1>7, <1>8 DEF more

LEMMA RedeliveryHeard ==
  ASSUME NEW d, Sound(d), modeNow \in Mode, held \subseteq FaultIds, explained \subseteq FaultIds, IsFiniteSet(explained),
         NEW gone, NEW known, NEW x,
         OnceTold(d.inbox, gone), ToldOf(d.inbox, d.run, known), known \subseteq FaultIds,
         \A f \in explained : f \in known => f \in d.diagnoses \/ f \in gone
  PROVE  LET e == Redelivery(d)
         IN  /\ Sound(e) /\ d.n <= e.n /\ e.mode = modeNow /\ e.run = d.run
             /\ e.faults = d.faults \cup held /\ e.diagnoses = d.diagnoses \cup explained
             /\ e.injections = Injected \cup {s \in d.injections : injected[s] = Never}
             /\ OnceTold(e.inbox, gone) /\ ToldOf(e.inbox, e.run, known \cup explained)
             /\ d.mode \in {Never, modeNow} /\ LatestIs(d.inbox, x) => LatestIs(e.inbox, x)
             /\ d.mode \notin {Never, modeNow} => LatestIs(e.inbox, modeNow)
<1> DEFINE inj == Injected \cup {s \in d.injections : injected[s] = Never}
           c == [d EXCEPT !.mode = modeNow, !.faults = @ \cup held, !.diagnoses = @ \cup explained, !.injections = inj]
           a == NewMode(d, modeNow)
           b == NewDiagnoses(d, explained)
           news == a \o b
           e == MailIn(c, news)
           more == known \cup explained
           y == IF d.mode \in {Never, modeNow} THEN x ELSE modeNow
<1>1. Redelivery(d) = e
  BY DEF Redelivery, Sound, Desks
<1>2. inj \in SUBSET Subjects
  BY DEF Sound, Desks, Injected
<1> HIDE DEF inj
<1>3. Sound(c) /\ c.mode = modeNow /\ c.inbox = d.inbox /\ c.n = d.n /\ c.run = d.run
      /\ c.faults = d.faults \cup held /\ c.diagnoses = d.diagnoses \cup explained /\ c.injections = inj
  BY <1>2 DEF Sound, Desks
<1>4. /\ a \in Seq(Mode \cup FaultIds) /\ IsInjective(a)
      /\ Len(a) = (IF d.mode \in {Never, modeNow} THEN 0 ELSE 1)
      /\ \A i \in 1..Len(a) : i = 1 /\ a[i] = modeNow
  BY ModeNews
<1>5. /\ b \in Seq(Mode \cup FaultIds) /\ IsInjective(b)
      /\ \A i \in 1..Len(b) : b[i] \in explained \ d.diagnoses
  BY DiagnosisNews
<1> HIDE DEF c, a, b
<1>6. /\ news \in Seq(Mode \cup FaultIds) /\ Len(news) = Len(a) + Len(b)
      /\ Len(a) \in Nat /\ Len(b) \in Nat
      /\ \A i \in 1..Len(a) + Len(b) : news[i] = IF i <= Len(a) THEN a[i] ELSE b[i - Len(a)]
  <2> DEFINE S == Mode \cup FaultIds
  <2>1. a \in Seq(S) /\ b \in Seq(S)
    BY <1>4, <1>5
  <2> HIDE DEF S
  <2>2. news = a \o b
    OBVIOUS
  <2> HIDE DEF news
  <2> QED BY <2>1, <2>2, Joined DEF S
<1> HIDE DEF news
<1>7. DOMAIN a = 1..Len(a) /\ DOMAIN b = 1..Len(b) /\ DOMAIN news = 1..Len(news)
  BY <1>4, <1>5, <1>6, LenProperties
<1> DEFINE A == Len(a)
           B == Len(b)
<1>8. A \in Nat
  BY <1>6
<1>9. B \in Nat
  BY <1>6
<1>10. A = IF d.mode \in {Never, modeNow} THEN 0 ELSE 1
  BY <1>4
<1>11. Len(news) = A + B /\ \A i \in 1..A + B : news[i] = IF i <= A THEN a[i] ELSE b[i - A]
  BY <1>6
<1>12. \A i \in 1..A : i = 1 /\ a[i] = modeNow
  BY <1>4
<1>13. /\ \A i \in 1..B : b[i] \in explained \ d.diagnoses
       /\ \A i, j \in 1..B : b[i] = b[j] => i = j
  BY <1>5, <1>7 DEF IsInjective
<1> HIDE DEF A, B
<1>14. \A i \in 1..A + B : i <= A => i = 1 /\ news[i] = modeNow
  <2> SUFFICES ASSUME NEW i \in 1..A + B, i <= A PROVE i = 1 /\ news[i] = modeNow
    OBVIOUS
  <2>1. i \in 1..A
    BY <1>8, <1>9
  <2> QED BY <1>11, <1>12, <2>1
<1>15. \A i \in 1..A + B : ~(i <= A) => i - A \in 1..B /\ news[i] = b[i - A]
  BY <1>8, <1>9, <1>11
<1>16. \A i \in 1..A + B : ~(i <= A) => news[i] \in explained \ d.diagnoses
  BY <1>13, <1>15
<1>17. IsInjective(news)
  <2>1. ASSUME NEW i \in 1..A + B, NEW j \in 1..A + B, news[i] = news[j]
        PROVE  i = j
    <3>1. CASE i <= A /\ j <= A
      BY <1>14, <3>1
    <3>2. CASE i <= A /\ ~(j <= A)
      BY <1>14, <1>16, <2>1, <3>2, DeskConstants
    <3>3. CASE ~(i <= A) /\ j <= A
      BY <1>14, <1>16, <2>1, <3>3, DeskConstants
    <3>4. CASE ~(i <= A) /\ ~(j <= A)
      <4>1. i - A = j - A
        BY <1>13, <1>15, <2>1, <3>4
      <4> QED BY <1>8, <1>9, <4>1
    <3> QED BY <3>1, <3>2, <3>3, <3>4
  <2> QED BY <1>7, <1>11, <2>1 DEF IsInjective
<1>18. \A i \in 1..Len(news) : news[i] \in Mode \/ (news[i] \in more /\ (news[i] \notin known \/ news[i] \in gone))
  BY <1>11, <1>14, <1>16
<1>19. known \subseteq more /\ known \cap Mode = {}
  BY DeskConstants
<1> HIDE DEF more, y
<1>20. /\ Sound(e) /\ Same(c, e) /\ c.n <= e.n
       /\ OnceTold(e.inbox, gone) /\ ToldOf(e.inbox, e.run, more)
       /\ (\A k \in 1..Len(news) : news[k] \notin Mode) /\ LatestIs(c.inbox, y) => LatestIs(e.inbox, y)
       /\ (\A k \in 1..Len(news) : news[k] \in Mode <=> k = 1) /\ Len(news) > 0 /\ news[1] = y => LatestIs(e.inbox, y)
  BY <1>3, <1>6, <1>17, <1>18, <1>19, Receipt
<1> HIDE DEF e
<1>21. ASSUME d.mode \in {Never, modeNow}, LatestIs(d.inbox, x)
       PROVE  LatestIs(e.inbox, x)
  <2>1. A = 0 /\ y = x
    BY <1>10, <1>21 DEF y
  <2>2. \A k \in 1..Len(news) : news[k] \notin Mode
    BY <1>9, <1>11, <1>16, <2>1, DeskConstants
  <2> QED BY <1>3, <1>20, <1>21, <2>1, <2>2
<1>22. ASSUME d.mode \notin {Never, modeNow}
       PROVE  LatestIs(e.inbox, modeNow)
  <2>1. A = 1 /\ y = modeNow
    BY <1>10, <1>22 DEF y
  <2>2. 1 \in 1..A + B /\ Len(news) > 0
    BY <1>9, <1>11, <2>1
  <2>3. news[1] = modeNow
    BY <1>14, <2>1, <2>2
  <2>4. \A k \in 1..Len(news) : news[k] \in Mode <=> k = 1
    <3> TAKE k \in 1..Len(news)
    <3>1. k \in 1..A + B /\ (k <= A <=> k = 1)
      BY <1>9, <1>11, <2>1
    <3> QED BY <1>14, <1>16, <3>1, DeskConstants
  <2> QED BY <1>20, <2>1, <2>2, <2>3, <2>4
<1>23. /\ e.mode = modeNow /\ e.run = d.run /\ d.n <= e.n
       /\ e.faults = d.faults \cup held /\ e.diagnoses = d.diagnoses \cup explained /\ e.injections = inj
  BY <1>3, <1>20 DEF Same
<1> QED BY <1>1, <1>20, <1>21, <1>22, <1>23 DEF more, inj

-----------------------------------------------------------------------------
(* The page. *)

LEMMA Window ==
  ASSUME NEW items \in Seq(Item), NEW n \in Nat, Filed(items, n)
  PROVE  /\ Len(items) = (IF n < Kept THEN n ELSE Kept)
         /\ Numbers(items) = {x \in Nat : n - Len(items) < x /\ x <= n}
<1> DEFINE N == Len(items)
<1>1. N \in Nat
  BY LenProperties
<1>2. DOMAIN items = 1..N
  BY LenProperties
<1>3. N = (IF n < Kept THEN n ELSE Kept) /\ \A i \in 1..N : items[i].n = n - N + i
  BY DEF Filed
<1> HIDE DEF N
<1>4. Kept \in Nat
  BY DeskConstants
<1>5. N <= n
  BY <1>3, <1>4
<1>6. Numbers(items) = {items[i].n : i \in 1..N}
  BY <1>2 DEF Numbers
<1>7. ASSUME NEW x \in Numbers(items) PROVE x \in Nat /\ n - N < x /\ x <= n
  <2>1. PICK i \in 1..N : x = n - N + i
    BY <1>3, <1>6, <1>7
  <2> QED BY <1>1, <1>5, <2>1
<1>8. ASSUME NEW x \in Nat, n - N < x, x <= n PROVE x \in Numbers(items)
  <2> DEFINE i == x - (n - N)
  <2>1. i \in 1..N /\ n - N + i = x
    BY <1>1, <1>5, <1>8
  <2> HIDE DEF i
  <2>2. items[i].n = x
    BY <1>3, <2>1
  <2> QED BY <1>6, <2>1, <2>2
<1> QED BY <1>3, <1>7, <1>8 DEF N

(* What a page v of a console d has: c, its socket is closed; o, the inbox *)
(* is open; s, until when mail counts as read; what was shown and skipped. *)
Reads(d, v, c, o, s, shown, lacked) ==
  /\ v \in Views /\ c \in BOOLEAN /\ o \in BOOLEAN
  /\ ~c => v = ViewOf(d)
  /\ s \in Nat /\ s <= d.n /\ shown \subseteq Nat
  /\ \E u \in Nat : u <= d.n /\ Filed(v.inbox, u)
  /\ \A x \in Numbers(v.inbox) \cup Numbers(d.inbox) : x <= s => x \in shown \cup lacked
  /\ o /\ Len(v.inbox) < Kept => \A x \in Numbers(v.inbox) : x <= s
  /\ Len(v.inbox) < Kept => \A x \in shown : x <= s

LEMMA Drawn ==
  ASSUME NEW d, Sound(d), Reads(d, view, cut, onMail, seen, displayed, skipped),
         NEW next, Sound(next), d.n <= next.n,
         NEW mail \in BOOLEAN, NEW broken \in BOOLEAN, Draw(next, mail, broken)
  PROVE  Reads(next, view', cut', onMail', seen', displayed', skipped')
<1> DEFINE new == next.inbox
           old == d.inbox
           was == view.inbox
           is == view'.inbox
           n == next.n
           b == d.n
<1>1. /\ new \in Seq(Item) /\ old \in Seq(Item) /\ Filed(new, n) /\ Filed(old, b)
      /\ ViewOf(next) \in Views /\ ViewOf(next).inbox = new
  BY DEF Sound, Desks, Views, ViewOf
<1>2. n \in Nat
  BY DEF Sound, Desks
<1>3. b \in Nat
  BY DEF Sound, Desks
<1>4. b <= n
  OBVIOUS
<1>5. view \in Views /\ was \in Seq(Item) /\ onMail \in BOOLEAN
  BY DEF Reads, Views
<1>6. seen \in Nat
  BY DEF Reads
<1>7. seen <= b /\ displayed \subseteq Nat
  BY DEF Reads
<1>8. PICK u \in Nat : u <= b /\ Filed(was, u)
  BY DEF Reads
<1>9. /\ \A x \in Numbers(was) \cup Numbers(old) : x <= seen => x \in displayed \cup skipped
      /\ onMail /\ Len(was) < Kept => \A x \in Numbers(was) : x <= seen
      /\ Len(was) < Kept => \A x \in displayed : x <= seen
  BY DEF Reads
<1>10. /\ view' = (IF broken THEN view ELSE ViewOf(next)) /\ cut' = broken /\ onMail' = mail
       /\ is = IF broken THEN was ELSE new
  BY <1>1 DEF Draw
<1>11. /\ seen' = IF mail THEN (IF ~onMail \/ Len(was) # Len(is) THEN n ELSE seen) ELSE seen
       /\ displayed' = IF mail THEN displayed \cup Numbers(is) ELSE displayed
       /\ skipped' = IF mail /\ ~onMail THEN skipped \cup (Numbers(new) \ Numbers(is)) ELSE skipped
  BY DEF Draw, SeenBy
<1> HIDE DEF new, old, was, is, n, b
<1> DEFINE N == Len(new)
           O == Len(old)
           W == Len(was)
           I == Len(is)
<1>12. /\ N \in Nat /\ O \in Nat /\ W \in Nat /\ I \in Nat /\ Kept \in Nat
       /\ I = IF broken THEN W ELSE N
  <2>1. N \in Nat /\ O \in Nat /\ W \in Nat
    BY <1>1, <1>5, LenProperties
  <2>2. I = IF broken THEN W ELSE N
    BY <1>10
  <2> QED BY <2>1, <2>2, DeskConstants
<1>13. /\ N = (IF n < Kept THEN n ELSE Kept) /\ Numbers(new) = {x \in Nat : n - N < x /\ x <= n}
       /\ O = (IF b < Kept THEN b ELSE Kept) /\ Numbers(old) = {x \in Nat : b - O < x /\ x <= b}
       /\ W = (IF u < Kept THEN u ELSE Kept) /\ Numbers(was) = {x \in Nat : u - W < x /\ x <= u}
  BY <1>1, <1>2, <1>3, <1>5, <1>8, Window
<1>14. Numbers(is) = IF broken THEN Numbers(was) ELSE Numbers(new)
  BY <1>10
<1>15. u \in Nat /\ u <= b
  BY <1>8
<1>16. /\ W < Kept => W = u /\ Numbers(was) = {x \in Nat : 0 < x /\ x <= W}
       /\ N < Kept => N = n /\ Numbers(new) = {x \in Nat : 0 < x /\ x <= N}
       /\ N < Kept => W < Kept
  <2> HIDE DEF N, O, W, I
  <2>1. W < Kept => W = u /\ u - W = 0
    BY <1>12, <1>13, <1>15
  <2>2. N < Kept => N = n /\ n - N = 0
    BY <1>2, <1>12, <1>13
  <2>3. N < Kept => W < Kept
    BY <1>2, <1>3, <1>4, <1>12, <1>13, <1>15
  <2> QED BY <1>13, <2>1, <2>2, <2>3
<1> HIDE DEF N, O, W, I
<1>17. \A x \in Numbers(new) : x \in Nat /\ x <= n /\ (x <= seen => x \in Numbers(old))
  <2> TAKE x \in Numbers(new)
  <2>1. x \in Nat /\ n - N < x /\ x <= n
    BY <1>13
  <2>2. x <= seen => b - O < x /\ x <= b
    BY <1>2, <1>3, <1>4, <1>6, <1>7, <1>12, <1>13, <2>1
  <2> QED BY <1>13, <2>1, <2>2
<1>18. \A x \in Numbers(was) : x \in Nat /\ x <= u
  BY <1>13
<1>19. seen' \in Nat /\ seen <= seen' /\ seen' <= n
  BY <1>2, <1>3, <1>4, <1>6, <1>7, <1>11
<1>20. displayed' \subseteq Nat
  BY <1>7, <1>11, <1>14, <1>17, <1>18
<1>21. \E w \in Nat : w <= n /\ Filed(is, w)
  <2>1. CASE broken
    BY <1>2, <1>3, <1>4, <1>8, <1>10, <2>1
  <2>2. CASE ~broken
    BY <1>1, <1>2, <1>10, <2>2
  <2> QED BY <2>1, <2>2
<1>22. ASSUME NEW x \in Numbers(is) \cup Numbers(new), x <= seen'
       PROVE  x \in displayed' \cup skipped'
  <2>1. CASE ~mail
    BY <1>9, <1>11, <1>14, <1>17, <1>22, <2>1
  <2>2. CASE mail /\ ~broken
    BY <1>11, <1>14, <1>22, <2>2
  <2>3. CASE mail /\ broken /\ ~onMail
    BY <1>11, <1>22, <2>3
  <2>4. CASE mail /\ broken /\ onMail
    <3>1. seen' = seen
      BY <1>10, <1>11, <2>4
    <3> QED BY <1>9, <1>11, <1>14, <1>17, <1>22, <2>4, <3>1
  <2> QED BY <2>1, <2>2, <2>3, <2>4
<1>23. ASSUME mail, I < Kept, NEW x \in Numbers(is)
       PROVE  x <= seen'
  <2>1. CASE ~onMail \/ W # I
    <3>1. seen' = n
      BY <1>11, <1>23, <2>1 DEF W, I
    <3>2. x \in Nat /\ x <= n
      BY <1>2, <1>3, <1>4, <1>14, <1>15, <1>17, <1>18, <1>23
    <3> QED BY <3>1, <3>2
  <2>2. CASE onMail /\ W = I
    <3>1. seen' = seen
      BY <1>11, <2>2 DEF W, I
    <3>2. Numbers(is) = Numbers(was)
      BY <1>12, <1>14, <1>16, <1>23, <2>2
    <3> QED BY <1>9, <1>23, <2>2, <3>1, <3>2 DEF W
  <2> QED BY <1>5, <2>1, <2>2
<1>24. ASSUME I < Kept, NEW x \in displayed'
       PROVE  x <= seen'
  <2>1. W < Kept
    BY <1>12, <1>16, <1>24
  <2>2. \A y \in displayed : y \in Nat /\ y <= seen
    BY <1>7, <1>9, <2>1 DEF W
  <2>3. CASE x \in displayed
    BY <1>6, <1>19, <2>2, <2>3
  <2>4. CASE x \notin displayed
    <3>1. mail /\ x \in Numbers(is)
      BY <1>11, <1>24, <2>4
    <3> QED BY <1>23, <1>24, <3>1
  <2> QED BY <2>3, <2>4
<1>25. view' \in Views /\ (~cut' => view' = ViewOf(next))
  BY <1>1, <1>5, <1>10
<1> QED
  BY <1>10, <1>19, <1>20, <1>21, <1>22, <1>23, <1>24, <1>25 DEF Reads, is, new, n, I

LEMMA NotDrawn ==
  ASSUME Reads(desk, view, cut, onMail, seen, displayed, skipped), UNCHANGED <<desk, browser>>
  PROVE  Reads(desk', view', cut', onMail', seen', displayed', skipped')
BY DEF browser

-----------------------------------------------------------------------------
(* The inductive invariant, in parts. *)

BankInv ==
  /\ held \subseteq occurred /\ occurred \subseteq FaultIds /\ IsFiniteSet(occurred)
  /\ modeNow \in Mode /\ plot \in PlotType

(* What is explained or waits for it is wrong, or ended while it waited.   *)
DiagnoserInv ==
  /\ late \subseteq occurred /\ remembered \subseteq occurred
  /\ explained \subseteq occurred /\ explained \subseteq held \cup late
  /\ waiting \in Seq(occurred) /\ IsInjective(waiting)
  /\ \A i \in 1..Len(waiting) : waiting[i] \in held \cup late
  /\ working \in occurred \cup {Never} /\ (working # Never => working \in held \cup late)

(* What the run of the console can have told of.                           *)
Known == desk.diagnoses \cup (occurred \ held) \cup late

ConsoleInv ==
  /\ Sound(desk) /\ connected \in BOOLEAN
  /\ connected => held \subseteq desk.faults /\ desk.mode # Never
  /\ desk.faults \subseteq held \cup lapsed
  /\ OnceTold(desk.inbox, late) /\ ToldOf(desk.inbox, desk.run, Known)

MoodInv ==
  /\ deaf \in BOOLEAN /\ recalled \in Mode
  /\ desk.mode # Never => desk.mode = recalled
  /\ ~deaf => LatestIs(desk.inbox, recalled)

PageInv == Reads(desk, view, cut, onMail, seen, displayed, skipped)

InjectionInv ==
  /\ injected \in [Subjects -> {Never, "NONE", "FAULT"}]
  /\ applied \subseteq Subjects /\ wired \in BOOLEAN
  /\ connected => desk.injections = Injected
  /\ wired => applied = Injected
  /\ \A s \in desk.injections \cup applied : injected[s] # Never

DeskInv == BankInv /\ DiagnoserInv /\ ConsoleInv /\ MoodInv /\ PageInv /\ InjectionInv

LEMMA MoreGone ==
  ASSUME NEW items, NEW gone, NEW more, gone \subseteq more, OnceTold(items, gone)
  PROVE  OnceTold(items, more)
BY DEF OnceTold

LEMMA MoreKnown ==
  ASSUME NEW items, NEW run, NEW known, NEW more, known \subseteq more, ToldOf(items, run, known)
  PROVE  ToldOf(items, run, more)
BY DEF ToldOf

LEMMA SameList ==
  ASSUME NEW S, NEW T, S \subseteq T, NEW s \in Seq(S)
  PROVE  s \in Seq(T)
BY SeqDef

(* The bank's news reach the console, or they do not.                      *)
LEMMA BankHeard ==
  ASSUME ConsoleInv, MoodInv, PageInv,
         NEW c, Sound(c), c.inbox = desk.inbox, c.n = desk.n, c.run = desk.run, c.mode = desk.mode,
         NEW m \in Mode, NEW gone, NEW known,
         OnceTold(desk.inbox, gone), ToldOf(desk.inbox, desk.run, known), known \cap Mode = {},
         Hear(OnMode(c, m)), Noted(m), deaf' = (deaf /\ (~connected \/ m = recalled))
  PROVE  /\ Sound(desk') /\ desk'.run = desk.run /\ MoodInv' /\ PageInv'
         /\ OnceTold(desk'.inbox, gone) /\ ToldOf(desk'.inbox, desk'.run, known)
         /\ connected => /\ desk'.mode # Never /\ desk'.faults = c.faults
                         /\ desk'.diagnoses = c.diagnoses /\ desk'.injections = c.injections
         /\ ~connected => desk' = desk
<1> DEFINE e == OnMode(c, m)
<1>1. /\ Sound(e) /\ c.n <= e.n /\ e.mode = m /\ e.run = c.run
      /\ e.faults = c.faults /\ e.diagnoses = c.diagnoses /\ e.injections = c.injections
      /\ OnceTold(e.inbox, gone) /\ ToldOf(e.inbox, e.run, known)
      /\ c.mode \in {Never, m} /\ LatestIs(c.inbox, recalled) => LatestIs(e.inbox, recalled)
      /\ c.mode \notin {Never, m} => LatestIs(e.inbox, m)
  BY ModeHeard
<1> HIDE DEF e
<1>2. /\ desk' = (IF connected THEN e ELSE desk) /\ Draw(desk', onMail, cut)
      /\ recalled' = IF connected THEN m ELSE recalled
  BY DEF Hear, Noted, e
<1>3. Sound(desk) /\ connected \in BOOLEAN /\ (connected => desk.mode # Never) /\ desk.n \in Nat
  BY DEF ConsoleInv, Sound, Desks
<1>4. deaf \in BOOLEAN /\ recalled \in Mode /\ (desk.mode # Never => desk.mode = recalled)
      /\ (~deaf => LatestIs(desk.inbox, recalled))
  BY DEF MoodInv
<1>5. Sound(desk') /\ desk.n <= desk'.n
  BY <1>1, <1>2, <1>3
<1>6. PageInv'
  <2>1. onMail \in BOOLEAN /\ cut \in BOOLEAN
    BY DEF PageInv, Reads
  <2>2. Reads(desk', view', cut', onMail', seen', displayed', skipped')
    BY <1>2, <1>3, <1>5, <2>1, Drawn DEF PageInv
  <2> QED BY <2>2 DEF PageInv
<1>7. MoodInv'
  <2>1. CASE ~connected
    <3>1. desk' = desk /\ recalled' = recalled /\ deaf' = deaf
      BY <1>2, <1>4, <2>1
    <3> QED BY <1>4, <3>1 DEF MoodInv
  <2>2. CASE connected
    <3>1. desk' = e /\ recalled' = m /\ desk.mode = recalled /\ c.mode = recalled /\ recalled # Never
      BY <1>2, <1>3, <1>4, <2>2
    <3>2. deaf' \in BOOLEAN /\ (~deaf' => ~deaf \/ m # recalled)
      BY <1>4, <2>2
    <3>3. ~deaf' => LatestIs(e.inbox, m)
      BY <1>1, <1>4, <3>1, <3>2
    <3> QED BY <1>1, <3>1, <3>2, <3>3 DEF MoodInv
  <2> QED BY <2>1, <2>2
<1>8. /\ desk'.run = desk.run /\ OnceTold(desk'.inbox, gone) /\ ToldOf(desk'.inbox, desk'.run, known)
  BY <1>1, <1>2, <1>3
<1>9. connected => /\ desk'.mode # Never /\ desk'.faults = c.faults
                  /\ desk'.diagnoses = c.diagnoses /\ desk'.injections = c.injections
  BY <1>1, <1>2, DeskConstants
<1> QED BY <1>2, <1>5, <1>6, <1>7, <1>8, <1>9

LEMMA FewerPlots ==
  ASSUME plot \in PlotType
  PROVE  /\ plot.findings > 0 => [plot EXCEPT !.findings = @ - 1] \in PlotType
         /\ plot.injections > 0 => [plot EXCEPT !.injections = @ - 1] \in PlotType
         /\ plot.restarts > 0 => [plot EXCEPT !.restarts = @ - 1] \in PlotType
         /\ plot.cuts > 0 => [plot EXCEPT !.cuts = @ - 1] \in PlotType
         /\ plot.visits > 0 => [plot EXCEPT !.visits = @ - 1] \in PlotType
<1>1. /\ plot.findings \in Nat /\ plot.injections \in Nat /\ plot.restarts \in Nat
      /\ plot.cuts \in Nat /\ plot.visits \in Nat
  BY DEF PlotType
<1>2. \A k \in Nat : k > 0 => k - 1 \in Nat
  OBVIOUS
<1>3. /\ plot.findings > 0 => plot.findings - 1 \in Nat
      /\ plot.injections > 0 => plot.injections - 1 \in Nat
      /\ plot.restarts > 0 => plot.restarts - 1 \in Nat
      /\ plot.cuts > 0 => plot.cuts - 1 \in Nat
      /\ plot.visits > 0 => plot.visits - 1 \in Nat
  BY <1>1, <1>2
<1> QED BY <1>3 DEF PlotType

(* A list with one more at its end.                                        *)
LEMMA OneMore ==
  ASSUME NEW S, NEW s \in Seq(S), NEW x \in S, NEW t, t = Append(s, x)
  PROVE  /\ t \in Seq(S) /\ Len(s) \in Nat /\ Len(t) = Len(s) + 1
         /\ \A i \in 1..Len(s) : t[i] = s[i]
         /\ t[Len(s) + 1] = x
BY AppendProperties, LenProperties

LEMMA InList ==
  ASSUME NEW S, NEW s \in Seq(S)
  PROVE  /\ DOMAIN s = 1..Len(s) /\ Len(s) \in Nat
         /\ ToSet(s) = {s[i] : i \in 1..Len(s)}
BY LenProperties DEF ToSet

LEMMA Raised ==
  ASSUME DeskInv, NEW f \in FaultIds, Raise(f)
  PROVE  DeskInv'
<1>1. BankInv /\ DiagnoserInv /\ ConsoleInv /\ MoodInv /\ PageInv /\ InjectionInv
  BY DEF DeskInv
<1> DEFINE m == Becomes(held', FALSE)
           c == ListFault(desk, {f})
<1>2. /\ f \notin occurred /\ held' = held \cup {f} /\ occurred' = occurred \cup {f}
      /\ modeNow' = m /\ plot.findings > 0 /\ plot' = [plot EXCEPT !.findings = @ - 1]
      /\ Hear(OnMode(c, m)) /\ Noted(m) /\ deaf' = (deaf /\ (~connected \/ m = recalled))
  BY DEF Raise
<1>3. /\ waiting' = IF f \in remembered \cup ToSet(waiting) THEN waiting ELSE Append(waiting, f)
      /\ UNCHANGED <<explained, remembered, working, connected, plant, lapsed, late>>
  BY DEF Raise
<1>4. m \in Mode
  BY <1>1, Decided DEF Becomes, BankInv
<1>5. Sound(c) /\ c.inbox = desk.inbox /\ c.n = desk.n /\ c.run = desk.run /\ c.mode = desk.mode
      /\ c.faults = desk.faults \cup {f} /\ c.diagnoses = desk.diagnoses /\ c.injections = desk.injections
  BY <1>1 DEF ConsoleInv, Sound, Desks, ListFault
<1> HIDE DEF m, c
<1>6. Known \cap Mode = {}
  BY <1>1, DeskConstants DEF Known, BankInv, DiagnoserInv, ConsoleInv, Sound, Desks
<1>7. /\ Sound(desk') /\ desk'.run = desk.run /\ MoodInv' /\ PageInv'
      /\ OnceTold(desk'.inbox, late) /\ ToldOf(desk'.inbox, desk'.run, Known)
      /\ connected => /\ desk'.mode # Never /\ desk'.faults = c.faults
                      /\ desk'.diagnoses = c.diagnoses /\ desk'.injections = c.injections
      /\ ~connected => desk' = desk
  <2>1. OnceTold(desk.inbox, late) /\ ToldOf(desk.inbox, desk.run, Known)
    BY <1>1 DEF ConsoleInv
  <2> QED BY <1>1, <1>2, <1>4, <1>5, <1>6, <2>1, BankHeard
<1>8. BankInv'
  <2>1. IsFiniteSet(occurred')
    BY <1>1, <1>2, FS_AddElement DEF BankInv
  <2>2. plot' \in PlotType
    BY <1>1, <1>2, FewerPlots DEF BankInv
  <2> QED BY <1>1, <1>2, <1>4, <2>1, <2>2 DEF BankInv
<1>9. DiagnoserInv'
  <2>1. waiting \in Seq(occurred) /\ IsInjective(waiting) /\ \A i \in 1..Len(waiting) : waiting[i] \in held \cup late
    BY <1>1 DEF DiagnoserInv
  <2>2. waiting \in Seq(occurred') /\ f \in occurred'
    BY <1>2, <2>1, SameList
  <2>3. waiting' \in Seq(occurred') /\ IsInjective(waiting') /\ \A i \in 1..Len(waiting') : waiting'[i] \in held' \cup late
    <3>1. CASE f \in remembered \cup ToSet(waiting)
      <4>1. waiting' = waiting
        BY <1>3, <3>1
      <4> QED BY <1>2, <2>1, <2>2, <4>1
    <3>2. CASE f \notin remembered \cup ToSet(waiting)
      <4> DEFINE more == Append(waiting, f)
                 n == Len(waiting)
      <4>1. waiting' = more
        BY <1>3, <3>2
      <4>2. /\ more \in Seq(occurred') /\ n \in Nat /\ Len(more) = n + 1
            /\ \A i \in 1..n : more[i] = waiting[i]
            /\ more[n + 1] = f
        BY <2>2, OneMore
      <4> HIDE DEF more
      <4>3. DOMAIN waiting = 1..n /\ DOMAIN more = 1..n + 1 /\ ToSet(waiting) = {waiting[i] : i \in 1..n}
        BY <2>2, <4>2, InList
      <4> HIDE DEF n
      <4>4. \A i \in 1..n : waiting[i] # f
        BY <3>2, <4>3
      <4>5. \A i \in 1..n + 1 : i \in 1..n \/ i = n + 1
        BY <4>2
      <4>6. \A i, j \in 1..n : waiting[i] = waiting[j] => i = j
        BY <2>1, <4>3 DEF IsInjective
      <4>7. \A i, j \in 1..n + 1 : more[i] = more[j] => i = j
        BY <4>2, <4>4, <4>5, <4>6
      <4>8. IsInjective(more)
        BY <4>3, <4>7 DEF IsInjective
      <4>9. \A i \in 1..n + 1 : more[i] \in held' \cup late
        BY <1>2, <2>1, <4>2, <4>5 DEF n
      <4> QED BY <4>1, <4>2, <4>8, <4>9
    <3> QED BY <3>1, <3>2
  <2> QED BY <1>1, <1>2, <1>3, <2>3 DEF DiagnoserInv
<1>10. ConsoleInv'
  <2>1. /\ connected \in BOOLEAN /\ (connected => held \subseteq desk.faults)
        /\ desk.faults \subseteq held \cup lapsed
    BY <1>1 DEF ConsoleInv
  <2>2. connected' => held' \subseteq desk'.faults /\ desk'.mode # Never
    BY <1>2, <1>3, <1>5, <1>7, <2>1
  <2>3. desk'.faults \subseteq held' \cup lapsed'
    BY <1>2, <1>3, <1>5, <1>7, <2>1
  <2>4. Known \subseteq Known'
    BY <1>1, <1>2, <1>3, <1>5, <1>7, <2>1 DEF Known, BankInv
  <2>5. ToldOf(desk'.inbox, desk'.run, Known')
    BY <1>7, <2>4, MoreKnown
  <2> QED BY <1>3, <1>7, <2>1, <2>2, <2>3, <2>5 DEF ConsoleInv
<1>11. InjectionInv'
  <2>1. UNCHANGED <<injected, applied, wired, connected>> /\ Injected' = Injected
    BY <1>3 DEF plant, Injected
  <2>2. desk'.injections = desk.injections
    BY <1>1, <1>5, <1>7 DEF ConsoleInv
  <2> QED BY <1>1, <2>1, <2>2 DEF InjectionInv
<1> QED BY <1>7, <1>8, <1>9, <1>10, <1>11 DEF DeskInv

LEMMA Retired ==
  ASSUME DeskInv, NEW faults \in SUBSET held, NEW reset \in BOOLEAN, Retire(faults, reset), plot' \in PlotType
  PROVE  DeskInv'
<1>1. BankInv /\ DiagnoserInv /\ ConsoleInv /\ MoodInv /\ PageInv /\ InjectionInv
  BY DEF DeskInv
<1> DEFINE m == Becomes(held', reset)
           c == Withdrawn(desk, faults)
           more == Known \cup late' \cup faults
<1>2. /\ held' = held \ faults /\ modeNow' = m /\ explained' = explained \ faults
      /\ Hear(OnMode(c, m)) /\ Noted(m) /\ deaf' = (deaf /\ (~connected \/ m = recalled))
  BY DEF Retire, Unexplained
<1>3. /\ lapsed' = (IF connected THEN lapsed ELSE lapsed \cup faults)
      /\ late' = late \cup (faults \cap (ToSet(waiting) \cup {working}))
      /\ UNCHANGED <<occurred, diagnoser, connected, plant>>
  BY DEF Retire
<1>4. m \in Mode
  BY <1>1, Decided DEF Becomes, BankInv
<1>5. Sound(c) /\ c.inbox = desk.inbox /\ c.n = desk.n /\ c.run = desk.run /\ c.mode = desk.mode
      /\ c.faults = desk.faults \ faults /\ c.diagnoses = desk.diagnoses \ faults /\ c.injections = desk.injections
  BY <1>1 DEF ConsoleInv, Sound, Desks, Withdrawn
<1> HIDE DEF m, c
<1>6. /\ faults \subseteq occurred /\ occurred \subseteq FaultIds /\ late' \subseteq occurred
      /\ late \subseteq late' /\ occurred' = occurred
  BY <1>1, <1>3 DEF BankInv, DiagnoserInv
<1>7. more \cap Mode = {} /\ Known \subseteq more
  BY <1>1, <1>6, DeskConstants DEF Known, BankInv, DiagnoserInv, ConsoleInv, Sound, Desks
<1> HIDE DEF more
<1>8. OnceTold(desk.inbox, late') /\ ToldOf(desk.inbox, desk.run, more)
  <2>1. OnceTold(desk.inbox, late) /\ ToldOf(desk.inbox, desk.run, Known)
    BY <1>1 DEF ConsoleInv
  <2> QED BY <1>6, <1>7, <2>1, MoreGone, MoreKnown
<1>9. /\ Sound(desk') /\ desk'.run = desk.run /\ MoodInv' /\ PageInv'
      /\ OnceTold(desk'.inbox, late') /\ ToldOf(desk'.inbox, desk'.run, more)
      /\ connected => /\ desk'.mode # Never /\ desk'.faults = c.faults
                      /\ desk'.diagnoses = c.diagnoses /\ desk'.injections = c.injections
      /\ ~connected => desk' = desk
  BY <1>1, <1>2, <1>4, <1>5, <1>7, <1>8, BankHeard
<1>10. BankInv'
  BY <1>1, <1>2, <1>4, <1>6 DEF BankInv
<1>11. DiagnoserInv'
  <2>1. waiting' = waiting /\ remembered' = remembered /\ working' = working
    BY <1>3 DEF diagnoser
  <2>2. /\ waiting \in Seq(occurred) /\ IsInjective(waiting) /\ \A i \in 1..Len(waiting) : waiting[i] \in held \cup late
        /\ remembered \subseteq occurred /\ explained \subseteq occurred /\ explained \subseteq held \cup late
        /\ working \in occurred \cup {Never} /\ (working # Never => working \in held \cup late)
    BY <1>1 DEF DiagnoserInv
  <2>3. ToSet(waiting) = {waiting[i] : i \in 1..Len(waiting)}
    BY <2>2, InList
  <2>4. ASSUME NEW i \in 1..Len(waiting) PROVE waiting[i] \in held' \cup late'
    BY <1>2, <1>3, <2>2, <2>3
  <2>5. working # Never => working \in held' \cup late'
    BY <1>2, <1>3, <2>2
  <2>6. explained' \subseteq occurred /\ explained' \subseteq held' \cup late'
    BY <1>2, <1>6, <2>2
  <2> QED BY <1>6, <2>1, <2>2, <2>4, <2>5, <2>6 DEF DiagnoserInv
<1>12. ConsoleInv'
  <2>1. /\ connected \in BOOLEAN /\ (connected => held \subseteq desk.faults)
        /\ desk.faults \subseteq held \cup lapsed
    BY <1>1 DEF ConsoleInv
  <2>2. connected' => held' \subseteq desk'.faults /\ desk'.mode # Never
    BY <1>2, <1>3, <1>5, <1>9, <2>1
  <2>3. desk'.faults \subseteq held' \cup lapsed'
    BY <1>2, <1>3, <1>5, <1>9, <2>1
  <2>4. more \subseteq Known'
    <3>1. faults \cap held' = {} /\ faults \subseteq occurred /\ held' \subseteq held
      BY <1>2, <1>6
    <3>2. desk.diagnoses \subseteq desk'.diagnoses \cup faults
      BY <1>5, <1>9, <2>1
    <3> QED BY <1>6, <3>1, <3>2 DEF Known, more
  <2>5. ToldOf(desk'.inbox, desk'.run, Known')
    BY <1>9, <2>4, MoreKnown
  <2> QED BY <1>3, <1>9, <2>1, <2>2, <2>3, <2>5 DEF ConsoleInv
<1>13. InjectionInv'
  <2>1. UNCHANGED <<injected, applied, wired, connected>> /\ Injected' = Injected
    BY <1>3 DEF plant, Injected
  <2>2. desk'.injections = desk.injections
    BY <1>1, <1>5, <1>9 DEF ConsoleInv
  <2> QED BY <1>1, <2>1, <2>2 DEF InjectionInv
<1> QED BY <1>9, <1>10, <1>11, <1>12, <1>13 DEF DeskInv

(* A new console state, drawn or not heard of.                             *)
LEMMA PageHears ==
  ASSUME ConsoleInv, PageInv, NEW e, Sound(e), desk.n <= e.n, Hear(e)
  PROVE  PageInv' /\ desk' = (IF connected THEN e ELSE desk)
<1>1. desk' = (IF connected THEN e ELSE desk) /\ Draw(desk', onMail, cut)
  BY DEF Hear
<1>2. Sound(desk) /\ desk.n \in Nat
  BY DEF ConsoleInv, Sound, Desks
<1>3. Sound(desk') /\ desk.n <= desk'.n
  BY <1>1, <1>2
<1>4. onMail \in BOOLEAN /\ cut \in BOOLEAN
  BY DEF PageInv, Reads
<1>5. Reads(desk', view', cut', onMail', seen', displayed', skipped')
  BY <1>1, <1>2, <1>3, <1>4, Drawn DEF PageInv
<1> QED BY <1>1, <1>5 DEF PageInv

LEMMA Explained ==
  ASSUME DeskInv, NEW answered \in BOOLEAN, Explain(answered)
  PROVE  DeskInv'
<1>1. BankInv /\ DiagnoserInv /\ ConsoleInv /\ MoodInv /\ PageInv /\ InjectionInv
  BY DEF DeskInv
<1> DEFINE e == OnDiagnosis(desk, {working})
<1>2. /\ working # Never /\ working' = Never /\ explained' = explained \cup {working}
      /\ Hear(e) /\ UNCHANGED <<bank, waiting, remembered, connected, plant, plot, past>>
  BY DEF Explain, Told
<1>3. /\ UNCHANGED <<held, occurred, modeNow, waiting, remembered, connected, injected, applied, wired, plot>>
      /\ UNCHANGED <<lapsed, late, deaf, recalled>>
  BY <1>2 DEF bank, plant, past
<1>4. /\ working \in occurred /\ working \in held \cup late /\ occurred \subseteq FaultIds /\ late \subseteq occurred
  BY <1>1, <1>2 DEF DiagnoserInv, BankInv
<1>5. Sound(desk) /\ desk.diagnoses \subseteq FaultIds
  BY <1>1 DEF ConsoleInv, Sound, Desks
<1>6. /\ Sound(e) /\ desk.n <= e.n /\ e.mode = desk.mode /\ e.run = desk.run
      /\ e.faults = desk.faults /\ e.diagnoses = desk.diagnoses \cup {working} /\ e.injections = desk.injections
      /\ OnceTold(e.inbox, late) /\ ToldOf(e.inbox, e.run, Known \cup {working})
      /\ LatestIs(desk.inbox, recalled) => LatestIs(e.inbox, recalled)
  <2>1. {working} \in SUBSET FaultIds /\ IsFiniteSet({working})
    BY <1>4, FS_Singleton
  <2>2. Known \subseteq FaultIds
    BY <1>4, <1>5 DEF Known
  <2>3. \A f \in {working} : f \in Known => f \in desk.diagnoses \/ f \in late
    BY <1>4 DEF Known
  <2>4. OnceTold(desk.inbox, late) /\ ToldOf(desk.inbox, desk.run, Known)
    BY <1>1 DEF ConsoleInv
  <2> QED BY <1>5, <2>1, <2>2, <2>3, <2>4, DiagnosisHeard
<1> HIDE DEF e
<1>7. PageInv' /\ desk' = (IF connected THEN e ELSE desk)
  BY <1>1, <1>2, <1>6, PageHears
<1>8. BankInv'
  BY <1>1, <1>3 DEF BankInv
<1>9. DiagnoserInv'
  BY <1>1, <1>2, <1>3, <1>4 DEF DiagnoserInv
<1>10. ConsoleInv'
  <2>1. Sound(desk') /\ desk'.mode = desk.mode /\ desk'.faults = desk.faults /\ desk'.run = desk.run
        /\ OnceTold(desk'.inbox, late)
    BY <1>1, <1>6, <1>7 DEF ConsoleInv
  <2>2. ToldOf(desk'.inbox, desk'.run, Known')
    <3>1. CASE connected
      <4>1. Known \cup {working} \subseteq Known'
        BY <1>3, <1>6, <1>7, <3>1 DEF Known
      <4> QED BY <1>6, <1>7, <3>1, <4>1, MoreKnown
    <3>2. CASE ~connected
      <4>1. desk' = desk /\ Known' = Known
        BY <1>3, <1>7, <3>2 DEF Known
      <4> QED BY <1>1, <4>1 DEF ConsoleInv
    <3> QED BY <3>1, <3>2
  <2> QED BY <1>1, <1>3, <2>1, <2>2 DEF ConsoleInv
<1>11. MoodInv'
  BY <1>1, <1>3, <1>6, <1>7 DEF MoodInv
<1>12. InjectionInv'
  <2>1. Injected' = Injected /\ desk'.injections = desk.injections
    BY <1>3, <1>6, <1>7 DEF Injected
  <2> QED BY <1>1, <1>3, <2>1 DEF InjectionInv
<1> QED BY <1>7, <1>8, <1>9, <1>10, <1>11, <1>12 DEF DeskInv

LEMMA Injects ==
  ASSUME DeskInv, NEW s \in Subjects, NEW clears \in BOOLEAN, Inject(s, clears)
  PROVE  DeskInv'
<1>1. BankInv /\ DiagnoserInv /\ ConsoleInv /\ MoodInv /\ PageInv /\ InjectionInv
  BY DEF DeskInv
<1> DEFINE kind == IF clears THEN "NONE" ELSE "FAULT"
           e == OnInjection(desk, s, kind)
<1>2. injected \in [Subjects -> {Never, "NONE", "FAULT"}] /\ applied \subseteq Subjects /\ wired \in BOOLEAN
      /\ (connected => desk.injections = Injected) /\ (wired => applied = Injected)
      /\ \A r \in desk.injections \cup applied : injected[r] # Never
  BY <1>1 DEF InjectionInv
<1>3. /\ connected /\ plot.injections > 0 /\ plot' = [plot EXCEPT !.injections = @ - 1]
      /\ injected' = [injected EXCEPT ![s] = kind] /\ injected'[s] = kind
      /\ Hear(OnInjection(desk, s, injected'[s]))
      /\ applied' = (IF wired /\ injected'[s] # Never THEN (IF clears THEN applied \ {s} ELSE applied \cup {s}) ELSE applied)
      /\ UNCHANGED <<bank, explained, diagnoser, connected, wired, past>>
  BY <1>2 DEF Inject, Cleared
<1>4. kind # Never /\ kind \in {"NONE", "FAULT"} /\ (kind = "FAULT" <=> ~clears)
  BY DeskConstants
<1> HIDE DEF kind
<1>5. Hear(e)
  BY <1>3
<1>6. e = [desk EXCEPT !.injections = IF kind = "FAULT" THEN @ \cup {s} ELSE @ \ {s}]
  BY DEF OnInjection
<1> HIDE DEF e
<1>7. /\ Sound(e) /\ desk.n <= e.n /\ e.mode = desk.mode /\ e.run = desk.run /\ e.inbox = desk.inbox
      /\ e.faults = desk.faults /\ e.diagnoses = desk.diagnoses
      /\ e.injections = IF kind = "FAULT" THEN desk.injections \cup {s} ELSE desk.injections \ {s}
  BY <1>1, <1>6 DEF ConsoleInv, Sound, Desks
<1>8. PageInv' /\ desk' = e
  BY <1>1, <1>3, <1>5, <1>7, PageHears
<1>9. /\ UNCHANGED <<held, occurred, modeNow, explained, waiting, remembered, working, connected, wired>>
      /\ UNCHANGED <<lapsed, late, deaf, recalled>>
  BY <1>3 DEF bank, diagnoser, past
<1>10. BankInv'
  BY <1>1, <1>3, <1>9, FewerPlots DEF BankInv
<1>11. DiagnoserInv'
  BY <1>1, <1>9 DEF DiagnoserInv
<1>12. ConsoleInv' /\ MoodInv'
  <2>1. Known' = Known
    BY <1>7, <1>8, <1>9 DEF Known
  <2>2. ConsoleInv'
    BY <1>1, <1>7, <1>8, <1>9, <2>1 DEF ConsoleInv
  <2>3. MoodInv'
    BY <1>1, <1>7, <1>8, <1>9 DEF MoodInv
  <2> QED BY <2>2, <2>3
<1>13. InjectionInv'
  <2>1. injected' \in [Subjects -> {Never, "NONE", "FAULT"}]
        /\ \A r \in Subjects : injected'[r] = IF r = s THEN kind ELSE injected[r]
    BY <1>2, <1>3, <1>4
  <2>2. Injected' = IF kind = "FAULT" THEN Injected \cup {s} ELSE Injected \ {s}
    <3>1. Injected' = {r \in Subjects : injected'[r] = "FAULT"}
      BY DEF Injected
    <3> QED BY <2>1, <3>1, <1>4 DEF Injected
  <2>3. desk'.injections = Injected' /\ Injected' \subseteq Subjects
    BY <1>2, <1>3, <1>7, <1>8, <2>2 DEF Injected
  <2>4. applied' \subseteq Subjects /\ (wired => applied' = Injected')
    BY <1>2, <1>3, <1>4, <2>2
  <2>5. \A r \in desk'.injections \cup applied' : injected'[r] # Never
    <3>1. \A r \in Subjects : r \in desk.injections \cup applied \cup {s} => injected'[r] # Never
      BY <1>2, <1>4, <2>1
    <3>2. desk'.injections \cup applied' \subseteq desk.injections \cup applied \cup {s}
      BY <1>3, <1>7, <1>8
    <3> QED BY <2>3, <2>4, <3>1, <3>2
  <2> QED BY <1>2, <1>9, <2>1, <2>3, <2>4, <2>5 DEF InjectionInv
<1> QED BY <1>8, <1>10, <1>11, <1>12, <1>13 DEF DeskInv

LEMMA DeskJoins ==
  ASSUME DeskInv, DeskJoin
  PROVE  DeskInv'
<1>1. BankInv /\ DiagnoserInv /\ ConsoleInv /\ MoodInv /\ PageInv /\ InjectionInv
  BY DEF DeskInv
<1> DEFINE e == Redelivery(desk)
<1>2. /\ ~connected /\ connected' = TRUE /\ desk' = e /\ Draw(desk', onMail, cut) /\ recalled' = modeNow
      /\ deaf' = (IF desk.mode = Never THEN deaf \/ modeNow # recalled ELSE deaf /\ modeNow = desk.mode)
      /\ UNCHANGED <<bank, explained, diagnoser, plant, plot, lapsed, late>>
  BY DEF DeskJoin
<1>3. /\ UNCHANGED <<held, occurred, modeNow, explained, waiting, remembered, working>>
      /\ UNCHANGED <<injected, applied, wired, plot, lapsed, late>>
  BY <1>2 DEF bank, diagnoser, plant
<1>4. /\ modeNow \in Mode /\ held \subseteq FaultIds /\ explained \subseteq FaultIds /\ late \subseteq FaultIds
      /\ explained \subseteq held \cup late /\ occurred \subseteq FaultIds
  BY <1>1 DEF BankInv, DiagnoserInv
<1>5. Sound(desk) /\ desk.diagnoses \subseteq FaultIds /\ desk.injections \subseteq Subjects
  BY <1>1 DEF ConsoleInv, Sound, Desks
<1>6. /\ Sound(e) /\ desk.n <= e.n /\ e.mode = modeNow /\ e.run = desk.run
      /\ e.faults = desk.faults \cup held /\ e.diagnoses = desk.diagnoses \cup explained
      /\ e.injections = Injected \cup {s \in desk.injections : injected[s] = Never}
      /\ OnceTold(e.inbox, late) /\ ToldOf(e.inbox, e.run, Known \cup explained)
      /\ desk.mode \in {Never, modeNow} /\ LatestIs(desk.inbox, recalled) => LatestIs(e.inbox, recalled)
      /\ desk.mode \notin {Never, modeNow} => LatestIs(e.inbox, modeNow)
  <2>1. IsFiniteSet(explained)
    BY <1>1, FS_Subset DEF BankInv, DiagnoserInv
  <2>2. Known \subseteq FaultIds
    BY <1>4, <1>5 DEF Known
  <2>3. \A f \in explained : f \in Known => f \in desk.diagnoses \/ f \in late
    BY <1>4 DEF Known
  <2>4. OnceTold(desk.inbox, late) /\ ToldOf(desk.inbox, desk.run, Known)
    BY <1>1 DEF ConsoleInv
  <2>5. Sound(desk) /\ modeNow \in Mode /\ held \subseteq FaultIds /\ explained \subseteq FaultIds
    BY <1>4, <1>5
  <2> QED BY <2>1, <2>2, <2>3, <2>4, <2>5, RedeliveryHeard
<1> HIDE DEF e
<1>7. PageInv'
  <2>1. onMail \in BOOLEAN /\ cut \in BOOLEAN
    BY <1>1 DEF PageInv, Reads
  <2>2. Reads(desk', view', cut', onMail', seen', displayed', skipped')
    BY <1>1, <1>2, <1>5, <1>6, <2>1, Drawn DEF PageInv
  <2> QED BY <2>2 DEF PageInv
<1>8. BankInv' /\ DiagnoserInv'
  BY <1>1, <1>3 DEF BankInv, DiagnoserInv
<1>9. ConsoleInv'
  <2>1. Known \cup explained \subseteq Known'
    BY <1>2, <1>3, <1>6 DEF Known
  <2>2. ToldOf(desk'.inbox, desk'.run, Known')
    BY <1>2, <1>6, <2>1, MoreKnown
  <2>3. /\ Sound(desk') /\ connected' \in BOOLEAN
        /\ held' \subseteq desk'.faults /\ desk'.mode # Never
        /\ desk'.faults \subseteq held' \cup lapsed'
        /\ OnceTold(desk'.inbox, late')
    BY <1>1, <1>2, <1>3, <1>4, <1>6, DeskConstants DEF ConsoleInv
  <2> QED BY <2>2, <2>3 DEF ConsoleInv
<1>10. MoodInv'
  <2>1. deaf \in BOOLEAN /\ recalled \in Mode /\ (desk.mode # Never => desk.mode = recalled)
        /\ (~deaf => LatestIs(desk.inbox, recalled))
    BY <1>1 DEF MoodInv
  <2>2. deaf' \in BOOLEAN
    BY <1>2, <2>1
  <2>3. ASSUME ~deaf' PROVE LatestIs(e.inbox, modeNow)
    <3>1. CASE desk.mode = Never
      BY <1>2, <1>6, <2>1, <2>3, <3>1
    <3>2. CASE desk.mode # Never /\ desk.mode = modeNow
      BY <1>2, <1>6, <2>1, <2>3, <3>2
    <3>3. CASE desk.mode # Never /\ desk.mode # modeNow
      BY <1>6, <3>3
    <3> QED BY <3>1, <3>2, <3>3
  <2> QED BY <1>2, <1>4, <1>6, <2>2, <2>3 DEF MoodInv
<1>11. InjectionInv'
  <2>1. Injected' = Injected /\ Injected \subseteq Subjects
    BY <1>3 DEF Injected
  <2>2. \A s \in desk.injections : injected[s] # Never
    BY <1>1 DEF InjectionInv
  <2>3. e.injections = Injected
    BY <1>6, <2>2
  <2>4. \A s \in Injected : injected[s] # Never
    BY DeskConstants DEF Injected
  <2> QED BY <1>1, <1>2, <1>3, <2>1, <2>3, <2>4 DEF InjectionInv
<1> QED BY <1>7, <1>8, <1>9, <1>10, <1>11 DEF DeskInv

LEMMA DeskRestarts ==
  ASSUME DeskInv, DeskRestart
  PROVE  DeskInv'
<1>1. BankInv /\ DiagnoserInv /\ ConsoleInv /\ MoodInv /\ PageInv /\ InjectionInv
  BY DEF DeskInv
<1> DEFINE e == [desk EXCEPT !.mode = Never, !.faults = {}, !.diagnoses = {}, !.injections = {},
                             !.inbox = desk.file, !.run = @ + 1]
<1>2. /\ connected' = FALSE /\ desk' = e /\ lapsed' = {} /\ Draw(desk', onMail, TRUE)
      /\ plot.restarts > 0 /\ plot' = [plot EXCEPT !.restarts = @ - 1]
      /\ UNCHANGED <<bank, explained, diagnoser, plant, late, deaf, recalled>>
  BY DEF DeskRestart
<1>3. /\ UNCHANGED <<held, occurred, modeNow, explained, waiting, remembered, working>>
      /\ UNCHANGED <<injected, applied, wired, late, deaf, recalled>>
  BY <1>2 DEF bank, diagnoser, plant
<1>4. Sound(desk) /\ desk \in Desks /\ desk.run \in Nat /\ desk.n \in Nat /\ desk.file = desk.inbox
  BY <1>1 DEF ConsoleInv, Sound, Desks
<1>5. desk.run + 1 \in Nat
  BY <1>4
<1>6. /\ e \in Desks /\ e.file = e.inbox /\ e.inbox = desk.inbox /\ e.n = desk.n /\ e.run = desk.run + 1
      /\ e.mode = Never /\ e.faults = {} /\ e.diagnoses = {} /\ e.injections = {}
  BY <1>4, <1>5 DEF Desks
<1> HIDE DEF e
<1>7. Sound(e) /\ desk.n <= e.n
  BY <1>4, <1>6 DEF Sound
<1>8. PageInv'
  <2>1. onMail \in BOOLEAN /\ TRUE \in BOOLEAN
    BY <1>1 DEF PageInv, Reads
  <2>2. Reads(desk', view', cut', onMail', seen', displayed', skipped')
    BY <1>1, <1>2, <1>4, <1>7, <2>1, Drawn DEF PageInv
  <2> QED BY <2>2 DEF PageInv
<1>9. BankInv'
  BY <1>1, <1>2, <1>3, FewerPlots DEF BankInv
<1>10. DiagnoserInv'
  BY <1>1, <1>3 DEF DiagnoserInv
<1>11. ConsoleInv'
  <2>1. ToldOf(desk'.inbox, desk'.run, Known')
    <3>1. ToldOf(desk.inbox, desk.run, Known) /\ desk.inbox \in Seq(Item)
      BY <1>1, <1>4 DEF ConsoleInv, Desks
    <3> DEFINE N == Len(desk.inbox)
    <3>2. \A i \in 1..N : desk.inbox[i].run \in Nat
      <4> DEFINE box == desk.inbox
      <4>1. box \in Seq(Item)
        BY <3>1
      <4> HIDE DEF box
      <4>2. \A i \in 1..Len(box) : box[i] \in Item
        BY <4>1, ElementOfSeq
      <4>3. \A item \in Item : item.run \in Nat
        BY DEF Item
      <4> QED BY <4>2, <4>3 DEF box
    <3>3. \A i \in 1..N : /\ desk.inbox[i].run <= desk.run
                          /\ (desk.inbox[i].kind = "mode" <=> desk.inbox[i].about \in Mode)
      BY <3>1 DEF ToldOf
    <3>4. \A r, q \in Nat : r <= q => r <= q + 1 /\ r # q + 1
      OBVIOUS
    <3>5. \A i \in 1..N : desk.inbox[i].run <= e.run /\ desk.inbox[i].run # e.run
      BY <1>4, <1>6, <3>2, <3>3, <3>4
    <3> QED BY <1>2, <1>6, <3>3, <3>5 DEF ToldOf
  <2> QED BY <1>1, <1>2, <1>3, <1>6, <1>7, <2>1 DEF ConsoleInv
<1>12. MoodInv'
  BY <1>1, <1>2, <1>3, <1>6 DEF MoodInv
<1>13. InjectionInv'
  <2>1. Injected' = Injected
    BY <1>3 DEF Injected
  <2> QED BY <1>1, <1>2, <1>3, <1>6, <2>1 DEF InjectionInv
<1> QED BY <1>8, <1>9, <1>10, <1>11, <1>12, <1>13 DEF DeskInv

-----------------------------------------------------------------------------
(* The steps that leave the console as it is. *)

(* The page is drawn anew, or its socket breaks or opens.                  *)
LEMMA Redrawn ==
  ASSUME DeskInv, NEW mail \in BOOLEAN, NEW broken \in BOOLEAN, Draw(desk, mail, broken), plot' \in PlotType,
         UNCHANGED <<bank, explained, diagnoser, connected, desk, plant, past>>
  PROVE  DeskInv'
<1>1. BankInv /\ DiagnoserInv /\ ConsoleInv /\ MoodInv /\ PageInv /\ InjectionInv
  BY DEF DeskInv
<1>2. /\ UNCHANGED <<held, occurred, modeNow, explained, waiting, remembered, working>>
      /\ UNCHANGED <<connected, desk, injected, applied, wired, lapsed, late, deaf, recalled>>
  BY DEF bank, diagnoser, plant, past
<1>3. PageInv'
  <2>1. Sound(desk) /\ desk.n \in Nat
    BY <1>1 DEF ConsoleInv, Sound, Desks
  <2>2. Reads(desk, view', cut', onMail', seen', displayed', skipped')
    BY <1>1, <2>1, Drawn DEF PageInv
  <2> QED BY <1>2, <2>2 DEF PageInv
<1>4. BankInv' /\ DiagnoserInv' /\ MoodInv'
  BY <1>1, <1>2 DEF BankInv, DiagnoserInv, MoodInv
<1>5. ConsoleInv'
  BY <1>1, <1>2 DEF ConsoleInv, Known
<1>6. InjectionInv'
  BY <1>1, <1>2 DEF InjectionInv, Injected
<1> QED BY <1>3, <1>4, <1>5, <1>6 DEF DeskInv

LEMMA Diagnosing ==
  ASSUME DeskInv, Diagnose \/ RestartDiagnoser
  PROVE  DeskInv'
<1>1. BankInv /\ DiagnoserInv /\ ConsoleInv /\ MoodInv /\ PageInv /\ InjectionInv
  BY DEF DeskInv
<1>2. /\ UNCHANGED <<held, occurred, modeNow, explained, connected, desk, view, cut, onMail, seen, displayed, skipped>>
      /\ UNCHANGED <<injected, applied, wired, lapsed, late, deaf, recalled>>
  BY DEF Diagnose, RestartDiagnoser, bank, browser, plant, past
<1>3. plot' \in PlotType
  BY <1>1, FewerPlots DEF Diagnose, RestartDiagnoser, BankInv
<1>4. BankInv' /\ ConsoleInv' /\ MoodInv' /\ PageInv' /\ InjectionInv'
  <2>1. Known' = Known /\ Injected' = Injected
    BY <1>2 DEF Known, Injected
  <2>2. BankInv' /\ MoodInv'
    BY <1>1, <1>2, <1>3 DEF BankInv, MoodInv
  <2>3. ConsoleInv'
    BY <1>1, <1>2, <2>1 DEF ConsoleInv
  <2>4. PageInv'
    BY <1>1, <1>2 DEF PageInv
  <2>5. InjectionInv'
    BY <1>1, <1>2, <2>1 DEF InjectionInv
  <2> QED BY <2>2, <2>3, <2>4, <2>5
<1>5. /\ waiting \in Seq(occurred) /\ IsInjective(waiting) /\ \A i \in 1..Len(waiting) : waiting[i] \in held \cup late
      /\ remembered \subseteq occurred /\ explained \subseteq occurred /\ explained \subseteq held \cup late
      /\ late \subseteq occurred /\ held \subseteq occurred /\ IsFiniteSet(occurred)
  BY <1>1 DEF DiagnoserInv, BankInv
<1>6. CASE Diagnose
  <2> DEFINE n == Len(waiting)
             rest == Tail(waiting)
  <2>1. waiting # << >> /\ working' = Head(waiting) /\ waiting' = rest /\ remembered' = remembered \cup {Head(waiting)}
    BY <1>6 DEF Diagnose
  <2>2. /\ n \in Nat /\ n >= 1 /\ Head(waiting) = waiting[1]
        /\ rest \in Seq(occurred) /\ Len(rest) = n - 1 /\ \A i \in 1..n - 1 : rest[i] = waiting[i + 1]
    <3>1. n \in Nat /\ n # 0
      BY <1>5, <2>1, EmptySeq, LenProperties
    <3> QED BY <1>5, <2>1, <3>1, HeadTailProperties
  <2> HIDE DEF rest
  <2>3. DOMAIN waiting = 1..n /\ DOMAIN rest = 1..n - 1
    BY <1>5, <2>2, LenProperties
  <2>4. \A i \in 1..n - 1 : i + 1 \in 1..n
    BY <2>2
  <2> HIDE DEF n
  <2>5. IsInjective(rest)
    <3>1. \A i, j \in 1..n : waiting[i] = waiting[j] => i = j
      BY <1>5, <2>3 DEF IsInjective
    <3>2. ASSUME NEW i \in 1..n - 1, NEW j \in 1..n - 1, rest[i] = rest[j] PROVE i = j
      <4>1. i + 1 = j + 1
        BY <2>2, <2>4, <3>1, <3>2
      <4> QED BY <2>2, <4>1
    <3> QED BY <2>3, <3>2 DEF IsInjective
  <2>6. 1 \in 1..n /\ waiting[1] \in occurred /\ waiting[1] \in held \cup late
    <3>1. 1 \in 1..n
      BY <2>2
    <3> QED BY <1>5, <3>1 DEF n
  <2>7. \A i \in 1..n - 1 : rest[i] \in held \cup late
    BY <1>5, <2>2, <2>4 DEF n
  <2>8. DiagnoserInv'
    BY <1>1, <1>2, <1>5, <2>1, <2>2, <2>5, <2>6, <2>7 DEF DiagnoserInv
  <2> QED BY <1>4, <2>8 DEF DeskInv
<1>7. CASE RestartDiagnoser
  <2> DEFINE list == SetToSeq(held)
  <2>1. waiting' = list /\ remembered' = {} /\ working' = Never
    BY <1>7 DEF RestartDiagnoser
  <2>2. list \in Seq(held) /\ IsInjective(list)
    BY <1>5, ListOfSet, FS_Subset
  <2> HIDE DEF list
  <2>3. list \in Seq(occurred) /\ \A i \in 1..Len(list) : list[i] \in held
    BY <1>5, <2>2, SameList, ElementOfSeq
  <2>4. DiagnoserInv'
    BY <1>2, <1>5, <2>1, <2>2, <2>3 DEF DiagnoserInv
  <2> QED BY <1>4, <2>4 DEF DeskInv
<1> QED BY <1>6, <1>7

LEMMA LinksBreak ==
  ASSUME DeskInv, PlantCut \/ PlantJoin \/ PlantRestart \/ DeskCut
  PROVE  DeskInv'
<1>1. BankInv /\ DiagnoserInv /\ ConsoleInv /\ MoodInv /\ PageInv /\ InjectionInv
  BY DEF DeskInv
<1>2. /\ UNCHANGED <<held, occurred, modeNow, explained, waiting, remembered, working>>
      /\ UNCHANGED <<desk, view, cut, onMail, seen, displayed, skipped, injected, lapsed, late, deaf, recalled>>
  BY DEF PlantCut, PlantJoin, PlantRestart, DeskCut, bank, diagnoser, browser, plant, past
<1>3. plot' \in PlotType
  BY <1>1, FewerPlots DEF PlantCut, PlantJoin, PlantRestart, DeskCut, BankInv
<1>4. Known' = Known /\ Injected' = Injected
  BY <1>2 DEF Known, Injected
<1>5. connected' \in BOOLEAN /\ (connected' => connected)
  <2>1. connected' = connected \/ connected' = FALSE
    BY DEF PlantCut, PlantJoin, PlantRestart, DeskCut
  <2>2. connected \in BOOLEAN
    BY <1>1 DEF ConsoleInv
  <2>3. CASE connected' = connected
    BY <2>2, <2>3
  <2>4. CASE connected' = FALSE
    BY <2>4
  <2> QED BY <2>1, <2>3, <2>4
<1>6. BankInv' /\ DiagnoserInv' /\ MoodInv' /\ PageInv'
  BY <1>1, <1>2, <1>3 DEF BankInv, DiagnoserInv, MoodInv, PageInv
<1>7. ConsoleInv'
  BY <1>1, <1>2, <1>4, <1>5 DEF ConsoleInv
<1>8. InjectionInv'
  <2>1. applied \subseteq Subjects /\ wired \in BOOLEAN /\ (wired => applied = Injected)
        /\ \A s \in desk.injections \cup applied : injected[s] # Never
    BY <1>1 DEF InjectionInv
  <2>2. Injected \subseteq Subjects /\ \A s \in Injected : injected[s] # Never
    BY DeskConstants DEF Injected
  <2>3. AppliedOnJoining(applied) = Injected
    BY <2>1 DEF AppliedOnJoining
  <2>4. applied' \in {applied, Injected, {}} /\ wired' \in BOOLEAN /\ (wired' => applied' = Injected)
    <3>1. CASE PlantJoin
      BY <2>3, <3>1 DEF PlantJoin
    <3>2. CASE PlantCut \/ PlantRestart
      BY <3>2 DEF PlantCut, PlantRestart
    <3>3. CASE DeskCut
      BY <2>1, <3>3 DEF DeskCut, plant
    <3> QED BY <3>1, <3>2, <3>3
  <2>5. applied' \subseteq Subjects /\ \A s \in desk.injections \cup applied' : injected[s] # Never
    BY <2>1, <2>2, <2>4
  <2> QED BY <1>1, <1>2, <1>4, <1>5, <2>4, <2>5 DEF InjectionInv
<1> QED BY <1>6, <1>7, <1>8 DEF DeskInv

-----------------------------------------------------------------------------
LEMMA DeskStarts ==
  ASSUME DeskInit
  PROVE  DeskInv
<1> DEFINE none == << >>
<1>1. none \in Seq(Item) /\ none \in Seq(occurred) /\ Len(none) = 0 /\ DOMAIN none = {}
  OBVIOUS
<1>2. /\ held = {} /\ occurred = {} /\ modeNow = "NORMAL" /\ explained = {} /\ waiting = none /\ remembered = {}
      /\ working = Never /\ connected = TRUE /\ late = {} /\ deaf = FALSE /\ recalled = "NORMAL" /\ displayed = {}
      /\ desk = [mode |-> "NORMAL", faults |-> {}, diagnoses |-> {}, injections |-> {},
                 inbox |-> none, file |-> none, n |-> 0, run |-> 0]
      /\ cut = FALSE /\ view = ViewOf(desk) /\ onMail = FALSE /\ seen = 0
      /\ injected = [s \in Subjects |-> Never] /\ applied = {} /\ wired = TRUE /\ plot \in Plots
  BY DEF DeskInit
<1> HIDE DEF none
<1>3. "NORMAL" \in Mode
  BY DEF Mode
<1>4. \A i \in 1..Len(none) : FALSE
  BY <1>1
<1>5. /\ desk \in Desks /\ desk.inbox = none /\ desk.file = none /\ desk.n = 0 /\ desk.run = 0
      /\ desk.mode = "NORMAL" /\ desk.faults = {} /\ desk.diagnoses = {} /\ desk.injections = {}
  BY <1>1, <1>2, <1>3 DEF Desks
<1>6. Filed(none, 0) /\ Numbers(none) = {}
  BY <1>1, <1>4, DeskConstants DEF Filed, Numbers
<1>7. BankInv
  BY <1>2, <1>3, FS_EmptySet, DeskConstants DEF BankInv
<1>8. DiagnoserInv
  <2>1. IsInjective(none)
    BY <1>1 DEF IsInjective
  <2> QED BY <1>1, <1>2, <1>4, <2>1 DEF DiagnoserInv
<1>9. ConsoleInv
  <2>1. OnceTold(none, late) /\ ToldOf(none, 0, Known)
    BY <1>4 DEF OnceTold, ToldOf
  <2> QED BY <1>2, <1>3, <1>5, <1>6, <2>1, DeskConstants DEF ConsoleInv, Sound
<1>10. MoodInv
  BY <1>2, <1>3, <1>4, <1>5 DEF MoodInv, LatestIs
<1>11. PageInv
  <2>1. view \in Views /\ view = ViewOf(desk) /\ view.inbox = none
    BY <1>2, <1>5 DEF Views, ViewOf, Desks
  <2>2. \E u \in Nat : u <= desk.n /\ Filed(view.inbox, u)
    <3>1. 0 \in Nat /\ 0 <= desk.n /\ Filed(view.inbox, 0)
      BY <1>5, <1>6, <2>1
    <3> QED BY <3>1
  <2>3. cut \in BOOLEAN /\ onMail \in BOOLEAN /\ onMail = FALSE
    BY <1>2
  <2>4. /\ seen \in Nat /\ seen <= desk.n /\ displayed = {}
        /\ Numbers(view.inbox) \cup Numbers(desk.inbox) = {}
    BY <1>2, <1>5, <1>6, <2>1
  <2> QED BY <2>1, <2>2, <2>3, <2>4 DEF PageInv, Reads
<1>12. InjectionInv
  <2>1. Injected = {}
    BY <1>2, DeskConstants DEF Injected
  <2> QED BY <1>2, <1>5, <2>1 DEF InjectionInv
<1> QED BY <1>7, <1>8, <1>9, <1>10, <1>11, <1>12 DEF DeskInv

LEMMA DeskSteps ==
  ASSUME DeskInv, [DeskNext]_deskVars
  PROVE  DeskInv'
<1>1. plot \in PlotType /\ held \subseteq FaultIds
  BY DEF DeskInv, BankInv
<1>2. ASSUME NEW f \in FaultIds, Raise(f) PROVE DeskInv'
  BY <1>2, Raised
<1>3. ASSUME NEW f \in FaultIds, Heal(f) PROVE DeskInv'
  <2>1. {f} \in SUBSET held /\ Retire({f}, FALSE) /\ plot' \in PlotType /\ FALSE \in BOOLEAN
    BY <1>1, <1>3, FewerPlots DEF Heal
  <2> QED BY <2>1, Retired
<1>4. CASE Reset
  <2>1. held \in SUBSET held /\ Retire(held, TRUE) /\ plot' \in PlotType /\ TRUE \in BOOLEAN
    BY <1>1, <1>4 DEF Reset
  <2> QED BY <2>1, Retired
<1>5. onMail \in BOOLEAN
  BY DEF DeskInv, PageInv, Reads
<1>6. cut \in BOOLEAN
  BY DEF DeskInv, PageInv, Reads
<1>7. CASE Visit
  <2>1. /\ Draw(desk, ~onMail, cut) /\ plot' \in PlotType
        /\ UNCHANGED <<bank, explained, diagnoser, connected, desk, plant, past>>
    BY <1>1, <1>7, FewerPlots DEF Visit
  <2>2. (~onMail) \in BOOLEAN
    OBVIOUS
  <2> QED BY <1>6, <2>1, <2>2, Redrawn
<1>8. CASE PageCut
  <2>1. /\ Draw(desk, onMail, TRUE) /\ plot' \in PlotType /\ TRUE \in BOOLEAN
        /\ UNCHANGED <<bank, explained, diagnoser, connected, desk, plant, past>>
    BY <1>1, <1>8, FewerPlots DEF PageCut
  <2> QED BY <1>5, <2>1, Redrawn
<1>9. CASE PageJoin
  <2>1. /\ Draw(desk, onMail, FALSE) /\ plot' \in PlotType /\ FALSE \in BOOLEAN
        /\ UNCHANGED <<bank, explained, diagnoser, connected, desk, plant, past>>
    BY <1>1, <1>9 DEF PageJoin
  <2> QED BY <1>5, <2>1, Redrawn
<1>10. CASE Diagnose \/ RestartDiagnoser
  BY <1>10, Diagnosing
<1>11. ASSUME NEW answered \in BOOLEAN, Explain(answered) PROVE DeskInv'
  BY <1>11, Explained
<1>12. ASSUME NEW s \in Subjects, NEW clears \in BOOLEAN, Inject(s, clears) PROVE DeskInv'
  BY <1>12, Injects
<1>13. CASE PlantCut \/ PlantJoin \/ PlantRestart \/ DeskCut
  BY <1>13, LinksBreak
<1>14. CASE DeskJoin
  BY <1>14, DeskJoins
<1>15. CASE DeskRestart
  BY <1>15, DeskRestarts
<1>16. CASE UNCHANGED deskVars
  <2>1. /\ UNCHANGED <<held, occurred, modeNow, explained, waiting, remembered, working, connected, desk, plot>>
        /\ UNCHANGED <<view, cut, onMail, seen, displayed, skipped, injected, applied, wired>>
        /\ UNCHANGED <<lapsed, late, deaf, recalled>>
    BY <1>16 DEF deskVars, bank, diagnoser, browser, plant, past
  <2>2. Known' = Known /\ Injected' = Injected
    BY <2>1 DEF Known, Injected
  <2>3. BankInv' /\ DiagnoserInv' /\ MoodInv' /\ PageInv'
    BY <2>1 DEF DeskInv, BankInv, DiagnoserInv, MoodInv, PageInv
  <2>4. ConsoleInv' /\ InjectionInv'
    BY <2>1, <2>2 DEF DeskInv, ConsoleInv, InjectionInv
  <2> QED BY <2>3, <2>4 DEF DeskInv
<1> QED
  BY <1>2, <1>3, <1>4, <1>7, <1>8, <1>9, <1>10, <1>11, <1>12, <1>13, <1>14, <1>15, <1>16 DEF DeskNext

(* The card of Home reads the last message of a mode.                      *)
LEMMA CardReadsTheLast ==
  ASSUME NEW m, view.inbox \in Seq(Item), LatestIs(view.inbox, m), view.mode = m
  PROVE  StatusCard.said = StatusCard.label
<1> DEFINE box == view.inbox
           news == {i \in DOMAIN box : box[i].kind = "mode"}
           said == IF view.mode = "NORMAL" \/ news = {} THEN view.mode ELSE box[Max(news)].about
<1>1. StatusCard.said = said /\ StatusCard.label = m
  BY DEF StatusCard
<1>2. DOMAIN box = 1..Len(box) /\ Len(box) \in Nat
  BY LenProperties
<1>3. ASSUME news # {} PROVE box[Max(news)].about = m
  <2>1. news \subseteq 1..Len(box)
    BY <1>2
  <2> DEFINE k == Max(news)
  <2>2. k \in news /\ \A i \in news : i <= k
    <3> HIDE DEF news
    <3> QED BY <1>2, <1>3, <2>1, Greatest
  <2> HIDE DEF k
  <2>3. k \in 1..Len(box) /\ box[k].kind = "mode"
    BY <1>2, <2>2
  <2>4. \A j \in 1..Len(box) : j > k => box[j].kind # "mode"
    <3> SUFFICES ASSUME NEW j \in 1..Len(box), j > k, box[j].kind = "mode" PROVE FALSE
      OBVIOUS
    <3>1. j \in news
      BY <1>2
    <3>2. j <= k
      BY <2>2, <3>1
    <3> QED BY <1>2, <2>3, <3>2
  <2>5. box[k].about = m
    BY <2>3, <2>4 DEF LatestIs
  <2> QED BY <2>5 DEF k
<1>4. said = m
  <2> HIDE DEF news
  <2> QED BY <1>3
<1> QED BY <1>1, <1>4

LEMMA DeskSays ==
  ASSUME DeskInv
  PROVE  DeskIsTrue
<1>1. BankInv /\ DiagnoserInv /\ ConsoleInv /\ MoodInv /\ PageInv /\ InjectionInv
  BY DEF DeskInv
<1>2. Sound(desk) /\ desk \in Desks /\ desk.inbox \in Seq(Item) /\ desk.n \in Nat /\ desk.file = desk.inbox
      /\ Filed(desk.inbox, desk.n)
  BY <1>1 DEF ConsoleInv, Sound, Desks
<1>3. DOMAIN desk.inbox = 1..Len(desk.inbox) /\ Len(desk.inbox) \in Nat
  BY <1>2, LenProperties
<1>4. /\ view \in Views /\ view.inbox \in Seq(Item) /\ cut \in BOOLEAN /\ onMail \in BOOLEAN
      /\ (~cut => view = ViewOf(desk)) /\ seen \in Nat /\ seen <= desk.n
      /\ \A x \in Numbers(view.inbox) : x <= seen => x \in displayed \cup skipped
      /\ onMail /\ Len(view.inbox) < Kept => \A x \in Numbers(view.inbox) : x <= seen
      /\ Len(view.inbox) < Kept => \A x \in displayed : x <= seen
  BY <1>1 DEF PageInv, Reads, Views
<1>5. DeskTypeOK
  <2>1. Len(desk.inbox) <= Kept
    BY <1>2, <1>3, DeskConstants DEF Filed
  <2>2. ViewOf(desk) \in Views
    BY <1>2 DEF ViewOf, Views, Desks
  <2>3. {connected, cut, onMail, wired, deaf} \subseteq BOOLEAN
    BY <1>1, <1>4 DEF ConsoleInv, MoodInv, InjectionInv
  <2> QED BY <1>1, <1>2, <1>4, <2>1, <2>2, <2>3 DEF DeskTypeOK, BankInv, DiagnoserInv, InjectionInv
<1>6. ListedIsWrong
  BY <1>1 DEF ListedIsWrong, ConsoleInv, DiagnoserInv
<1>7. ExplainedOnce
  BY <1>1, <1>3 DEF ExplainedOnce, ConsoleInv, OnceTold
<1>8. StatusSaysItsMode
  <2> SUFFICES ASSUME ~cut, ~deaf, view.mode # Never
               PROVE  StatusCard.said = StatusCard.label
    BY DEF StatusSaysItsMode
  <2>1. view.mode = desk.mode /\ view.inbox = desk.inbox
    BY <1>4 DEF ViewOf
  <2>2. desk.mode = recalled /\ LatestIs(desk.inbox, recalled)
    BY <1>1, <2>1 DEF MoodInv
  <2> QED BY <1>4, <2>1, <2>2, CardReadsTheLast
<1>9. ReadMeansShown
  <2> DEFINE V == Numbers(view.inbox)
  <2>1. V \subseteq Nat /\ \A i \in DOMAIN view.inbox : view.inbox[i].n \in V
    <3>1. DOMAIN view.inbox = 1..Len(view.inbox)
      BY <1>4, LenProperties
    <3>2. \A i \in 1..Len(view.inbox) : view.inbox[i].n \in Nat
      <4> DEFINE box == view.inbox
      <4>1. box \in Seq(Item)
        BY <1>4
      <4> HIDE DEF box
      <4>2. \A i \in 1..Len(box) : box[i] \in Item
        BY <4>1, ElementOfSeq
      <4>3. \A item \in Item : item.n \in Nat
        BY DEF Item
      <4> QED BY <4>2, <4>3 DEF box
    <3> QED BY <3>1, <3>2 DEF Numbers
  <2>2. Unread = {x \in V : x > seen}
    BY DEF Unread, Numbers
  <2>3. ASSUME onMail, Len(view.inbox) < Kept PROVE Badges.mail = 0
    <3>1. \A x \in V : x \in Nat /\ x <= seen
      BY <1>4, <2>1, <2>3
    <3>2. Unread = {}
      BY <1>4, <2>2, <3>1
    <3> QED BY <3>2, FS_EmptySet DEF Badges
  <2>4. \A i \in DOMAIN view.inbox : view.inbox[i].n \in Unread \cup displayed \cup skipped
    <3> TAKE i \in DOMAIN view.inbox
    <3> DEFINE x == view.inbox[i].n
    <3>1. x \in V /\ x \in Nat
      BY <2>1
    <3> HIDE DEF x
    <3>2. x > seen \/ x <= seen
      BY <1>4, <3>1
    <3>3. x \in Unread \cup displayed \cup skipped
      BY <1>4, <2>2, <3>1, <3>2
    <3> QED BY <3>3 DEF x
  <2>5. Len(view.inbox) < Kept => Unread \cap displayed = {}
    BY <1>4, <2>1, <2>2
  <2> QED BY <2>3, <2>4, <2>5 DEF ReadMeansShown
<1>10. InjectionsAgree
  BY <1>1 DEF InjectionsAgree, InjectionInv
<1> QED BY <1>5, <1>6, <1>7, <1>8, <1>9, <1>10 DEF DeskIsTrue

(* Whatever breaks or starts again, the console and the pages say of the   *)
(* faults what is true of them: what is wrong is listed, a fault is        *)
(* explained once, Home's sentence is the one of the mode it stands under, *)
(* mail counts as read once it was on the screen, and the injections       *)
(* listed are the ones the plant fakes (console/state.py, Faults.tsx,      *)
(* Mail.tsx, Home.tsx, assistance/diagnosis.py).                           *)
THEOREM DeskKept == DeskSpec => []DeskIsTrue
<1>1. DeskInit => DeskInv
  BY DeskStarts
<1>2. DeskInv /\ [DeskNext]_deskVars => DeskInv'
  BY DeskSteps
<1>3. DeskInv => DeskIsTrue
  BY DeskSays
<1> QED BY <1>1, <1>2, <1>3, PTL DEF DeskSpec

=============================================================================
