-------------------------- MODULE FaultBankThreads --------------------------
(***************************************************************************)
(* The detector bank taken apart into the two threads that run it.  paho's *)
(* network thread runs the message handlers one at a time; the main thread *)
(* runs tick().  They share the aggregator's dictionary and the mode       *)
(* manager's fields, and nothing in src/src/faults takes a lock.           *)
(*                                                                         *)
(* A step is a stretch of code that reads or writes shared state once.     *)
(* What a round of detectors finds is chosen freely (FaultBank has the     *)
(* detectors); every fault has an id of its own, as fault_id has.          *)
(***************************************************************************)
EXTENDS ModeManager

CONSTANTS
  Judged,      \* the keys the bank's own detectors may raise here
  MaxRaises,   \* bound: rounds that raise a fault, and divergences published
  MaxResets,   \* bound: operator resets
  MaxDeaths    \* bound: threads lost to an iteration

ASSUME ThreadBounds ==
  /\ Judged \subseteq OwnKey
  /\ MaxRaises \in Nat /\ MaxResets \in Nat /\ MaxDeaths \in Nat

VARIABLES
  mode, faultIds,  \* ModeManager._mode and _fault_ids
  resetPending,    \* ModeManager._reset_pending
  active,          \* FaultAggregator._active, as its faults
  pc,              \* where each thread is
  snap,            \* each thread's own copy of the active faults
  target,          \* each thread's decided mode
  raised, cleared, \* the tick's outcome, until it is announced
  inHand,          \* the network thread's fault message
  doomed,          \* threads whose dictionary changed under their iteration
  lost,            \* faults whose handler died of it
  inbox,           \* fault messages on their way to the network thread
  resetSent,       \* a ModeReset on its way
  retained,        \* broker: the retained faults
  modeTopic,       \* broker: the retained mode
  minted, resets, deaths  \* the counters the bounds cap

managerVars == <<mode, faultIds, resetPending>>
threadVars  == <<pc, snap, target, raised, cleared, inHand, doomed, lost>>
brokerVars  == <<inbox, resetSent, retained, modeTopic>>
vars == <<managerVars, active, threadVars, brokerVars, minted, resets, deaths>>

Thread == {"main", "net"}
Fault  == [key : Key, n : 1..MaxRaises]
Keys(faults) == {f.key : f \in faults}

Pc == {"idle", "ingest", "announce", "checking", "retire", "clear", "acknowledge",
       "list", "take", "decide", "transition", "publish"}

TypeOK ==
  /\ mode \in Mode /\ faultIds \subseteq Fault /\ resetPending \in BOOLEAN
  /\ active \subseteq Fault
  /\ pc \in [Thread -> Pc] /\ snap \in [Thread -> SUBSET Fault]
  /\ target \in [Thread -> Mode]
  /\ raised \subseteq Fault /\ cleared \subseteq Fault /\ inHand \subseteq Fault
  /\ doomed \subseteq Thread /\ lost \subseteq Fault
  /\ inbox \subseteq Fault /\ resetSent \in BOOLEAN
  /\ retained \subseteq Fault /\ modeTopic \in Mode \cup {"none"}
  /\ minted \in 0..MaxRaises /\ resets \in 0..MaxResets
  /\ deaths \in 0..MaxDeaths

Idle == [t \in Thread |-> "idle"]
NoFaults == [t \in Thread |-> {}]

Init ==
  /\ mode = "INIT" /\ faultIds = {} /\ resetPending = FALSE /\ active = {}
  /\ pc = Idle /\ snap = NoFaults /\ target = [t \in Thread |-> "INIT"]
  /\ raised = {} /\ cleared = {} /\ inHand = {} /\ doomed = {} /\ lost = {}
  /\ inbox = {} /\ resetSent = FALSE /\ retained = {} /\ modeTopic = "none"
  /\ minted = 0 /\ resets = 0 /\ deaths = 0

Goes(t, to) == pc' = [pc EXCEPT ![t] = to]

(* A thread that is done with a publication holds no copy of anything. *)
Forgets(t) ==
  /\ snap' = [snap EXCEPT ![t] = {}]
  /\ target' = [target EXCEPT ![t] = "INIT"]
At(t, where) == pc[t] = where /\ t \notin doomed

(* _withdraw_fault for a set of faults. *)
WithdrawNothing(gone) == retained
Withdraw(gone) == retained \ gone

(* Iterating a dictionary another thread resizes raises RuntimeError, and  *)
(* so does deleting a key another thread has cleared: a thread that lists  *)
(* or folds `_active` while the other resizes it may be doomed.            *)
Listing == {"ingest", "checking", "retire", "list"}
MayDoom(t, resized) ==
  \/ UNCHANGED <<doomed, deaths>>
  \/ /\ resized /\ pc[t] \in Listing /\ t \notin doomed
     /\ deaths < MaxDeaths
     /\ deaths' = deaths + 1
     /\ doomed' = doomed \cup {t}

----------------------------------------------------------------------------
(* DetectorBankService._publish_mode, which both threads run.              *)

ListActive(t) ==
  /\ At(t, "list")
  /\ snap' = [snap EXCEPT ![t] = active]
  /\ Goes(t, "take")
  /\ UNCHANGED <<managerVars, active, target, raised, cleared, inHand, doomed, lost,
                 brokerVars, minted, resets, deaths>>

(* ModeManager._decide up to the reset: a pending one is spent here,       *)
(* whether the copy of the active faults lets it through or refuses it.    *)
TakeReset(t) ==
  /\ At(t, "take")
  /\ resetPending' = FALSE
  /\ IF Released(resetPending, Controlling(Keys(snap[t])))
     THEN target' = [target EXCEPT ![t] = "NORMAL"] /\ Goes(t, "transition")
     ELSE target' = target /\ Goes(t, "decide")
  /\ UNCHANGED <<mode, faultIds, active, snap, raised, cleared, inHand, doomed, lost,
                 brokerVars, minted, resets, deaths>>

(* The rest of _decide, on the mode as it is now.  The prediction budget   *)
(* may be spent at any moment of DEGRADED_SENSOR.                          *)
DecideMode(t) ==
  /\ At(t, "decide")
  /\ \E spent \in IF mode = "DEGRADED_SENSOR" THEN BOOLEAN ELSE {FALSE} :
       target' = [target EXCEPT ![t] = Decide(mode, Keys(snap[t]), FALSE, TRUE, spent)]
  /\ Goes(t, "transition")
  /\ UNCHANGED <<managerVars, active, snap, raised, cleared, inHand, doomed, lost,
                 brokerVars, minted, resets, deaths>>

(* update and _transition: nothing to publish, or the fields assigned. *)
Transition(t) ==
  /\ At(t, "transition")
  /\ IF target[t] = mode /\ snap[t] = faultIds
     THEN UNCHANGED <<mode, faultIds>> /\ Forgets(t) /\ Goes(t, "idle")
     ELSE /\ mode' = target[t] /\ faultIds' = snap[t]
          /\ UNCHANGED <<snap, target>> /\ Goes(t, "publish")
  /\ UNCHANGED <<resetPending, active, raised, cleared, inHand, doomed, lost,
                 brokerVars, minted, resets, deaths>>

PublishMode(t) ==
  /\ At(t, "publish")
  /\ modeTopic' = target[t]
  /\ Forgets(t) /\ Goes(t, "idle")
  /\ UNCHANGED <<managerVars, active, raised, cleared, inHand, doomed, lost,
                 inbox, resetSent, retained, minted, resets, deaths>>

----------------------------------------------------------------------------
(* The main thread's tick. *)

StartTick ==
  /\ At("main", "idle")
  /\ Goes("main", "ingest")
  /\ UNCHANGED <<managerVars, active, snap, target, raised, cleared, inHand, doomed, lost,
                 brokerVars, minted, resets, deaths>>

(* FaultAggregator.ingest on a round that finds `found` and clears `gone`. *)
Ingest(found, gone) ==
  /\ At("main", "ingest")
  /\ found \cap Keys(active) = {}
  /\ found # {} => minted < MaxRaises
  /\ minted' = IF found = {} THEN minted ELSE minted + 1
  /\ raised' = {[key |-> k, n |-> minted + 1] : k \in found}
  /\ cleared' = gone
  /\ active' = (active \cup raised') \ gone
  /\ MayDoom("net", found # {} \/ gone # {})
  /\ Goes("main", "announce")
  /\ UNCHANGED <<managerVars, snap, target, inHand, lost, brokerVars, resets>>

(* The faults raised are published, and echo back; those cleared are       *)
(* withdrawn.                                                              *)
Announce ==
  /\ At("main", "announce")
  /\ retained' = Withdraw(cleared) \cup (raised \ cleared)
  /\ inbox' = inbox \cup raised
  /\ raised' = {} /\ cleared' = {}
  /\ Goes("main", "list")
  /\ UNCHANGED <<managerVars, active, snap, target, inHand, doomed, lost,
                 resetSent, modeTopic, minted, resets, deaths>>

----------------------------------------------------------------------------
(* The network thread's handlers. *)

Receive(f) ==
  /\ At("net", "idle") /\ f \in inbox
  /\ inbox' = inbox \ {f}
  /\ inHand' = {f}
  /\ Goes("net", "checking")
  /\ UNCHANGED <<managerVars, active, snap, target, raised, cleared, doomed, lost,
                 resetSent, retained, modeTopic, minted, resets, deaths>>

(* _on_fault, for the fault in hand: held, adopted, held already under     *)
(* another id, or withdrawn as left by an earlier run.                     *)
StaleEvenIfHeld(f) == f.key \in OwnKey
Stale(f) == f.key \in OwnKey /\ f \notin active

OnFault ==
  /\ At("net", "checking")
  /\ LET own    == {f \in inHand : Stale(f)}
         adopts == {f \in inHand \ own : f.key \notin Keys(active)}
     IN /\ active' = active \cup adopts
        /\ retained' = Withdraw(own)
        /\ Goes("net", IF adopts = {} THEN "idle" ELSE "list")
        /\ MayDoom("main", adopts # {})
  /\ inHand' = {}
  /\ UNCHANGED <<managerVars, snap, target, raised, cleared, lost,
                 inbox, resetSent, modeTopic, minted, resets>>

ReceiveReset ==
  /\ At("net", "idle") /\ resetSent
  /\ resetSent' = FALSE
  /\ Goes("net", "retire")
  /\ UNCHANGED <<managerVars, active, snap, target, raised, cleared, inHand, doomed, lost,
                 inbox, retained, modeTopic, minted, resets, deaths>>

(* _on_reset: retire_all lists the faults and then clears them; each       *)
(* listed one is withdrawn, and then the reset is recorded.                *)
RetireList ==
  /\ At("net", "retire")
  /\ snap' = [snap EXCEPT !["net"] = active]
  /\ Goes("net", "clear")
  /\ UNCHANGED <<managerVars, active, target, raised, cleared, inHand, doomed, lost,
                 brokerVars, minted, resets, deaths>>

RetireClear ==
  /\ At("net", "clear")
  /\ active' = {}
  /\ MayDoom("main", active # {})
  /\ Goes("net", "acknowledge")
  /\ UNCHANGED <<managerVars, snap, target, raised, cleared, inHand, lost,
                 brokerVars, minted, resets>>

Acknowledge ==
  /\ At("net", "acknowledge")
  /\ retained' = Withdraw(snap["net"])
  /\ resetPending' = TRUE
  /\ Forgets("net") /\ Goes("net", "idle")
  /\ UNCHANGED <<mode, faultIds, active, raised, cleared, inHand, doomed, lost,
                 inbox, resetSent, modeTopic, minted, resets, deaths>>

----------------------------------------------------------------------------
(* Blackboard.dispatch logs a handler's exception and goes on: what the    *)
(* handler had in hand is not delivered again on this connection.          *)
HandlerDies ==
  /\ "net" \in doomed
  /\ doomed' = doomed \ {"net"}
  /\ lost' = lost \cup inHand
  /\ inHand' = {}
  /\ Goes("net", "idle")
  /\ UNCHANGED <<managerVars, active, snap, target, raised, cleared,
                 brokerVars, minted, resets, deaths>>

(* An exception in the tick ends the process.  systemd starts it again, and*)
(* the broker delivers what it retains.                                    *)
Restart ==
  /\ mode' = "INIT" /\ faultIds' = {} /\ resetPending' = FALSE /\ active' = {}
  /\ pc' = Idle /\ snap' = NoFaults /\ target' = [t \in Thread |-> "INIT"]
  /\ raised' = {} /\ cleared' = {} /\ inHand' = {} /\ doomed' = {} /\ lost' = {}
  /\ inbox' = retained
  /\ UNCHANGED <<resetSent, retained, modeTopic, minted, resets, deaths>>

TickDies == "main" \in doomed /\ Restart

(* The estimator publishes a divergence, the console an operator's reset.  *)
EstimatorDiverges ==
  /\ minted < MaxRaises
  /\ minted' = minted + 1
  /\ LET f == [key |-> DivergenceKey, n |-> minted + 1] IN
       retained' = retained \cup {f} /\ inbox' = inbox \cup {f}
  /\ UNCHANGED <<managerVars, active, threadVars, resetSent, modeTopic, resets, deaths>>

OperatorResets ==
  /\ resets < MaxResets /\ ~resetSent
  /\ resets' = resets + 1
  /\ resetSent' = TRUE
  /\ UNCHANGED <<managerVars, active, threadVars, inbox, retained, modeTopic, minted, deaths>>

----------------------------------------------------------------------------
PublishSteps(t) ==
  ListActive(t) \/ TakeReset(t) \/ DecideMode(t) \/ Transition(t) \/ PublishMode(t)

MainStep ==
  \/ StartTick
  \/ \E found \in SUBSET Judged, gone \in SUBSET {f \in active : f.key \in OwnKey} :
       Ingest(found, gone)
  \/ Announce
  \/ PublishSteps("main")
  \/ TickDies

NetStep ==
  \/ \E f \in inbox : Receive(f)
  \/ OnFault
  \/ ReceiveReset \/ RetireList \/ RetireClear \/ Acknowledge
  \/ PublishSteps("net")
  \/ HandlerDies

Next == MainStep \/ NetStep \/ EstimatorDiverges \/ OperatorResets

(* Both threads are scheduled by the operating system. *)
Fairness == WF_vars(MainStep) /\ WF_vars(NetStep)

Spec == Init /\ [][Next]_vars
FairSpec == Spec /\ Fairness

----------------------------------------------------------------------------
(* Properties. *)

(* What the bank holds, the blackboard shows, at every moment but between  *)
(* raising a fault and announcing it: no handler withdraws a live fault.   *)
HeldIsAnnounced == \A f \in active : f \in retained \/ f \in raised

(* A fault nobody holds is withdrawn in the end, whichever thread retired  *)
(* it and in whatever order the two published: the echo of a late          *)
(* announcement finds it not held.  Only a handler that died loses one.    *)
OrphansWithdrawn ==
  \A f \in Fault : f.key \in OwnKey =>
    (f \in retained /\ f \notin active ~> f \notin retained \/ f \in lost)

(* A divergence that is held stops the loop in the bank's own mode, even   *)
(* where the other thread's decision, made before it, is assigned after.   *)
AdoptedStopsLoop ==
  (DivergenceKey \in Keys(active)) ~>
    (mode \in OperatorOnlyExits \/ DivergenceKey \notin Keys(active))

(* However the steps of the two threads interleave, what the bank holds is *)
(* announced on the blackboard, or its announcement is the thread's next   *)
(* step (service.py, paho's thread and the tick's).                        *)
ThreadsAgree ==
  /\ TypeOK
  /\ HeldIsAnnounced

(* However the two threads interleave, they settle: a fault announced that *)
(* nobody holds is withdrawn, and a divergence that is held stops the loop *)
(* in the bank's own mode (service.py, mode_manager.py).                   *)
ThreadsSettle ==
  /\ OrphansWithdrawn
  /\ AdoptedStopsLoop
=============================================================================
