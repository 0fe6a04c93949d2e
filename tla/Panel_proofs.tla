---------------------------- MODULE Panel_proofs ----------------------------
(***************************************************************************)
(* What the occupant works by hand -- a device, the room, the voice -- is  *)
(* shown as it is and obeyed, for any number of pages, calls and requests  *)
(* and for any range a control has.                                        *)
(*                                                                         *)
(* A device: a call is at one place of the executor at a time (OnePlace),  *)
(* only what the console took is under way (TakenIsAccepted), and an OK is *)
(* never ahead of the deed (OkIsActed).                                    *)
(*                                                                         *)
(* The room: a count of the requests under way balances what was published *)
(* against what was shown (EachIsShownOnce), for any range and step.       *)
(*                                                                         *)
(* The voice: whoever has heard all that was published has the board's     *)
(* settings, and the last of what is on its way is what the board retains  *)
(* (Follows).                                                              *)
(***************************************************************************)
EXTENDS DevicePanel, RoomControls, VoiceSettings, SequenceTheorems, WellFoundedInduction, TLAPS

-----------------------------------------------------------------------------
(* A device. *)

(* What is waiting in a queue, and whether nothing is in it twice. *)
Elements(q) == {q[i] : i \in DOMAIN q}
Distinct(q) == \A i, j \in DOMAIN q : q[i] = q[j] => i = j

(* A call is at one place of the executor: waiting, asked, or answered. *)
OnePlace ==
  /\ Distinct(jobsX)
  /\ asking \notin Elements(jobsX)
  /\ \A a \in answers : a.call # asking /\ a.call \notin Elements(jobsX)

(* The console took every call that is under way or was carried out. *)
Accepted(c) == stage[c] \in {"accepted", "sent"}
Told == replies \cup answers \cup UNION {heard[p] : p \in Viewers}
UnderWay ==
  Elements(jobsX) \cup Elements(commands) \cup ({asking, doing} \ {NoCall}) \cup acted \cup {a.call : a \in Told}
TakenIsAccepted == \A c \in UnderWay : Accepted(c)

(* Whoever says OK says it of what the device carried out. *)
OkIsActed == \A a \in Told : a.status = "OK" => a.call \in acted

RefusedIsOver == \A c \in Calls : toast[c] = "refused" => stage[c] = "over"
QuietIsUnsaid == \A p \in Viewers : said[p] \cap scene.quiet = {}
LateIsGivenUp == givenUp \subseteq late

PanelInv ==
  /\ PanelTypeOK
  /\ OnePlace /\ TakenIsAccepted /\ OkIsActed
  /\ ToastsAreTrue /\ RefusedIsOver /\ QuietIsUnsaid /\ LateIsGivenUp

-----------------------------------------------------------------------------
LEMMA Joins ==
  ASSUME NEW S, NEW q \in Seq(S), NEW c \in S
  PROVE  /\ Append(q, c) \in Seq(S) /\ Elements(Append(q, c)) = Elements(q) \cup {c}
         /\ Distinct(q) /\ c \notin Elements(q) => Distinct(Append(q, c))
<1> DEFINE r == Append(q, c)
<1>1. /\ r \in Seq(S) /\ Len(r) = Len(q) + 1 /\ r[Len(q) + 1] = c
      /\ \A i \in 1..Len(q) : r[i] = q[i]
  BY AppendProperties
<1>2. DOMAIN q = 1..Len(q) /\ Len(q) \in Nat
  BY LenProperties
<1>3. DOMAIN r = 1..(Len(q) + 1)
  BY <1>1, LenProperties
<1> HIDE DEF r
<1>4. \A i \in DOMAIN r : (i \in DOMAIN q /\ r[i] = q[i]) \/ (i = Len(q) + 1 /\ i \notin DOMAIN q /\ r[i] = c)
  BY <1>1, <1>2, <1>3
<1>5. \A i \in DOMAIN q : i \in DOMAIN r
  BY <1>2, <1>3
<1>6. Len(q) + 1 \in DOMAIN r
  BY <1>2, <1>3
<1>7. Elements(r) = Elements(q) \cup {c}
  BY <1>1, <1>2, <1>4, <1>5, <1>6 DEF Elements
<1>8. Distinct(q) /\ c \notin Elements(q) => Distinct(r)
  BY <1>4 DEF Elements, Distinct
<1> QED BY <1>1, <1>7, <1>8 DEF r

LEMMA Leaves ==
  ASSUME NEW S, NEW q \in Seq(S), q # <<>>
  PROVE  /\ Head(q) \in S /\ Tail(q) \in Seq(S)
         /\ Head(q) \in Elements(q) /\ Elements(Tail(q)) \subseteq Elements(q)
         /\ Distinct(q) => Distinct(Tail(q)) /\ Head(q) \notin Elements(Tail(q))
<1> DEFINE r == Tail(q)
<1>1. /\ Head(q) \in S /\ r \in Seq(S) /\ Len(r) = Len(q) - 1
      /\ \A i \in 1..Len(r) : r[i] = q[i + 1]
  BY HeadTailProperties
<1>2. DOMAIN q = 1..Len(q) /\ Len(q) \in Nat \ {0} /\ Head(q) = q[1]
  BY LenProperties, EmptySeq
<1>3. DOMAIN r = 1..(Len(q) - 1)
  BY <1>1, LenProperties
<1> HIDE DEF r
<1>4. \A i \in DOMAIN r : i \in Nat \ {0} /\ i + 1 \in DOMAIN q /\ r[i] = q[i + 1]
  BY <1>1, <1>2, <1>3
<1>5. 1 \in DOMAIN q
  BY <1>2
<1>6. Head(q) \in Elements(q) /\ Elements(r) \subseteq Elements(q)
  BY <1>2, <1>4, <1>5 DEF Elements
<1>7. ASSUME Distinct(q) PROVE Distinct(r)
  <2> SUFFICES ASSUME NEW i \in DOMAIN r, NEW j \in DOMAIN r, r[i] = r[j] PROVE i = j
    BY DEF Distinct
  <2>1. i + 1 = j + 1 /\ i \in Nat /\ j \in Nat
    BY <1>4, <1>7 DEF Distinct
  <2> QED BY <2>1
<1>8. ASSUME Distinct(q) PROVE Head(q) \notin Elements(r)
  <2> SUFFICES ASSUME NEW i \in DOMAIN r, r[i] = Head(q) PROVE FALSE
    BY DEF Elements
  <2>1. i + 1 = 1 /\ i \in Nat \ {0}
    BY <1>2, <1>4, <1>5, <1>8 DEF Distinct
  <2> QED BY <2>1
<1> QED BY <1>1, <1>6, <1>7, <1>8 DEF r

LEMMA NothingWaits == Elements(<<>>) = {} /\ Distinct(<<>>) /\ \A S : <<>> \in Seq(S)
<1>1. DOMAIN <<>> = {}
  OBVIOUS
<1> QED BY <1>1 DEF Elements, Distinct

LEMMA Constants ==
  /\ Lowest \in Levels /\ NoLevel \notin Levels /\ NoCall \notin Calls
  /\ scene \in Scenes => /\ scene.asker \in [Calls -> Viewers] /\ scene.open \subseteq Viewers
                         /\ scene.mute \in BOOLEAN /\ scene.limited \in BOOLEAN /\ scene.faults \in Nat
<1>1. Lowest \in Levels
  BY DevicePanelAssumption DEF DevicePanelAssumption, Lowest
<1> QED BY <1>1, DevicePanelAssumption DEF DevicePanelAssumption

LEMMA RestIsALevel == \A reading \in Reading : Rest(reading) \in Levels
BY Constants DEF Reading, Rest

-----------------------------------------------------------------------------
LEMMA PanelInitInv == PanelInit => PanelInv
<1> SUFFICES ASSUME PanelInit PROVE PanelInv
  OBVIOUS
<1>1. known \in Reading /\ reported \in Levels \cup {NoLevel} /\ Lowest \in Levels
  BY Constants DEF PanelInit, Reading
<1>2. knob \in [Viewers -> Levels] /\ view \in [Viewers -> Reading]
  BY <1>1, RestIsALevel DEF PanelInit
<1>3. PanelTypeOK
  BY <1>1, <1>2, Constants, NothingWaits DEF PanelInit, PanelTypeOK
<1>4. UnderWay = {} /\ Told = {}
  BY NothingWaits DEF PanelInit, UnderWay, Told
<1>5. OnePlace /\ TakenIsAccepted /\ OkIsActed
  BY <1>4, NothingWaits DEF PanelInit, OnePlace, TakenIsAccepted, OkIsActed
<1> QED
  BY <1>3, <1>5 DEF PanelInit, PanelInv, ToastsAreTrue, RefusedIsOver, QuietIsUnsaid, LateIsGivenUp

-----------------------------------------------------------------------------
(* What a step must keep to. *)
LEMMA KeepsFaith ==
  ASSUME PanelInv, PanelTypeOK', OnePlace',
         \A c \in UnderWay' : c \in UnderWay \/ stage'[c] \in {"accepted", "sent"},
         \A c \in Calls : /\ stage[c] \in {"accepted", "sent"} => stage'[c] \in {"accepted", "sent"}
                          /\ stage[c] = "over" => stage'[c] = "over",
         acted \subseteq acted', scene' = scene, givenUp' \subseteq late',
         \A a \in Told' : a.status = "OK" => a \in Told \/ a.call \in acted',
         \A c \in Calls : /\ toast'[c] = "done" => toast[c] = "done" \/ c \in acted'
                          /\ toast'[c] = "refused" => toast[c] = "refused" \/ stage'[c] = "over"
                          /\ toast'[c] # "none" => toast[c] # "none" \/ c \notin scene.quiet,
         \A p \in Viewers : \A c \in said'[p] : c \in said[p] \/ c \notin scene.quiet
  PROVE  PanelInv'
<1>1. UnderWay \subseteq Calls
  <2>1. \A a \in Told : a.call \in Calls
    BY DEF PanelInv, PanelTypeOK, Told, Outcome
  <2>2. Elements(jobsX) \subseteq Calls /\ Elements(commands) \subseteq Calls
    BY LenProperties, ElementOfSeq DEF PanelInv, PanelTypeOK, Elements
  <2> QED BY <2>1, <2>2 DEF PanelInv, PanelTypeOK, UnderWay
<1>2. TakenIsAccepted'
  <2> SUFFICES ASSUME NEW c \in UnderWay' PROVE stage'[c] \in {"accepted", "sent"}
    BY DEF TakenIsAccepted, Accepted
  <2>1. c \in UnderWay => stage[c] \in {"accepted", "sent"}
    BY DEF PanelInv, TakenIsAccepted, Accepted
  <2> QED BY <1>1, <2>1
<1>3. OkIsActed'
  BY DEF PanelInv, OkIsActed
<1>4. RefusedIsOver'
  BY DEF PanelInv, RefusedIsOver
<1>5. ToastsAreTrue'
  <2> SUFFICES ASSUME NEW c \in Calls
               PROVE  /\ toast'[c] = "done" => c \in acted'
                      /\ toast'[c] = "refused" => c \notin acted'
                      /\ toast'[c] # "none" => c \notin scene.quiet
    BY DEF ToastsAreTrue
  <2>1. toast'[c] = "done" => c \in acted'
    BY DEF PanelInv, ToastsAreTrue
  <2>2. toast'[c] # "none" => c \notin scene.quiet
    BY DEF PanelInv, ToastsAreTrue
  <2>3. toast'[c] = "refused" => c \notin acted'
    <3>1. toast'[c] = "refused" => stage'[c] = "over"
      BY <1>4 DEF RefusedIsOver
    <3>2. c \in acted' => stage'[c] \in {"accepted", "sent"}
      BY <1>2 DEF TakenIsAccepted, Accepted, UnderWay
    <3> QED BY <3>1, <3>2
  <2> QED BY <2>1, <2>2, <2>3
<1>6. QuietIsUnsaid'
  BY DEF PanelInv, QuietIsUnsaid
<1> QED BY <1>2, <1>3, <1>4, <1>5, <1>6 DEF PanelInv, LateIsGivenUp

(* A step that takes no call further and tells nobody. *)
LEMMA Aside ==
  ASSUME PanelInv, PanelTypeOK', UNCHANGED <<jobsX, asking, answers, acted, toast, said, givenUp, doing, scene>>,
         Elements(commands') \subseteq Elements(commands), replies' \subseteq replies,
         \A p \in Viewers : heard'[p] \subseteq heard[p], late \subseteq late',
         \A c \in Calls : /\ stage[c] \in {"accepted", "sent"} => stage'[c] \in {"accepted", "sent"}
                          /\ stage[c] = "over" => stage'[c] = "over"
  PROVE  PanelInv'
<1>1. OnePlace'
  BY DEF PanelInv, OnePlace
<1>2. Told' \subseteq Told
  BY DEF Told
<1>3. UnderWay' \subseteq UnderWay
  BY <1>2 DEF UnderWay
<1>4. givenUp' \subseteq late'
  BY DEF PanelInv, LateIsGivenUp
<1> QED BY <1>1, <1>2, <1>3, <1>4, KeepsFaith

(* The device's link, its clock, the board, and what the console and the     *)
(* pages see of it.                                                          *)
LEMMA LinkStep ==
  ASSUME PanelInv, Drop \/ Relink \/ Tick \/ Cool \/ HearOffer \/ PassDeadline
  PROVE  PanelInv'
<1>1. /\ UNCHANGED <<jobsX, asking, answers, acted, toast, said, givenUp, doing, scene, replies, heard, stage>>
      /\ UNCHANGED <<level, spoke, consoleX, view, knob, wants, unheard>>
  BY DEF Drop, Relink, Tick, Cool, HearOffer, PassDeadline, Fault, Sound, device, board, executorX, consoleX, pagesX, histX
<1>2. PanelTypeOK
  BY DEF PanelInv
<1>3. commands' \in Seq(Calls) /\ Elements(commands') \subseteq Elements(commands)
  BY <1>2, NothingWaits
     DEF PanelTypeOK, Drop, Relink, Tick, Cool, HearOffer, PassDeadline, device, board
<1>4. late' \subseteq Calls /\ late \subseteq late'
  BY <1>2 DEF PanelTypeOK, Drop, Relink, Tick, Cool, HearOffer, PassDeadline, histX
<1>5. {linked', announced', recent', available', offered', missed'} \subseteq BOOLEAN
  BY <1>2 DEF PanelTypeOK, Drop, Relink, Tick, Cool, HearOffer, PassDeadline, device, board, executorX, histX
<1>6. reported' \in Levels \cup {NoLevel} /\ faults' \in Nat
  BY <1>2 DEF PanelTypeOK, Drop, Relink, Tick, Cool, HearOffer, PassDeadline, Fault, Sound, board, Self
<1>7. PanelTypeOK'
  BY <1>1, <1>2, <1>3, <1>4, <1>5, <1>6 DEF PanelTypeOK, consoleX
<1> QED BY <1>1, <1>3, <1>4, <1>7, Aside

LEMMA SeenStep ==
  ASSUME PanelInv, HearBoard \/ (\E p \in Viewers : Show(p) \/ \E l \in Levels : Drag(p, l))
  PROVE  PanelInv'
<1>1. /\ UNCHANGED <<jobsX, asking, answers, acted, toast, said, givenUp, doing, scene, replies, heard, stage, commands, late>>
      /\ UNCHANGED <<linked, announced, level, spoke, recent, board, offered, expected, wants, unheard, missed, faults>>
  BY DEF HearBoard, Show, Drag, Sound, device, board, executorX, consoleX, pagesX, histX
<1>2. /\ PanelTypeOK /\ known \in Reading /\ view \in [Viewers -> Reading] /\ knob \in [Viewers -> Levels]
      /\ available \in BOOLEAN /\ reported \in Levels \cup {NoLevel}
  BY DEF PanelInv, PanelTypeOK
<1>3. known' \in Reading /\ view' \in [Viewers -> Reading] /\ knob' \in [Viewers -> Levels]
  <2>1. CASE HearBoard
    <3>1. [known EXCEPT !.online = available] \in Reading /\ [known EXCEPT !.level = reported] \in Reading
      BY <1>2 DEF Reading
    <3> QED BY <1>2, <2>1, <3>1 DEF HearBoard, pagesX
  <2>2. ASSUME NEW p \in Viewers, Show(p)
        PROVE  known' \in Reading /\ view' \in [Viewers -> Reading] /\ knob' \in [Viewers -> Levels]
    <3>1. Follow(p, known) \in Levels
      BY <1>2, RestIsALevel DEF Follow
    <3> QED BY <1>2, <2>2, <3>1 DEF Show, consoleX
  <2>3. ASSUME NEW p \in Viewers, NEW l \in Levels, Drag(p, l)
        PROVE  known' \in Reading /\ view' \in [Viewers -> Reading] /\ knob' \in [Viewers -> Levels]
    BY <1>2, <2>3 DEF Drag, consoleX
  <2> QED BY <2>1, <2>2, <2>3
<1>4. PanelTypeOK'
  BY <1>1, <1>2, <1>3 DEF PanelTypeOK, board
<1> QED BY <1>1, <1>4, Aside

(* A call is posted, or lost. *)
LEMMA PostStep ==
  ASSUME PanelInv, NEW c \in Calls, Release(c) \/ ReadQuietly(c) \/ LoseCall(c)
  PROVE  PanelInv'
<1>1. /\ UNCHANGED <<jobsX, asking, answers, acted, toast, said, givenUp, doing, scene, replies, heard, commands, late>>
      /\ UNCHANGED <<device, board, offered, known, expected, view, knob, unheard, missed>>
  BY DEF Release, ReadQuietly, LoseCall, Fault, Sound, device, board, executorX, consoleX, pagesX, histX
<1>2. /\ PanelTypeOK /\ stage \in [Calls -> {"idle", "posted", "accepted", "refused", "sent", "over"}]
      /\ wants \in [Calls -> Levels \cup {NoLevel}] /\ knob \in [Viewers -> Levels]
  BY DEF PanelInv, PanelTypeOK
<1>3. stage[c] \in {"idle", "posted"} /\ \E now \in {"posted", "refused"} : stage' = [stage EXCEPT ![c] = now]
  BY DEF Release, ReadQuietly, LoseCall, Idle
<1>4. stage' \in [Calls -> {"idle", "posted", "accepted", "refused", "sent", "over"}]
  BY <1>2, <1>3
<1>5. \A d \in Calls : /\ stage[d] \in {"accepted", "sent"} => stage'[d] \in {"accepted", "sent"}
                       /\ stage[d] = "over" => stage'[d] = "over"
  BY <1>2, <1>3
<1>6. wants' \in [Calls -> Levels \cup {NoLevel}]
  <2>1. Asker(c) \in Viewers
    BY <1>2, Constants DEF PanelTypeOK, Asker
  <2> QED BY <1>2, <2>1 DEF Release, ReadQuietly, LoseCall
<1>7. faults' \in Nat
  BY <1>2 DEF PanelTypeOK, Release, ReadQuietly, LoseCall, Fault, Sound
<1>8. PanelTypeOK'
  BY <1>1, <1>2, <1>4, <1>6, <1>7 DEF PanelTypeOK, device, board
<1> QED BY <1>1, <1>5, <1>8, Aside

LEMMA CutStep ==
  ASSUME PanelInv, NEW p \in Viewers, Cut(p)
  PROVE  PanelInv'
<1>1. /\ UNCHANGED <<jobsX, asking, answers, acted, toast, said, givenUp, doing, scene, replies, stage, commands, late>>
      /\ UNCHANGED <<device, board, offered, known, expected, view, knob, wants, missed>>
      /\ heard' = [heard EXCEPT ![p] = {}]
      /\ unheard' = unheard \cup {a.call : a \in {x \in heard[p] : Asker(x.call) = p}}
  BY DEF Cut, Fault, device, board, executorX, consoleX, pagesX, histX
<1>2. PanelTypeOK /\ heard \in [Viewers -> SUBSET Outcome]
  BY DEF PanelInv, PanelTypeOK
<1>3. heard' \in [Viewers -> SUBSET Outcome] /\ \A q \in Viewers : heard'[q] \subseteq heard[q]
  BY <1>1, <1>2
<1>4. unheard' \subseteq Calls
  BY <1>1, <1>2 DEF PanelTypeOK, Outcome
<1>5. faults' \in Nat
  BY <1>2 DEF PanelTypeOK, Cut, Fault
<1>6. PanelTypeOK'
  BY <1>1, <1>2, <1>3, <1>4, <1>5 DEF PanelTypeOK, device, board
<1> QED BY <1>1, <1>3, <1>6, Aside

-----------------------------------------------------------------------------
(* The device takes a command up, or refuses it. *)
LEMMA BeginStep ==
  ASSUME PanelInv, Begin
  PROVE  PanelInv'
<1>1. /\ UNCHANGED <<jobsX, asking, answers, acted, toast, said, givenUp, scene, heard, stage, late>>
      /\ UNCHANGED <<linked, announced, level, spoke, recent, board, offered, consoleX, view, knob, wants, faults, missed, unheard>>
  BY DEF Begin, Sound, consoleX, pagesX, histX
<1>2. PanelTypeOK /\ commands \in Seq(Calls) /\ commands # <<>>
  BY DEF PanelInv, PanelTypeOK, Begin
<1> DEFINE c == Head(commands)
<1>3. /\ c \in Calls /\ commands' \in Seq(Calls) /\ c \in Elements(commands)
      /\ Elements(commands') \subseteq Elements(commands)
  BY <1>2, Leaves DEF Begin
<1>4. /\ doing' = doing \/ doing' = c
      /\ replies' = replies \/ \E status \in {"EXPIRED", "UNAVAILABLE"} : replies' = replies \cup {[call |-> c, status |-> status]}
  BY DEF Begin, Reply
<1> HIDE DEF c
<1>5. replies' \subseteq Outcome /\ doing' \in Calls \cup {NoCall}
  BY <1>2, <1>3, <1>4 DEF PanelTypeOK, Outcome, Verdict
<1>6. PanelTypeOK'
  BY <1>1, <1>2, <1>3, <1>5 DEF PanelTypeOK, board, consoleX
<1>7. OnePlace'
  BY <1>1 DEF PanelInv, OnePlace
<1>8. \A a \in Told' : a \in Told \/ (a.call = c /\ a.status # "OK")
  BY <1>1, <1>4 DEF Told
<1>9. UnderWay' \subseteq UnderWay
  <2>1. \A a \in Told' : a.call \in UnderWay
    BY <1>3, <1>8 DEF UnderWay
  <2>2. doing' # NoCall => doing' \in UnderWay
    BY <1>3, <1>4 DEF UnderWay
  <2>3. Elements(jobsX') \cup Elements(commands') \cup ({asking'} \ {NoCall}) \cup acted' \subseteq UnderWay
    BY <1>1, <1>3 DEF UnderWay
  <2> QED BY <2>1, <2>2, <2>3 DEF UnderWay
<1>10. givenUp' \subseteq late'
  BY <1>1 DEF PanelInv, LateIsGivenUp
<1> QED BY <1>1, <1>6, <1>7, <1>8, <1>9, <1>10, KeepsFaith

LEMMA FinishStep ==
  ASSUME PanelInv, Finish
  PROVE  PanelInv'
<1>1. /\ UNCHANGED <<jobsX, asking, answers, toast, said, givenUp, scene, heard, stage, late>>
      /\ UNCHANGED <<linked, announced, commands, available, offered, consoleX, view, knob, wants, faults, missed, unheard>>
  BY DEF Finish, Sound, consoleX, pagesX
<1>2. PanelTypeOK /\ doing \in Calls /\ doing' = NoCall
  BY DEF PanelInv, PanelTypeOK, Finish
<1>3. \/ acted' = acted \cup {doing} /\ replies' = replies \cup {[call |-> doing, status |-> "OK"]}
      \/ acted' = acted /\ replies' = replies \cup {[call |-> doing, status |-> "FAILED"]}
  BY DEF Finish, Reply
<1>4. replies' \subseteq Outcome /\ acted' \subseteq Calls /\ acted \subseteq acted'
  BY <1>2, <1>3 DEF PanelTypeOK, Outcome, Verdict
<1>5. /\ level' \in Levels /\ spoke' \in BOOLEAN /\ recent' \in BOOLEAN /\ reported' \in Levels \cup {NoLevel}
  <2>1. wants[doing] \in Levels \cup {NoLevel} /\ level \in Levels /\ scene.limited \in BOOLEAN
    BY <1>2, Constants DEF PanelTypeOK
  <2>2. \/ /\ level' \in {level, wants[doing]} \ {NoLevel} /\ spoke' = TRUE /\ recent' = scene.limited
           /\ reported' \in {level', NoLevel}
        \/ UNCHANGED <<level, spoke, recent, reported>>
    BY <2>1, Constants DEF Finish, Report, Self
  <2> QED BY <1>2, <2>1, <2>2 DEF PanelTypeOK
<1>6. PanelTypeOK'
  BY <1>1, <1>2, <1>4, <1>5 DEF PanelTypeOK, consoleX
<1>7. OnePlace'
  BY <1>1 DEF PanelInv, OnePlace
<1>8. \A a \in Told' : a \in Told \/ (a.call = doing /\ (a.status = "OK" => a.call \in acted'))
  BY <1>1, <1>3 DEF Told
<1>9. UnderWay' \subseteq UnderWay
  <2>1. doing \in UnderWay
    BY <1>2, Constants DEF UnderWay
  <2>2. \A a \in Told' : a.call \in UnderWay
    BY <1>8, <2>1 DEF UnderWay
  <2>3. acted' \subseteq UnderWay
    BY <1>3, <2>1 DEF UnderWay
  <2>4. Elements(jobsX') \cup Elements(commands') \cup ({asking', doing'} \ {NoCall}) \subseteq UnderWay
    BY <1>1, <1>2 DEF UnderWay
  <2> QED BY <2>2, <2>3, <2>4 DEF UnderWay
<1>10. givenUp' \subseteq late'
  BY <1>1 DEF PanelInv, LateIsGivenUp
<1> QED BY <1>1, <1>4, <1>6, <1>7, <1>8, <1>9, <1>10, KeepsFaith

-----------------------------------------------------------------------------
(* The executor's worker takes a call, hears of it, or gives it up. *)
LEMMA TakeJobStep ==
  ASSUME PanelInv, TakeJob
  PROVE  PanelInv'
<1>1. /\ UNCHANGED <<acted, toast, said, givenUp, scene, heard, stage, late, doing, replies>>
      /\ UNCHANGED <<linked, announced, level, spoke, recent, board, offered, known, expected, view, knob, wants, faults, missed, unheard>>
  BY DEF TakeJob, Sound, pagesX, histX
<1>2. PanelTypeOK /\ OnePlace /\ commands \in Seq(Calls) /\ jobsX \in Seq(Calls) /\ jobsX # <<>> /\ asking = NoCall
  BY DEF PanelInv, PanelTypeOK, TakeJob
<1> DEFINE c == Head(jobsX)
<1>3. /\ c \in Calls /\ jobsX' \in Seq(Calls) /\ c \in Elements(jobsX) /\ c \notin Elements(jobsX')
      /\ Elements(jobsX') \subseteq Elements(jobsX) /\ Distinct(jobsX')
  BY <1>2, Leaves DEF TakeJob, OnePlace
<1>4. commands' \in Seq(Calls) /\ Elements(commands') \subseteq Elements(commands) \cup {c}
  <2>1. commands' = commands \/ commands' = Append(commands, c)
    BY DEF TakeJob
  <2> HIDE DEF c
  <2>2. Append(commands, c) \in Seq(Calls) /\ Elements(Append(commands, c)) = Elements(commands) \cup {c}
    BY <1>2, <1>3, Joins
  <2> QED BY <1>2, <2>1, <2>2
<1>5. \/ asking' = c /\ answers' = answers
      \/ asking' = NoCall /\ answers' = answers \cup {[call |-> c, status |-> "UNKNOWN_TOOL"]}
  BY <1>2 DEF TakeJob, Conclude
<1> HIDE DEF c
<1>6. /\ answers' \subseteq Outcome /\ asking' \in Calls \cup {NoCall}
      /\ \A a, b \in answers' : a.call = b.call => a = b
  <2>1. \A a \in answers : a.call # c
    BY <1>2, <1>3 DEF OnePlace
  <2> QED BY <1>2, <1>3, <1>5, <2>1 DEF PanelTypeOK, Outcome, Verdict
<1>7. PanelTypeOK'
  BY <1>1, <1>2, <1>3, <1>4, <1>6 DEF PanelTypeOK, board
<1>8. OnePlace'
  <2>1. NoCall \notin Elements(jobsX')
    BY <1>2, <1>3 DEF OnePlace
  <2>2. asking' \notin Elements(jobsX')
    BY <1>3, <1>5, <2>1
  <2>3. \A a \in answers' : a.call # asking' /\ a.call \notin Elements(jobsX')
    BY <1>2, <1>3, <1>5, Constants DEF OnePlace
  <2> QED BY <1>3, <2>2, <2>3 DEF OnePlace
<1>9. \A a \in Told' : a \in Told \/ (a.call = c /\ a.status # "OK")
  BY <1>1, <1>5 DEF Told
<1>10. UnderWay' \subseteq UnderWay
  <2>1. c \in UnderWay
    BY <1>3 DEF UnderWay
  <2>2. \A a \in Told' : a.call \in UnderWay
    BY <1>9, <2>1 DEF UnderWay
  <2>3. Elements(jobsX') \cup Elements(commands') \subseteq UnderWay
    BY <1>3, <1>4, <2>1 DEF UnderWay
  <2>4. ({asking', doing'} \ {NoCall}) \cup acted' \subseteq UnderWay
    BY <1>1, <1>5, <2>1 DEF UnderWay
  <2> QED BY <2>2, <2>3, <2>4 DEF UnderWay
<1>11. givenUp' \subseteq late'
  BY <1>1 DEF PanelInv, LateIsGivenUp
<1> QED BY <1>1, <1>7, <1>8, <1>9, <1>10, <1>11, KeepsFaith

(* The worker's wait ends, with the device's answer or without. *)
LEMMA Concludes ==
  ASSUME PanelInv, asking \in Calls, asking' = NoCall, replies' \subseteq replies, givenUp' \subseteq late,
         NEW status \in {"OK", "FAILED"}, status = "OK" => asking \in acted, Conclude(asking, status),
         UNCHANGED <<acted, toast, said, scene, heard, stage, late, doing, commands, jobsX>>,
         UNCHANGED <<linked, announced, level, spoke, recent, board, offered, known, expected, view, knob, wants, faults, missed, unheard>>
  PROVE  PanelInv'
<1> DEFINE new == [call |-> asking, status |-> status]
<1>1. answers' = answers \cup {new} /\ new \in Outcome
  BY DEF Conclude, Outcome, Verdict
<1>2. new.call = asking /\ new.status = status
  OBVIOUS
<1> HIDE DEF new
<1>3. PanelTypeOK /\ OnePlace
  BY DEF PanelInv
<1>4. answers' \subseteq Outcome /\ \A a, b \in answers' : a.call = b.call => a = b
  BY <1>1, <1>2, <1>3 DEF PanelTypeOK, OnePlace
<1>5. replies' \subseteq Outcome /\ givenUp' \subseteq Calls
  BY <1>3 DEF PanelTypeOK
<1>6. PanelTypeOK'
  BY <1>3, <1>4, <1>5 DEF PanelTypeOK, board
<1>7. OnePlace'
  <2>1. NoCall \notin Elements(jobsX)
    <3>1. Elements(jobsX) \subseteq Calls
      BY <1>3, LenProperties, ElementOfSeq DEF PanelTypeOK, Elements
    <3> QED BY <3>1, Constants
  <2>2. \A a \in answers' : a.call # NoCall /\ a.call \notin Elements(jobsX)
    BY <1>1, <1>2, <1>3, <1>4, Constants DEF OnePlace, Outcome
  <2> QED BY <1>3, <2>1, <2>2 DEF OnePlace
<1>8. \A a \in Told' : a \in Told \/ (a.call = asking /\ (a.status = "OK" => a.call \in acted))
  BY <1>1, <1>2 DEF Told
<1>9. UnderWay' \subseteq UnderWay
  <2>1. asking \in UnderWay
    BY Constants DEF UnderWay
  <2>2. \A a \in Told' : a.call \in UnderWay
    BY <1>8, <2>1 DEF UnderWay
  <2>3. Elements(jobsX') \cup Elements(commands') \cup ({asking', doing'} \ {NoCall}) \cup acted' \subseteq UnderWay
    BY DEF UnderWay
  <2> QED BY <2>2, <2>3 DEF UnderWay
<1> QED BY <1>6, <1>7, <1>8, <1>9, KeepsFaith

LEMMA HearReplyStep ==
  ASSUME PanelInv, NEW reply \in replies, HearReply(reply)
  PROVE  PanelInv'
<1>1. PanelTypeOK /\ OkIsActed /\ reply \in Outcome
  BY DEF PanelInv, PanelTypeOK
<1>2. /\ UNCHANGED <<acted, toast, said, givenUp, scene, heard, stage, late, doing, commands, jobsX>>
      /\ UNCHANGED <<linked, announced, level, spoke, recent, board, offered, known, expected, view, knob, wants, faults, missed, unheard>>
      /\ replies' \subseteq replies
  BY DEF HearReply, Sound, device, pagesX, histX
<1>3. givenUp' \subseteq late
  BY <1>2 DEF PanelInv, LateIsGivenUp
<1>4. CASE Awaited(reply)
  <2>1. asking \in Calls /\ asking' = NoCall
    BY <1>1, <1>4 DEF HearReply, Awaited, Outcome
  <2>2. PICK status \in {"OK", "FAILED"} : (status = "OK" => reply.status = "OK") /\ Conclude(asking, status)
    BY <1>4 DEF HearReply
  <2>3. status = "OK" => asking \in acted
    BY <1>1, <1>4, <2>2 DEF OkIsActed, Told, Awaited
  <2> QED BY <1>2, <1>3, <2>1, <2>2, <2>3, Concludes
<1>5. CASE ~Awaited(reply)
  <2>1. UNCHANGED <<answers, asking>>
    BY <1>5 DEF HearReply
  <2>2. replies' \subseteq Outcome
    BY <1>1, <1>2 DEF PanelTypeOK
  <2>3. PanelTypeOK'
    BY <1>1, <1>2, <2>1, <2>2 DEF PanelTypeOK, board
  <2> QED BY <1>2, <2>1, <2>3, Aside
<1> QED BY <1>4, <1>5

LEMMA GiveUpStep ==
  ASSUME PanelInv, GiveUpX
  PROVE  PanelInv'
<1>1. PanelTypeOK /\ LateIsGivenUp
  BY DEF PanelInv
<1>2. /\ UNCHANGED <<acted, toast, said, scene, heard, stage, late, doing, commands, jobsX, replies>>
      /\ UNCHANGED <<linked, announced, level, spoke, recent, board, offered, known, expected, view, knob, wants, faults, missed, unheard>>
  BY DEF GiveUpX, Sound, device, pagesX
<1>3. asking \in Calls /\ asking' = NoCall /\ Conclude(asking, "FAILED") /\ givenUp' \subseteq late
  BY <1>1 DEF PanelTypeOK, LateIsGivenUp, GiveUpX
<1> QED BY <1>2, <1>3, Concludes

-----------------------------------------------------------------------------
(* The console takes a call nobody has under way, or sends it back. *)
LEMMA AcceptStep ==
  ASSUME PanelInv, NEW c \in Calls, AcceptCall(c)
  PROVE  PanelInv'
<1>1. /\ UNCHANGED <<asking, answers, acted, toast, said, givenUp, doing, scene, replies, heard, commands, late>>
      /\ UNCHANGED <<device, board, offered, known, view, knob, wants, unheard, missed, faults>>
  BY DEF AcceptCall, Sound, device, histX
<1>2. /\ PanelTypeOK /\ OnePlace /\ stage \in [Calls -> {"idle", "posted", "accepted", "refused", "sent", "over"}]
      /\ stage[c] = "posted"
  BY DEF PanelInv, PanelTypeOK, AcceptCall
<1>3. c \notin UnderWay
  BY <1>2 DEF PanelInv, TakenIsAccepted, Accepted
<1>4. /\ expected' \subseteq Calls
      /\ \/ stage' = [stage EXCEPT ![c] = "accepted"] /\ jobsX' = Append(jobsX, c)
         \/ stage' = [stage EXCEPT ![c] = "refused"] /\ jobsX' = jobsX
  BY <1>2 DEF AcceptCall, PanelTypeOK
<1>5. jobsX \in Seq(Calls) /\ c \notin Elements(jobsX)
  BY <1>2, <1>3 DEF PanelTypeOK, UnderWay
<1>6. /\ jobsX' \in Seq(Calls) /\ Distinct(jobsX')
      /\ \/ Elements(jobsX') = Elements(jobsX)
         \/ Elements(jobsX') = Elements(jobsX) \cup {c} /\ stage'[c] = "accepted"
  <2>1. /\ Append(jobsX, c) \in Seq(Calls) /\ Elements(Append(jobsX, c)) = Elements(jobsX) \cup {c}
        /\ Distinct(Append(jobsX, c))
    BY <1>2, <1>5, Joins DEF OnePlace
  <2> QED BY <1>2, <1>4, <1>5, <2>1 DEF OnePlace
<1>7. stage' \in [Calls -> {"idle", "posted", "accepted", "refused", "sent", "over"}]
  BY <1>2, <1>4
<1>8. \A d \in Calls : /\ stage[d] \in {"accepted", "sent"} => stage'[d] \in {"accepted", "sent"}
                       /\ stage[d] = "over" => stage'[d] = "over"
  BY <1>2, <1>4
<1>9. PanelTypeOK'
  BY <1>1, <1>2, <1>4, <1>6, <1>7 DEF PanelTypeOK, device, board
<1>10. OnePlace'
  <2>1. asking # c /\ \A a \in answers : a.call # c
    BY <1>3, Constants DEF UnderWay, Told
  <2> QED BY <1>1, <1>2, <1>6, <2>1 DEF OnePlace
<1>11. Told' = Told
  BY <1>1 DEF Told
<1>12. \A d \in UnderWay' : d \in UnderWay \/ stage'[d] \in {"accepted", "sent"}
  BY <1>1, <1>6, <1>11 DEF UnderWay, device
<1>13. givenUp' \subseteq late'
  BY <1>1 DEF PanelInv, LateIsGivenUp
<1> QED BY <1>1, <1>8, <1>9, <1>10, <1>11, <1>12, <1>13, KeepsFaith

(* An answer passes from the console to the open pages. *)
LEMMA FoldStep ==
  ASSUME PanelInv, NEW a \in answers, FoldAnswer(a)
  PROVE  PanelInv'
<1>1. /\ UNCHANGED <<asking, acted, toast, said, givenUp, doing, scene, replies, commands, late, jobsX, stage>>
      /\ UNCHANGED <<device, board, offered, known, view, knob, wants, unheard, missed, faults>>
      /\ answers' \subseteq answers /\ expected' \subseteq expected
  BY DEF FoldAnswer, Sound, device, executorX, histX
<1>2. PanelTypeOK /\ OnePlace /\ a \in Outcome /\ heard \in [Viewers -> SUBSET Outcome]
  BY DEF PanelInv, PanelTypeOK
<1>3. heard' \in [Viewers -> SUBSET Outcome] /\ \A p \in Viewers : heard'[p] \subseteq heard[p] \cup {a}
  BY <1>2 DEF FoldAnswer
<1>4. PanelTypeOK'
  BY <1>1, <1>2, <1>3 DEF PanelTypeOK, device, board
<1>5. OnePlace'
  BY <1>1, <1>2 DEF OnePlace
<1>6. Told' \subseteq Told
  BY <1>1, <1>3 DEF Told
<1>7. UnderWay' \subseteq UnderWay
  BY <1>1, <1>6 DEF UnderWay, device
<1>8. givenUp' \subseteq late'
  BY <1>1 DEF PanelInv, LateIsGivenUp
<1> QED BY <1>1, <1>4, <1>5, <1>6, <1>7, <1>8, KeepsFaith

-----------------------------------------------------------------------------
(* A page hears that its call was taken or sent back, and what became of it. *)
LEMMA ResponseStep ==
  ASSUME PanelInv, NEW c \in Calls, OnAccepted(c) \/ OnRefused(c)
  PROVE  PanelInv'
<1>1. /\ UNCHANGED <<asking, answers, acted, givenUp, doing, scene, replies, heard, commands, late, jobsX>>
      /\ UNCHANGED <<device, board, offered, known, expected, view, knob, wants, unheard, missed, faults>>
  BY DEF OnAccepted, OnRefused, Sound, device, executorX, consoleX, histX
<1>2. /\ PanelTypeOK /\ OnePlace /\ stage \in [Calls -> {"idle", "posted", "accepted", "refused", "sent", "over"}]
      /\ said \in [Viewers -> SUBSET Calls] /\ toast \in [Calls -> {"none", "done", "failed", "refused"}]
  BY DEF PanelInv, PanelTypeOK
<1>3. \/ stage[c] = "accepted" /\ stage' = [stage EXCEPT ![c] = "sent"]
      \/ stage[c] = "refused" /\ stage' = [stage EXCEPT ![c] = "over"]
  BY DEF OnAccepted, OnRefused
<1>4. stage' \in [Calls -> {"idle", "posted", "accepted", "refused", "sent", "over"}]
  BY <1>2, <1>3
<1>5. \A d \in Calls : /\ stage[d] \in {"accepted", "sent"} => stage'[d] \in {"accepted", "sent"}
                       /\ stage[d] = "over" => stage'[d] = "over"
  BY <1>2, <1>3
<1>6. /\ said' \in [Viewers -> SUBSET Calls]
      /\ \A p \in Viewers : \A d \in said'[p] : d \in said[p] \/ d \notin scene.quiet
  BY <1>2 DEF OnAccepted, OnRefused
<1>7. /\ toast' \in [Calls -> {"none", "done", "failed", "refused"}]
      /\ \A d \in Calls : toast'[d] # toast[d] => toast'[d] = "refused" /\ stage'[d] = "over" /\ d \notin scene.quiet
  <2>1. CASE OnAccepted(c)
    BY <1>2, <2>1 DEF OnAccepted
  <2>2. CASE OnRefused(c)
    BY <1>2, <2>2 DEF OnRefused
  <2> QED BY <2>1, <2>2
<1>8. PanelTypeOK'
  BY <1>1, <1>2, <1>4, <1>6, <1>7 DEF PanelTypeOK, device, board
<1>9. OnePlace' /\ Told' = Told /\ UnderWay' = UnderWay
  BY <1>1, <1>2 DEF OnePlace, Told, UnderWay, device
<1>10. givenUp' \subseteq late'
  BY <1>1 DEF PanelInv, LateIsGivenUp
<1>11. \A d \in Calls : /\ toast'[d] = "done" => toast[d] = "done" \/ d \in acted'
                        /\ toast'[d] = "refused" => toast[d] = "refused" \/ stage'[d] = "over"
                        /\ toast'[d] # "none" => toast[d] # "none" \/ d \notin scene.quiet
  BY <1>7
<1> QED BY <1>1, <1>5, <1>6, <1>8, <1>9, <1>10, <1>11, KeepsFaith

LEMMA ResultStep ==
  ASSUME PanelInv, NEW p \in Viewers, NEW a \in heard[p], OnResult(p, a)
  PROVE  PanelInv'
<1>1. /\ UNCHANGED <<asking, answers, acted, givenUp, doing, scene, replies, stage, commands, late, jobsX>>
      /\ UNCHANGED <<device, board, offered, known, expected, view, knob, wants, missed, faults>>
  BY DEF OnResult, Sound, device, executorX, consoleX
<1>2. /\ PanelTypeOK /\ OnePlace /\ heard \in [Viewers -> SUBSET Outcome] /\ a \in Outcome
      /\ said \in [Viewers -> SUBSET Calls] /\ toast \in [Calls -> {"none", "done", "failed", "refused"}]
  BY DEF PanelInv, PanelTypeOK
<1>3. a.call \in Calls /\ (a.status = "OK" => a.call \in acted) /\ said[p] \cap scene.quiet = {}
  BY <1>2 DEF PanelInv, OkIsActed, Told, QuietIsUnsaid, Outcome
<1>4. heard' \in [Viewers -> SUBSET Outcome] /\ \A q \in Viewers : heard'[q] \subseteq heard[q]
  BY <1>2 DEF OnResult
<1>5. said' \in [Viewers -> SUBSET Calls] /\ \A q \in Viewers : said'[q] \subseteq said[q]
  BY <1>2 DEF OnResult
<1>6. unheard' \subseteq Calls
  BY <1>2, <1>3 DEF PanelTypeOK, OnResult
<1>7. \/ toast' = toast
      \/ /\ a.call \in said[p]
         /\ toast' = [toast EXCEPT ![a.call] = IF a.status = "OK" THEN "done" ELSE "failed"]
  BY DEF OnResult
<1>8. /\ toast' \in [Calls -> {"none", "done", "failed", "refused"}]
      /\ \A d \in Calls : /\ toast'[d] = "done" => toast[d] = "done" \/ d \in acted'
                          /\ toast'[d] = "refused" => toast[d] = "refused"
                          /\ toast'[d] # "none" => toast[d] # "none" \/ d \notin scene.quiet
  BY <1>1, <1>2, <1>3, <1>7
<1>9. PanelTypeOK'
  BY <1>1, <1>2, <1>4, <1>5, <1>6, <1>8 DEF PanelTypeOK, device, board
<1>10. OnePlace' /\ Told' \subseteq Told
  BY <1>1, <1>2, <1>4 DEF OnePlace, Told
<1>11. UnderWay' \subseteq UnderWay
  BY <1>1, <1>10 DEF UnderWay, device
<1>12. givenUp' \subseteq late'
  BY <1>1 DEF PanelInv, LateIsGivenUp
<1> QED BY <1>1, <1>5, <1>8, <1>9, <1>10, <1>11, <1>12, KeepsFaith

-----------------------------------------------------------------------------
LEMMA PanelInvStep == PanelInv /\ [PanelNext]_panelVars => PanelInv'
<1> SUFFICES ASSUME PanelInv, [PanelNext]_panelVars PROVE PanelInv'
  OBVIOUS
<1>1. CASE Drop \/ Cool \/ PassDeadline \/ Relink \/ Tick \/ HearOffer
  BY <1>1, LinkStep
<1>2. CASE Begin
  BY <1>2, BeginStep
<1>3. CASE Finish
  BY <1>3, FinishStep
<1>4. CASE TakeJob
  BY <1>4, TakeJobStep
<1>5. CASE \E reply \in replies : HearReply(reply)
  BY <1>5, HearReplyStep
<1>6. CASE GiveUpX
  BY <1>6, GiveUpStep
<1>7. CASE HearBoard \/ \E p \in Viewers : Show(p) \/ \E l \in Levels : Drag(p, l)
  BY <1>7, SeenStep
<1>8. CASE \E a \in answers : FoldAnswer(a)
  BY <1>8, FoldStep
<1>9. CASE \E c \in Calls : Release(c) \/ ReadQuietly(c) \/ LoseCall(c)
  BY <1>9, PostStep
<1>10. CASE \E c \in Calls : AcceptCall(c)
  BY <1>10, AcceptStep
<1>11. CASE \E c \in Calls : OnAccepted(c) \/ OnRefused(c)
  BY <1>11, ResponseStep
<1>12. CASE \E p \in Viewers : \E a \in heard[p] : OnResult(p, a)
  BY <1>12, ResultStep
<1>13. CASE \E p \in Viewers : Cut(p)
  BY <1>13, CutStep
<1>14. CASE UNCHANGED panelVars
  <2>1. /\ UNCHANGED <<jobsX, asking, answers, acted, toast, said, givenUp, doing, scene, replies, heard, commands, late, stage>>
        /\ UNCHANGED <<device, board, offered, known, expected, view, knob, wants, unheard, missed, faults>>
    BY <1>14 DEF panelVars, executorX, consoleX, pagesX, histX, device
  <2>2. PanelTypeOK'
    BY <2>1 DEF PanelInv, PanelTypeOK, device, board
  <2> QED BY <2>1, <2>2, Aside
<1> QED
  BY <1>1, <1>2, <1>3, <1>4, <1>5, <1>6, <1>7, <1>8, <1>9, <1>10, <1>11, <1>12, <1>13, <1>14
     DEF PanelNext, DeviceStep, ExecutorStep, ConsoleStep, PageStep, ServeCall

(* Only a command still valid is begun, and one given up is not. *)
LEMMA BegunInTime == PanelInv /\ [PanelNext]_panelVars => doing' = doing \/ doing' \notin givenUp
<1> SUFFICES ASSUME PanelInv, [PanelNext]_panelVars, doing' # doing PROVE doing' \notin givenUp
  OBVIOUS
<1>1. Begin \/ Finish
  BY DEF PanelNext, DeviceStep, ExecutorStep, ConsoleStep, PageStep, ServeCall, Drop, Cool, PassDeadline, Relink, Tick,
         HearOffer, TakeJob, HearReply, GiveUpX, HearBoard, Show, Drag, FoldAnswer, Release, ReadQuietly, LoseCall,
         AcceptCall, OnAccepted, OnRefused, OnResult, Cut, panelVars, device
<1>2. CASE Begin
  <2>1. doing' = Head(commands) /\ Head(commands) \notin late
    BY <1>2 DEF Begin, Expired
  <2> QED BY <2>1 DEF PanelInv, LateIsGivenUp
<1>3. CASE Finish
  BY <1>3, Constants DEF Finish, PanelInv, PanelTypeOK
<1> QED BY <1>1, <1>2, <1>3

(* A toast says what became of the call it is about, and the device begins   *)
(* nothing the occupant was told it did not answer (devices/service.py,      *)
(* assistance/devices.py), however its link, the deadline and the pages'     *)
(* sockets fall.                                                             *)
THEOREM CallKept == PanelSpec => CallIsHonest
<1>1. PanelInv => PanelTypeOK /\ ToastsAreTrue
  BY DEF PanelInv
<1>2. PanelInv /\ [PanelNext]_panelVars => [doing' = doing \/ doing' \notin givenUp]_panelVars
  BY BegunInTime
<1> QED BY <1>1, <1>2, PanelInitInv, PanelInvStep, PTL DEF PanelSpec, CallIsHonest, NothingStartsLate

-----------------------------------------------------------------------------
(* The room. *)

LEMMA Bounds == /\ Top \in Nat \ {0} /\ Step \in Nat \ {0} /\ Stride \in Nat \ {0} /\ OffAt \in Target /\ Default \in Target
                /\ Top \in Dialled /\ 0 \in Dialled /\ Presets \subseteq Target /\ NoTarget \notin Int /\ Presses \in Nat /\ Moves \in Nat
<1>1. Top \in Nat \ {0} /\ Step \in Nat \ {0} /\ Stride \in Nat \ {0} /\ Top % Step = 0 /\ OffAt \in Nat /\ Default \in Nat
  BY RoomControlsAssumption DEF RoomControlsAssumption
<1>2. OffAt \in Target /\ Default \in Target /\ Top \in Target /\ 0 \in Target
  BY <1>1, RoomControlsAssumption DEF RoomControlsAssumption, Target
<1>3. 0 % Step = 0
  BY <1>1
<1> QED BY <1>1, <1>2, <1>3, RoomControlsAssumption DEF RoomControlsAssumption, Target, Dialled

LEMMA Multiple == ASSUME NEW k \in Int, NEW s \in Nat \ {0} PROVE (k * s) % s = 0
  OBVIOUS

(* The least-number principle. *)
LEMMA LeastOne ==
  ASSUME NEW I, I \subseteq Nat, I # {}
  PROVE  Min(I) \in I
<1> DEFINE less == OpToRel(<, Nat)
<1>1. \E i \in I : \A j \in I : <<j, i>> \notin less
  BY NatLessThanWellFounded, WFMin
<1>2. \A i, j \in Nat : j < i => <<j, i>> \in less
  BY DEF OpToRel
<1> HIDE DEF less
<1>3. PICK i \in I : \A j \in I : <<j, i>> \notin less
  BY <1>1
<1>4. i \in Nat /\ \A j \in I : j \in Nat /\ ~(j < i)
  BY <1>2, <1>3
<1>5. \A j \in I : i <= j
  BY <1>4
<1> QED BY <1>5 DEF Min

(* The first of the same words is forgotten, and no more. *)
LEMMA Removed ==
  ASSUME NEW S, NEW q \in Seq(S), NEW w, \E i \in DOMAIN q : q[i] = w
  PROVE  RemoveFirst(q, w) \in Seq(S) /\ Len(RemoveFirst(q, w)) = Len(q) - 1
<1> DEFINE I == {i \in 1..Len(q) : q[i] = w}
           at == SelectInSeq(q, LAMBDA v : v = w)
<1>1. I # {} /\ I \subseteq Nat
  BY LenProperties
<1>2. at = Min(I)
  BY <1>1 DEF SelectInSeq
<1>3. at \in 1..Len(q)
  BY <1>1, <1>2, LeastOne
<1>4. RemoveFirst(q, w) = RemoveAt(q, at)
  BY <1>1 DEF RemoveFirst
<1> HIDE DEF at
<1>5. RemoveFirst(q, w) = SubSeq(q, 1, at - 1) \o SubSeq(q, at + 1, Len(q))
  BY <1>4 DEF RemoveAt
<1>6. Len(q) \in Nat /\ (\A i \in 1..Len(q) : q[i] \in S)
  BY LenProperties
<1>7. SubSeq(q, 1, at - 1) \in Seq(S) /\ Len(SubSeq(q, 1, at - 1)) = at - 1
  <2>1. 1 \in Int /\ at - 1 \in Int /\ \A i \in 1..(at - 1) : q[i] \in S
    BY <1>3, <1>6
  <2>2. Len(SubSeq(q, 1, at - 1)) = IF 1 <= at - 1 THEN at - 1 - 1 + 1 ELSE 0
    BY <2>1, SubSeqProperties
  <2> QED BY <1>3, <2>1, <2>2, SubSeqProperties
<1>8. SubSeq(q, at + 1, Len(q)) \in Seq(S) /\ Len(SubSeq(q, at + 1, Len(q))) = Len(q) - at
  <2>1. at + 1 \in Int /\ Len(q) \in Int /\ \A i \in (at + 1)..Len(q) : q[i] \in S
    BY <1>3, <1>6
  <2>2. Len(SubSeq(q, at + 1, Len(q))) = IF at + 1 <= Len(q) THEN Len(q) - (at + 1) + 1 ELSE 0
    BY <2>1, SubSeqProperties
  <2> QED BY <1>3, <2>1, <2>2, SubSeqProperties
<1>9. /\ RemoveFirst(q, w) \in Seq(S)
      /\ Len(RemoveFirst(q, w)) = Len(SubSeq(q, 1, at - 1)) + Len(SubSeq(q, at + 1, Len(q)))
  BY <1>5, <1>7, <1>8, ConcatProperties
<1>10. (at - 1) + (Len(q) - at) = Len(q) - 1
  BY <1>3, <1>6
<1> QED BY <1>7, <1>8, <1>9, <1>10

-----------------------------------------------------------------------------
(* A pending timer is that of a dial that was used. *)
TimedByAPress == timer # NoTarget => pressed > 0

RoomInv == RoomTypeOK /\ EachIsShownOnce /\ TimedByAPress

LEMMA WithinTarget == \A t \in Int : Within(t) \in Target
BY Bounds DEF Within, Least, Most, Target

LEMMA DialledTarget == \A t \in Int : DialledAt(t) \in Dialled
<1> SUFFICES ASSUME NEW t \in Int PROVE DialledAt(t) \in Dialled
  OBVIOUS
<1> DEFINE k == (2 * t + Step) \div (2 * Step)
<1>1. k \in Int
  BY Bounds
<1> HIDE DEF k
<1>2. k * Step \in Int /\ (k * Step) % Step = 0
  BY <1>1, Bounds, Multiple
<1>3. Within(k * Step) \in {0, Top, k * Step} /\ Within(k * Step) \in Target
  BY <1>2, Bounds, WithinTarget DEF Within, Least, Most
<1>4. Within(k * Step) \in Dialled
  BY <1>2, <1>3, Bounds DEF Dialled
<1> QED BY <1>4 DEF DialledAt, k

LEMMA TowardTarget == \A t, from \in Target : Toward(t, from) \in Target
BY Bounds DEF Toward, Least, Most, Target

LEMMA Wishes ==
  /\ \A t \in Target : SetTo(t) \in Wish
  /\ \A kind \in {"warmer", "cooler", "automatic", "off"} : Plain(kind) \in Wish
BY DEF Wish

LEMMA MeantTarget ==
  ASSUME NEW w \in Wish, goal.at \in Target
  PROVE  Meant(w) \in Target /\ Granted(w) \in Target
<1>1. Meant(w) \in Target
  <2>1. CASE \E t \in Target : w = SetTo(t)
    BY <2>1 DEF SetTo, Meant
  <2>2. ASSUME NEW kind \in {"warmer", "cooler", "automatic", "off"}, w = Plain(kind) PROVE Meant(w) \in Target
    <3>1. w.kind = kind
      BY <2>2 DEF Plain
    <3>2. goal.at + Step \in Int /\ goal.at - Step \in Int
      BY Bounds DEF Target
    <3> QED BY <3>1, <3>2, Bounds, WithinTarget DEF Meant
  <2> QED BY <2>1, <2>2 DEF Wish
<1> QED BY <1>1, TowardTarget DEF Granted

-----------------------------------------------------------------------------
LEMMA RoomInitInv == RoomInit => RoomInv
<1> SUFFICES ASSUME RoomInit PROVE RoomInv
  OBVIOUS
<1>1. goal.ts = 0 /\ goal.at \in Target /\ goal \in [ts : Nat, at : Target, yours : BOOLEAN]
      /\ goal \in [ts : 0..0, at : Target, yours : BOOLEAN]
  BY Bounds DEF RoomInit
<1>2. <<>> \in Seq(Wish) /\ Len(<<>>) = 0 /\ Plain("automatic") \in Wish
  BY Wishes
<1>3. turns \in [typed : Nat, spoken : Nat] /\ made \in [here : Nat, aloud : Nat]
  BY DEF RoomInit
<1>4. RoomTypeOK
  BY <1>1, <1>2, <1>3, Bounds DEF RoomInit, RoomTypeOK
<1>5. EachIsShownOnce
  BY <1>2 DEF RoomInit, EachIsShownOnce
<1> QED BY <1>4, <1>5 DEF RoomInv, TimedByAPress, RoomInit

(* Requests in flight, whatever is pressed meanwhile. *)
LEMMA AsksGrow ==
  ASSUME RoomTypeOK, pressed' \in 0..Presses, pressed <= pressed'
  PROVE  asks \subseteq [n : 1..pressed', wish : Wish]
<1>1. 1..pressed \subseteq 1..pressed'
  BY DEF RoomTypeOK
<1> QED BY <1>1 DEF RoomTypeOK

LEMMA Budget ==
  /\ RoomTypeOK /\ Press => pressed' \in 1..Presses /\ pressed' \in 0..Presses /\ pressed <= pressed' /\ moved' \in 0..Moves
  /\ RoomTypeOK /\ Move => moved' \in 0..Moves /\ pressed' = pressed
<1>1. RoomTypeOK => pressed \in 0..Presses /\ moved \in 0..Moves /\ Presses \in Nat /\ Moves \in Nat
  BY Bounds DEF RoomTypeOK
<1> QED BY <1>1 DEF Press, Move

(* A step that publishes nothing and hears nothing counts nothing. *)
counted == <<setHere, echoes, turns, made>>
LEMMA SameCount == RoomInv /\ UNCHANGED counted => EachIsShownOnce'
BY DEF RoomInv, counted, EachIsShownOnce

(* The numbers of the count. *)
LEMMA Numbers ==
  ASSUME RoomInv
  PROVE  /\ turns.typed \in Nat /\ turns.spoken \in Nat /\ made.here \in Nat /\ made.aloud \in Nat
         /\ Len(setHere) \in Nat /\ Len(echoes) \in Nat
         /\ turns.typed + Len(setHere) = made.here
         /\ turns.typed + turns.spoken + Len(echoes) = made.here + made.aloud
BY LenProperties DEF RoomInv, RoomTypeOK, EachIsShownOnce

LEMMA DialStep ==
  ASSUME RoomInv, NEW t \in Int, Dial(t)
  PROVE  RoomInv'
<1>1. /\ Press /\ draft' = DialledAt(t) /\ timer' = DialledAt(t) /\ wish' = SetTo(DialledAt(t))
      /\ crossed' = (crossed \/ asks # {})
      /\ UNCHANGED <<control, consoleR, seenGoal, asks, denied, strayed, made>>
  BY DEF Dial, Timed
<1>2. RoomTypeOK /\ crossed \in BOOLEAN
  BY DEF RoomInv, RoomTypeOK
<1>3. DialledAt(t) \in Dialled /\ SetTo(DialledAt(t)) \in Wish
  BY DialledTarget, Wishes DEF Dialled
<1>4. /\ pressed' \in 1..Presses /\ pressed' \in 0..Presses /\ moved' \in 0..Moves
      /\ asks' \subseteq [n : 1..pressed', wish : Wish]
  BY <1>1, <1>2, Budget, AsksGrow
<1>5. RoomTypeOK'
  BY <1>1, <1>2, <1>3, <1>4 DEF RoomTypeOK, control, consoleR
<1>6. EachIsShownOnce'
  BY <1>1, SameCount DEF counted, consoleR
<1>7. TimedByAPress'
  BY <1>4 DEF TimedByAPress
<1> QED BY <1>5, <1>6, <1>7 DEF RoomInv

LEMMA AskStep ==
  ASSUME RoomInv, NEW w \in Wish, AskNow(w)
  PROVE  RoomInv'
<1>1. /\ Press /\ asks' = asks \cup {[n |-> pressed', wish |-> w]} /\ wish' = w
      /\ crossed' = (crossed \/ asks # {} \/ timer # NoTarget)
      /\ UNCHANGED <<control, consoleR, seenGoal, draft, timer, denied, strayed, made>>
  BY DEF AskNow
<1>2. RoomTypeOK /\ crossed \in BOOLEAN
  BY DEF RoomInv, RoomTypeOK
<1>3. /\ pressed' \in 1..Presses /\ pressed' \in 0..Presses /\ moved' \in 0..Moves
      /\ asks \subseteq [n : 1..pressed', wish : Wish]
  BY <1>1, <1>2, Budget, AsksGrow
<1>4. [n |-> pressed', wish |-> w] \in [n : 1..pressed', wish : Wish]
  BY <1>3
<1>5. RoomTypeOK'
  BY <1>1, <1>2, <1>3, <1>4 DEF RoomTypeOK, control, consoleR
<1>6. EachIsShownOnce'
  BY <1>1, SameCount DEF counted, consoleR
<1>7. TimedByAPress'
  BY <1>3 DEF TimedByAPress
<1> QED BY <1>5, <1>6, <1>7 DEF RoomInv

LEMMA FireStep ==
  ASSUME RoomInv, Fire
  PROVE  RoomInv'
<1>1. /\ timer # NoTarget /\ timer' = NoTarget
      /\ asks' = asks \cup {[n |-> pressed, wish |-> SetTo(timer)]}
      /\ UNCHANGED <<control, consoleR, seenGoal, draft, boundR, histR>>
  BY DEF Fire
<1>2. pressed \in 1..pressed /\ SetTo(timer) \in Wish
  <2>1. pressed > 0 /\ pressed \in Nat /\ timer \in Target
    BY <1>1 DEF RoomInv, TimedByAPress, RoomTypeOK, Dialled
  <2> QED BY <2>1, Wishes
<1>3. RoomTypeOK'
  BY <1>1, <1>2 DEF RoomInv, RoomTypeOK, control, consoleR, boundR, histR
<1>4. EachIsShownOnce'
  BY <1>1, SameCount DEF counted, consoleR, histR
<1> QED BY <1>1, <1>3, <1>4 DEF RoomInv, TimedByAPress

(* The rest of what a page does, and what the room does: nothing is counted. *)
LEMMA QuietStep ==
  ASSUME RoomInv, SeeGoal \/ LeaveRoom \/ \E a \in asks : LoseAsk(a)
  PROVE  RoomInv'
<1>1. RoomTypeOK /\ NoTarget \in Dialled \cup {NoTarget} /\ TimedByAPress
  BY DEF RoomInv
<1>2. CASE SeeGoal
  <2>1. /\ seenGoal' = goal /\ draft' \in {NoTarget, draft}
        /\ UNCHANGED <<control, consoleR, timer, asks, boundR, histR>>
    BY <1>2 DEF SeeGoal
  <2>2. goal \in [ts : 0..goal.ts, at : Target, yours : BOOLEAN]
    BY <1>1 DEF RoomTypeOK
  <2>3. RoomTypeOK' /\ TimedByAPress'
    BY <1>1, <2>1, <2>2 DEF RoomTypeOK, TimedByAPress, control, consoleR, boundR, histR
  <2> QED BY <2>1, <2>3, SameCount DEF counted, consoleR, histR, RoomInv
<1>3. CASE LeaveRoom
  <2>1. /\ Move /\ draft' = NoTarget /\ timer' = NoTarget /\ strayed' = (strayed \/ timer # NoTarget)
        /\ UNCHANGED <<control, consoleR, seenGoal, asks, wish, crossed, denied, made>>
    BY <1>3 DEF LeaveRoom
  <2>2. moved' \in 0..Moves /\ pressed' = pressed
    BY <1>1, <2>1, Budget
  <2>3. RoomTypeOK' /\ TimedByAPress'
    BY <1>1, <2>1, <2>2 DEF RoomTypeOK, TimedByAPress, control, consoleR
  <2> QED BY <2>1, <2>3, SameCount DEF counted, consoleR, RoomInv
<1>4. CASE \E a \in asks : LoseAsk(a)
  <2>1. /\ Move /\ asks' \subseteq asks /\ strayed' = TRUE
        /\ UNCHANGED <<control, consoleR, seenGoal, draft, timer, wish, crossed, denied, made>>
    BY <1>4 DEF LoseAsk
  <2>2. moved' \in 0..Moves /\ pressed' = pressed
    BY <1>1, <2>1, Budget
  <2>3. RoomTypeOK' /\ TimedByAPress'
    BY <1>1, <2>1, <2>2 DEF RoomTypeOK, TimedByAPress, control, consoleR
  <2> QED BY <2>1, <2>3, SameCount DEF counted, consoleR, RoomInv
<1> QED BY <1>2, <1>3, <1>4

(* What is published here or aloud is counted once, and awaited. *)
LEMMA PublishStep ==
  ASSUME RoomInv, (\E a \in asks : Prefer(a)) \/ (\E w \in Wish : Speak(w))
  PROVE  RoomInv'
<1>1. /\ RoomTypeOK /\ hints \in Seq(Wish) /\ echoes \in Seq(Wish) /\ setHere \in Seq(Wish)
      /\ turns \in [typed : Nat, spoken : Nat] /\ made \in [here : Nat, aloud : Nat]
  BY DEF RoomInv, RoomTypeOK
<1>2. ASSUME NEW a \in asks, Prefer(a) PROVE RoomInv'
  <2>1. /\ asks' = asks \ {a} /\ setHere' = Append(setHere, a.wish)
        /\ hints' = Append(hints, a.wish) /\ echoes' = Append(echoes, a.wish)
        /\ made' = [made EXCEPT !.here = @ + 1]
        /\ UNCHANGED <<paced, goal, heading, turns, seenGoal, draft, timer, boundR, wish, crossed, denied, strayed>>
    BY <1>2 DEF Prefer, Publishes
  <2>2. a.wish \in Wish
    BY <1>1 DEF RoomTypeOK
  <2>3. /\ setHere' \in Seq(Wish) /\ Len(setHere') = Len(setHere) + 1
        /\ echoes' \in Seq(Wish) /\ Len(echoes') = Len(echoes) + 1 /\ hints' \in Seq(Wish)
    BY <1>1, <2>1, <2>2, AppendProperties
  <2>4. made' \in [here : Nat, aloud : Nat] /\ made'.here = made.here + 1 /\ made'.aloud = made.aloud
    BY <1>1, <2>1
  <2>5. RoomTypeOK'
    BY <1>1, <2>1, <2>3, <2>4 DEF RoomTypeOK, boundR
  <2>6. turns' = turns
    BY <2>1
  <2>7. EachIsShownOnce'
    <3>1. turns.typed + (Len(setHere) + 1) = made.here + 1
      <4>1. turns.typed \in Nat /\ Len(setHere) \in Nat /\ made.here \in Nat /\ turns.typed + Len(setHere) = made.here
        BY Numbers
      <4> QED BY <4>1
    <3>2. turns.typed + turns.spoken + (Len(echoes) + 1) = (made.here + 1) + made.aloud
      <4>1. turns.typed + turns.spoken + (Len(echoes) + 1) = (turns.typed + turns.spoken + Len(echoes)) + 1
        <5>1. turns.typed \in Nat /\ turns.spoken \in Nat /\ Len(echoes) \in Nat
          BY Numbers
        <5> QED BY <5>1
      <4>2. (made.here + made.aloud) + 1 = (made.here + 1) + made.aloud
        BY Numbers
      <4> QED BY <4>1, <4>2, Numbers
    <3> QED BY <2>3, <2>4, <2>6, <3>1, <3>2 DEF EachIsShownOnce
  <2> QED BY <2>1, <2>5, <2>7 DEF RoomInv, TimedByAPress, boundR
<1>3. ASSUME NEW w \in Wish, Speak(w) PROVE RoomInv'
  <2>1. /\ Press /\ hints' = Append(hints, w) /\ echoes' = Append(echoes, w) /\ crossed' = TRUE
        /\ made' = [made EXCEPT !.aloud = @ + 1]
        /\ UNCHANGED <<paced, goal, heading, setHere, turns, pageR, wish, denied, strayed>>
    BY <1>3 DEF Speak, Publishes
  <2>2. echoes' \in Seq(Wish) /\ Len(echoes') = Len(echoes) + 1 /\ hints' \in Seq(Wish)
    BY <1>1, <2>1, AppendProperties
  <2>3. made' \in [here : Nat, aloud : Nat] /\ made'.here = made.here /\ made'.aloud = made.aloud + 1
    BY <1>1, <2>1
  <2>4. /\ pressed' \in 1..Presses /\ pressed' \in 0..Presses /\ moved' \in 0..Moves
        /\ asks \subseteq [n : 1..pressed', wish : Wish]
    BY <1>1, <2>1, Budget, AsksGrow
  <2>5. RoomTypeOK'
    BY <1>1, <2>1, <2>2, <2>3, <2>4 DEF RoomTypeOK, pageR
  <2>6. EachIsShownOnce'
    <3>1. turns' = turns /\ setHere' = setHere
      BY <2>1
    <3>2. turns.typed + turns.spoken + (Len(echoes) + 1) = made.here + (made.aloud + 1)
      <4>1. turns.typed + turns.spoken + (Len(echoes) + 1) = (turns.typed + turns.spoken + Len(echoes)) + 1
        <5>1. turns.typed \in Nat /\ turns.spoken \in Nat /\ Len(echoes) \in Nat
          BY Numbers
        <5> QED BY <5>1
      <4>2. (made.here + made.aloud) + 1 = made.here + (made.aloud + 1)
        BY Numbers
      <4> QED BY <4>1, <4>2, Numbers
    <3> QED BY <2>2, <2>3, <3>1, <3>2, Numbers DEF EachIsShownOnce
  <2>7. TimedByAPress'
    BY <2>4 DEF TimedByAPress
  <2> QED BY <2>5, <2>6, <2>7 DEF RoomInv
<1> QED BY <1>2, <1>3

(* What comes back is shown: as typed, and one request of those words is no  *)
(* longer awaited, or as spoken.                                             *)
LEMMA EchoStep ==
  ASSUME RoomInv, Echo
  PROVE  RoomInv'
<1>1. /\ echoes # <<>> /\ echoes' = Tail(echoes)
      /\ UNCHANGED <<control, pageR, boundR, histR>>
  BY DEF Echo
<1>2. /\ RoomTypeOK /\ echoes \in Seq(Wish) /\ setHere \in Seq(Wish)
      /\ turns \in [typed : Nat, spoken : Nat] /\ made \in [here : Nat, aloud : Nat]
      /\ Len(echoes) \in Nat /\ Len(setHere) \in Nat
  BY LenProperties DEF RoomInv, RoomTypeOK
<1>3. echoes' \in Seq(Wish) /\ Len(echoes') = Len(echoes) - 1
  BY <1>1, <1>2, HeadTailProperties
<1>4. /\ setHere' \in Seq(Wish) /\ turns' \in [typed : Nat, spoken : Nat]
      /\ turns'.typed + Len(setHere') = turns.typed + Len(setHere)
      /\ turns'.typed + turns'.spoken = turns.typed + turns.spoken + 1
  <2>1. CASE \E i \in DOMAIN setHere : setHere[i] = Head(echoes)
    <3>1. setHere' = RemoveFirst(setHere, Head(echoes)) /\ turns' = [turns EXCEPT !.typed = @ + 1]
      BY <2>1 DEF Echo, ForgetOne
    <3>2. setHere' \in Seq(Wish) /\ Len(setHere') = Len(setHere) - 1
      BY <1>2, <2>1, <3>1, Removed
    <3>3. turns' \in [typed : Nat, spoken : Nat] /\ turns'.typed = turns.typed + 1 /\ turns'.spoken = turns.spoken
      BY <1>2, <3>1
    <3>4. turns.typed \in Nat /\ turns.spoken \in Nat
      BY <1>2
    <3>5. turns'.typed + Len(setHere') = (turns.typed + 1) + (Len(setHere) - 1)
      BY <3>2, <3>3
    <3>6. turns'.typed + turns'.spoken = (turns.typed + 1) + turns.spoken
      BY <3>3
    <3>7. (turns.typed + 1) + (Len(setHere) - 1) = turns.typed + Len(setHere)
      BY <1>2, <3>4
    <3>8. (turns.typed + 1) + turns.spoken = turns.typed + turns.spoken + 1
      BY <3>4
    <3> QED BY <3>2, <3>3, <3>5, <3>6, <3>7, <3>8
  <2>2. CASE ~\E i \in DOMAIN setHere : setHere[i] = Head(echoes)
    <3>1. setHere' = setHere /\ turns' = [turns EXCEPT !.spoken = @ + 1]
      BY <2>2 DEF Echo
    <3>2. turns' \in [typed : Nat, spoken : Nat] /\ turns'.typed = turns.typed /\ turns'.spoken = turns.spoken + 1
      BY <1>2, <3>1
    <3> QED BY <1>2, <3>1, <3>2
  <2> QED BY <2>1, <2>2
<1>5. RoomTypeOK'
  BY <1>1, <1>2, <1>3, <1>4 DEF RoomTypeOK, control, pageR, boundR, histR
<1>6. EachIsShownOnce'
  <2>1. made' = made
    BY <1>1 DEF histR
  <2>2. turns'.typed \in Nat /\ turns'.spoken \in Nat /\ turns.typed \in Nat /\ turns.spoken \in Nat
        /\ made.here \in Nat /\ made.aloud \in Nat
    BY <1>2, <1>4
  <2>3. Len(setHere') \in Nat /\ Len(echoes') \in Nat
    BY <1>3, <1>4, LenProperties
  <2>4. turns'.typed + Len(setHere') = made.here
    BY <1>4, Numbers
  <2>5. turns'.typed + turns'.spoken + Len(echoes') = (turns.typed + turns.spoken + 1) + (Len(echoes) - 1)
    BY <1>3, <1>4
  <2>6. (turns.typed + turns.spoken + 1) + (Len(echoes) - 1) = turns.typed + turns.spoken + Len(echoes)
    BY Numbers
  <2> QED BY <2>1, <2>4, <2>5, <2>6, Numbers DEF EachIsShownOnce
<1> QED BY <1>1, <1>5, <1>6 DEF RoomInv, TimedByAPress, pageR, boundR

LEMMA SupervisorStep ==
  ASSUME RoomInv, Decide \/ Pursue \/ \E t \in Presets : Plan(t)
  PROVE  RoomInv'
<1>1. /\ RoomTypeOK /\ goal \in [ts : Nat, at : Target, yours : BOOLEAN] /\ goal.at \in Target /\ goal.ts \in Nat
      /\ heading \in Target /\ hints \in Seq(Wish) /\ seenGoal \in [ts : 0..goal.ts, at : Target, yours : BOOLEAN]
      /\ denied \in BOOLEAN /\ moved \in 0..Moves
  BY DEF RoomInv, RoomTypeOK
<1>2. /\ goal' \in [ts : Nat, at : Target, yours : BOOLEAN] /\ goal'.ts = goal.ts + 1 /\ heading' \in Target
      /\ hints' \in Seq(Wish) /\ denied' \in BOOLEAN /\ moved' \in 0..Moves
      /\ UNCHANGED <<paced, consoleR, pageR, pressed, wish, crossed, strayed, made>>
  <2>1. CASE Decide
    <3>1. Head(hints) \in Wish /\ Tail(hints) \in Seq(Wish)
      BY <1>1, <2>1, HeadTailProperties DEF Decide
    <3>2. Meant(Head(hints)) \in Target /\ Granted(Head(hints)) \in Target
      BY <1>1, <3>1, MeantTarget
    <3>3. hints' = Tail(hints) /\ UNCHANGED <<paced, consoleR, pageR, boundR, wish, crossed, strayed, made>>
      BY <2>1 DEF Decide
    <3>4. /\ heading' \in {Granted(Head(hints)), Meant(Head(hints)), goal.at} /\ denied' \in {denied, TRUE}
          /\ \/ goal' = [ts |-> goal.ts + 1, at |-> Granted(Head(hints)), yours |-> Head(hints).kind # "automatic"]
             \/ goal' = [goal EXCEPT !.ts = @ + 1, !.yours = Head(hints).kind # "automatic"]
      BY <2>1 DEF Decide
    <3>5. goal' \in [ts : Nat, at : Target, yours : BOOLEAN] /\ goal'.ts = goal.ts + 1
      <4>1. goal.ts + 1 \in Nat /\ (Head(hints).kind # "automatic") \in BOOLEAN
        BY <1>1
      <4>2. CASE goal' = [ts |-> goal.ts + 1, at |-> Granted(Head(hints)), yours |-> Head(hints).kind # "automatic"]
        BY <3>2, <4>1, <4>2
      <4>3. CASE goal' = [goal EXCEPT !.ts = @ + 1, !.yours = Head(hints).kind # "automatic"]
        <5> DEFINE yours == Head(hints).kind # "automatic"
        <5>1. yours \in BOOLEAN
          OBVIOUS
        <5>2. goal' = [goal EXCEPT !.ts = goal.ts + 1, !.yours = yours]
          BY <4>3
        <5> HIDE DEF yours
        <5> QED BY <1>1, <4>1, <5>1, <5>2
      <4> QED BY <3>4, <4>2, <4>3
    <3> QED BY <1>1, <3>1, <3>2, <3>3, <3>4, <3>5 DEF boundR
  <2>2. CASE Pursue
    <3>1. /\ goal' = [goal EXCEPT !.ts = @ + 1, !.at = Toward(heading, goal.at)]
          /\ UNCHANGED <<paced, heading, hints, consoleR, pageR, boundR, histR>>
      BY <2>2 DEF Pursue
    <3>2. Toward(heading, goal.at) \in Target
      BY <1>1, TowardTarget
    <3>3. goal' \in [ts : Nat, at : Target, yours : BOOLEAN] /\ goal'.ts = goal.ts + 1
      <4> DEFINE next == Toward(heading, goal.at)
      <4>1. goal' = [goal EXCEPT !.ts = goal.ts + 1, !.at = next] /\ next \in Target
        BY <3>1, <3>2
      <4>2. goal.ts + 1 \in Nat
        BY <1>1
      <4> HIDE DEF next
      <4> QED BY <1>1, <4>1, <4>2
    <3> QED BY <1>1, <3>1, <3>3 DEF boundR, histR
  <2>3. ASSUME NEW t \in Presets, Plan(t)
        PROVE  /\ goal' \in [ts : Nat, at : Target, yours : BOOLEAN] /\ goal'.ts = goal.ts + 1 /\ heading' \in Target
               /\ hints' \in Seq(Wish) /\ denied' \in BOOLEAN /\ moved' \in 0..Moves
               /\ UNCHANGED <<paced, consoleR, pageR, pressed, wish, crossed, strayed, made>>
    <3>1. /\ Move /\ goal' = [ts |-> goal.ts + 1, at |-> Toward(t, goal.at), yours |-> FALSE] /\ heading' = goal'.at
          /\ UNCHANGED <<paced, hints, consoleR, pageR, histR>>
      BY <2>3 DEF Plan
    <3>2. Toward(t, goal.at) \in Target
      BY <1>1, Bounds, TowardTarget
    <3>3. goal' \in [ts : Nat, at : Target, yours : BOOLEAN] /\ goal'.ts = goal.ts + 1 /\ goal'.at \in Target
      BY <1>1, <3>1, <3>2
    <3>4. moved' \in 0..Moves /\ pressed' = pressed
      BY <1>1, <3>1, Budget
    <3> QED BY <1>1, <3>1, <3>3, <3>4 DEF histR
  <2> QED BY <2>1, <2>2, <2>3
<1>3. seenGoal' \in [ts : 0..goal'.ts, at : Target, yours : BOOLEAN]
  <2>1. 0..goal.ts \subseteq 0..goal'.ts
    BY <1>1, <1>2
  <2> QED BY <1>1, <1>2, <2>1 DEF pageR
<1>4. RoomTypeOK'
  BY <1>1, <1>2, <1>3 DEF RoomTypeOK, consoleR, pageR
<1> QED BY <1>2, <1>4, SameCount DEF RoomInv, TimedByAPress, counted, consoleR, pageR

LEMMA RoomInvStep == RoomInv /\ [RoomNext]_roomVars => RoomInv'
<1> SUFFICES ASSUME RoomInv, [RoomNext]_roomVars PROVE RoomInv'
  OBVIOUS
<1>1. \A t \in (0 - Step)..(Top + Step) : t \in Int
  BY Bounds
<1>2. CASE UNCHANGED roomVars
  BY <1>2 DEF roomVars, control, consoleR, pageR, boundR, histR, RoomInv, RoomTypeOK, EachIsShownOnce, TimedByAPress
<1> QED
  BY <1>1, <1>2, DialStep, AskStep, FireStep, QuietStep, PublishStep, EchoStep, SupervisorStep
     DEF RoomNext, PageActs, ConsoleActs, ControlActs

(* However many requests of the same words are made, typed and aloud: each   *)
(* one taken here is shown once as typed, and each spoken one once as spoken,*)
(* for any range, step and stride (state.py, Climate.tsx).                   *)
THEOREM RequestsKept == RoomSpec => []RequestsAreShown
<1>1. RoomInv => RequestsAreShown
  BY DEF RoomInv, RequestsAreShown
<1> QED BY <1>1, RoomInitInv, RoomInvStep, PTL DEF RoomSpec

-----------------------------------------------------------------------------
(* The voice. *)

(* Whoever has heard all that was published has the settings of the board, *)
(* and the last of what is on its way is what the board retains.           *)
Follows(way, settled) ==
  /\ way = <<>> => settled
  /\ way # <<>> => way[Len(way)] = settings

NothingYet == settings = NoSettings => last = Defaults

VoiceInv ==
  /\ VoiceTypeOK
  /\ Follows(toConsole, seen = settings)
  /\ Follows(toSpeech, obeyed = Laid(settings))
  /\ NothingYet
  /\ TheRestStays

-----------------------------------------------------------------------------
LEMMA DefaultsAreSettings == Defaults \in Settings /\ NoSettings \notin Settings
<1>1. Loudest \in Volumes
  BY VoiceSettingsAssumption DEF Loudest, VoiceSettingsAssumption
<1> QED BY <1>1, VoiceSettingsAssumption DEF Defaults, Settings, VoiceSettingsAssumption

(* Settings with a change over them are settings. *)
LEMMA Overlay ==
  ASSUME NEW change \in Change, NEW s \in Settings
  PROVE  Over(s, change) \in Settings
<1>1. DOMAIN s = {"listening", "volume", "quiet"} /\ s.listening \in BOOLEAN /\ s.volume \in Volumes /\ s.quiet \in {NoHours, AllHours}
  BY DEF Settings
<1>2. ASSUME NEW f \in DOMAIN change
      PROVE  /\ f = "listening" => change[f] \in BOOLEAN
             /\ f = "volume" => change[f] \in Volumes
             /\ f = "quiet" => change[f] \in {NoHours, AllHours}
  BY <1>2 DEF Change
<1>3. /\ Over(s, change) = [listening |-> Over(s, change).listening, volume |-> Over(s, change).volume,
                            quiet |-> Over(s, change).quiet]
      /\ Over(s, change).listening \in BOOLEAN /\ Over(s, change).volume \in Volumes
      /\ Over(s, change).quiet \in {NoHours, AllHours}
  BY <1>1, <1>2 DEF Over
<1> QED BY <1>3 DEF Settings

LEMMA Named ==
  /\ \A b \in BOOLEAN : Only("listening", b) \in Change
  /\ \A v \in Volumes : Only("volume", v) \in Change
  /\ \A h \in {NoHours, AllHours} : Only("quiet", h) \in Change
BY DEF Only, Change

LEMMA WholeIsNamed == \A h \in Hours : WholeHours(h) => h \in {NoHours, AllHours}
BY DEF Hours, WholeHours, NoHours, AllHours

(* What is on its way, published and heard. *)
LEMMA Published ==
  ASSUME NEW way \in Seq(Settings), NEW s \in Settings
  PROVE  Append(way, s) \in Seq(Settings) /\ Append(way, s) # <<>> /\ Append(way, s)[Len(Append(way, s))] = s
<1>1. /\ Append(way, s) \in Seq(Settings) /\ Len(Append(way, s)) = Len(way) + 1
      /\ Append(way, s)[Len(way) + 1] = s
  BY AppendProperties
<1> QED BY <1>1, LenProperties, EmptySeq

LEMMA Heard ==
  ASSUME NEW way \in Seq(Settings), way # <<>>
  PROVE  /\ Head(way) \in Settings /\ Tail(way) \in Seq(Settings)
         /\ Tail(way) = <<>> => Head(way) = way[Len(way)]
         /\ Tail(way) # <<>> => Tail(way)[Len(Tail(way))] = way[Len(way)]
<1>1. /\ Head(way) \in Settings /\ Tail(way) \in Seq(Settings) /\ Len(Tail(way)) = Len(way) - 1
      /\ \A i \in 1..Len(Tail(way)) : Tail(way)[i] = way[i + 1]
  BY HeadTailProperties
<1>2. Len(way) \in Nat \ {0} /\ Head(way) = way[1]
  BY EmptySeq
<1>3. Tail(way) = <<>> => Len(way) = 1
  BY <1>1, <1>2
<1>4. ASSUME Tail(way) # <<>> PROVE Tail(way)[Len(Tail(way))] = way[Len(way)]
  <2>1. Len(Tail(way)) \in Nat \ {0}
    BY <1>1, <1>4, EmptySeq
  <2>2. Tail(way)[Len(Tail(way))] = way[Len(Tail(way)) + 1]
    BY <1>1, <2>1
  <2>3. Len(Tail(way)) + 1 = Len(way)
    BY <1>1, <1>2
  <2> QED BY <2>2, <2>3
<1> QED BY <1>1, <1>2, <1>3, <1>4

LEMMA RetainedAgain ==
  ASSUME settings \in Settings \cup {NoSettings}
  PROVE  /\ Retained(settings) \in Seq(Settings)
         /\ Retained(settings) = <<>> <=> settings = NoSettings
         /\ Retained(settings) # <<>> => Retained(settings)[Len(Retained(settings))] = settings
<1>1. CASE settings = NoSettings
  BY <1>1 DEF Retained
<1>2. CASE settings # NoSettings
  <2>1. Retained(settings) = <<settings>> /\ settings \in Settings
    BY <1>2 DEF Retained
  <2>2. <<settings>> \in Seq(Settings) /\ <<settings>> # <<>> /\ Len(<<settings>>) = 1 /\ <<settings>>[1] = settings
    BY <2>1
  <2> QED BY <1>2, <2>1, <2>2
<1> QED BY <1>1, <1>2

-----------------------------------------------------------------------------
LEMMA VoiceInitInv == VoiceInit => VoiceInv
<1> SUFFICES ASSUME VoiceInit PROVE VoiceInv
  OBVIOUS
<1>1. Defaults \in Settings /\ Defaults.volume \in Volumes /\ NoHours \in Hours
  BY DefaultsAreSettings DEF Settings, Hours, NoHours
<1>2. <<>> \in Seq(Settings)
  OBVIOUS
<1>3. 0 \in 0..Uses /\ 0 \in 0..Upsets
  BY VoiceSettingsAssumption DEF VoiceSettingsAssumption
<1>4. VoiceTypeOK
  BY <1>1, <1>2, <1>3 DEF VoiceInit, VoiceTypeOK
<1> QED BY <1>4 DEF VoiceInit, VoiceInv, Follows, NothingYet, TheRestStays, Laid

(* What a page does leaves the board and all who hear it as they are. *)
boardOf == <<settings, toConsole, toSpeech, seen, obeyed, last, stale>>

LEMMA OnThePage ==
  ASSUME VoiceInv, UNCHANGED boardOf, VoiceTypeOK'
  PROVE  VoiceInv'
BY DEF VoiceInv, boardOf, Follows, NothingYet, TheRestStays, Laid

LEMMA Asked ==
  ASSUME VoiceTypeOK, NEW field, NEW to, Only(field, to) \in Change, Ask(field, to),
         volume' \in [Pages -> Volumes], quiet' \in [Pages -> Hours]
  PROVE  VoiceTypeOK' /\ UNCHANGED boardOf
<1>1. used' \in 1..Uses /\ used' \in 0..Uses
  BY VoiceSettingsAssumption DEF VoiceTypeOK, Ask, VoiceSettingsAssumption
<1>2. changes' \subseteq [n : 1..Uses, change : Change]
  BY <1>1 DEF VoiceTypeOK, Ask
<1> QED BY <1>1, <1>2 DEF VoiceTypeOK, Ask, boardV, histV, boardOf

LEMMA ControlStep ==
  ASSUME VoiceInv, NEW p \in Pages,
         \/ Toggle(p) \/ SaveHours(p) \/ ClearHours(p)
         \/ \E v \in Volumes : Slide(p, v)
         \/ \E h \in Hours : EditHours(p, h)
  PROVE  VoiceInv'
<1>1. /\ VoiceTypeOK /\ shown[p] \in Settings /\ quiet[p] \in Hours
      /\ volume \in [Pages -> Volumes] /\ quiet \in [Pages -> Hours]
  BY DEF VoiceInv, VoiceTypeOK
<1>2. VoiceTypeOK' /\ UNCHANGED boardOf
  <2>1. CASE Toggle(p)
    <3>1. Only("listening", ~shown[p].listening) \in Change
      BY <1>1, Named DEF Settings
    <3> QED BY <1>1, <2>1, <3>1, Asked DEF Toggle
  <2>2. CASE SaveHours(p)
    <3>1. Only("quiet", quiet[p]) \in Change
      BY <1>1, <2>2, Named, WholeIsNamed DEF SaveHours
    <3> QED BY <1>1, <2>2, <3>1, Asked DEF SaveHours
  <2>3. CASE ClearHours(p)
    <3>1. Only("quiet", NoHours) \in Change /\ NoHours \in Hours
      BY Named DEF NoHours, Hours
    <3>2. quiet' \in [Pages -> Hours]
      BY <1>1, <2>3, <3>1 DEF ClearHours
    <3> QED BY <1>1, <2>3, <3>1, <3>2, Asked DEF ClearHours
  <2>4. ASSUME NEW v \in Volumes, Slide(p, v) PROVE VoiceTypeOK' /\ UNCHANGED boardOf
    <3>1. Only("volume", v) \in Change
      BY Named
    <3>2. volume' \in [Pages -> Volumes]
      BY <1>1, <2>4 DEF Slide
    <3> QED BY <1>1, <2>4, <3>1, <3>2, Asked DEF Slide
  <2>5. ASSUME NEW h \in Hours, EditHours(p, h) PROVE VoiceTypeOK' /\ UNCHANGED boardOf
    <3>1. quiet' \in [Pages -> Hours]
      BY <1>1, <2>5 DEF EditHours
    <3>2. used' \in 0..Uses
      BY <2>5, VoiceSettingsAssumption DEF VoiceInv, VoiceTypeOK, EditHours, VoiceSettingsAssumption
    <3> QED BY <1>1, <2>5, <3>1, <3>2 DEF VoiceTypeOK, EditHours, boardV, histV, boardOf
  <2> QED BY <2>1, <2>2, <2>3, <2>4, <2>5
<1> QED BY <1>2, OnThePage

LEMMA DrawStep ==
  ASSUME VoiceInv, NEW p \in Pages, Draw(p)
  PROVE  VoiceInv'
<1>1. PICK n \in 1..Len(events[p]) :
        /\ events' = [events EXCEPT ![p] = SubSeq(@, n + 1, Len(@))]
        /\ shown' = [shown EXCEPT ![p] = events[p][n]]
        /\ volume' = [volume EXCEPT ![p] = Redrawn(@, shown[p].volume, events[p][n].volume)]
        /\ quiet' = [quiet EXCEPT ![p] = Redrawn(@, shown[p].quiet, events[p][n].quiet)]
        /\ blinked' \in {blinked, blinked \cup {p}}
        /\ UNCHANGED <<boardV, seen, changes, obeyed, boundV, last, stale, unsent>>
  BY DEF Draw
<1>2. /\ VoiceTypeOK /\ events \in [Pages -> Seq(Settings)] /\ events[p] \in Seq(Settings)
      /\ shown \in [Pages -> Settings] /\ volume \in [Pages -> Volumes] /\ quiet \in [Pages -> Hours]
  BY DEF VoiceInv, VoiceTypeOK
<1>3. events[p][n] \in Settings
  BY <1>2, ElementOfSeq
<1>4. events[p][n].volume \in Volumes /\ events[p][n].quiet \in Hours
  <2>1. events[p][n].volume \in Volumes /\ events[p][n].quiet \in {NoHours, AllHours}
    BY <1>3 DEF Settings
  <2>2. NoHours \in Hours /\ AllHours \in Hours
    BY DEF Hours, NoHours, AllHours
  <2> QED BY <2>1, <2>2
<1>5. SubSeq(events[p], n + 1, Len(events[p])) \in Seq(Settings)
  <2>1. \A i \in (n + 1)..Len(events[p]) : events[p][i] \in Settings
    BY <1>2, LenProperties
  <2>2. n + 1 \in Int /\ Len(events[p]) \in Int
    BY <1>2, LenProperties
  <2> QED BY <2>1, <2>2, SubSeqProperties
<1>6. events' \in [Pages -> Seq(Settings)] /\ shown' \in [Pages -> Settings]
  BY <1>1, <1>2, <1>3, <1>5
<1>7. volume' \in [Pages -> Volumes] /\ quiet' \in [Pages -> Hours]
  BY <1>1, <1>2, <1>4 DEF Redrawn
<1>8. VoiceTypeOK'
  BY <1>1, <1>2, <1>6, <1>7 DEF VoiceTypeOK, boardV, boundV
<1> QED BY <1>1, <1>8, OnThePage DEF boardOf, boardV

(* A change is laid over what was last heard: over the settings of the board *)
(* if nothing is on its way.                                                 *)
LEMMA ChangeStep ==
  ASSUME VoiceInv, NEW c \in changes, ChangeSettings(c)
  PROVE  VoiceInv'
<1>1. /\ changes' = changes \ {c} /\ settings' = Over(Laid(seen), c.change)
      /\ toConsole' = Append(toConsole, settings') /\ toSpeech' = Append(toSpeech, settings')
      /\ last' = Over(last, c.change) /\ stale' = (stale \/ toConsole # <<>>)
      /\ UNCHANGED <<seen, pagesV, obeyed, boundV, unsent, blinked>>
  BY DEF ChangeSettings
<1>2. /\ VoiceTypeOK /\ toConsole \in Seq(Settings) /\ toSpeech \in Seq(Settings) /\ last \in Settings
      /\ c.change \in Change /\ seen \in Settings \cup {NoSettings} /\ stale \in BOOLEAN
  BY DEF VoiceInv, VoiceTypeOK
<1>3. Laid(seen) \in Settings
  BY <1>2, DefaultsAreSettings DEF Laid
<1>4. settings' \in Settings /\ last' \in Settings
  BY <1>1, <1>2, <1>3, Overlay
<1>5. /\ toConsole' \in Seq(Settings) /\ toConsole' # <<>> /\ toConsole'[Len(toConsole')] = settings'
      /\ toSpeech' \in Seq(Settings) /\ toSpeech' # <<>> /\ toSpeech'[Len(toSpeech')] = settings'
  BY <1>1, <1>2, <1>4, Published
<1>6. VoiceTypeOK'
  <2>1. changes' \subseteq [n : 1..Uses, change : Change] /\ stale' \in BOOLEAN
    BY <1>1, <1>2 DEF VoiceTypeOK
  <2> QED BY <1>1, <1>2, <1>4, <1>5, <2>1 DEF VoiceTypeOK, pagesV, boundV
<1>7. settings' # NoSettings
  BY <1>4, DefaultsAreSettings
<1>8. TheRestStays'
  <2> SUFFICES ASSUME ~stale' PROVE settings' = last'
    BY <1>7 DEF TheRestStays
  <2>1. ~stale /\ toConsole = <<>>
    BY <1>1
  <2>2. seen = settings
    BY <2>1 DEF VoiceInv, Follows
  <2>3. Laid(seen) = last
    BY <2>1, <2>2 DEF VoiceInv, TheRestStays, NothingYet, Laid
  <2> QED BY <1>1, <2>3
<1> QED BY <1>5, <1>6, <1>7, <1>8 DEF VoiceInv, Follows, NothingYet

LEMMA HearStep ==
  ASSUME VoiceInv, HearSettings
  PROVE  VoiceInv'
<1>1. /\ toConsole # <<>> /\ seen' = Head(toConsole) /\ toConsole' = Tail(toConsole)
      /\ events' = [p \in Pages |-> events[p] \o TellPages(Head(toConsole))]
      /\ UNCHANGED <<settings, toSpeech, shown, volume, quiet, changes, obeyed, boundV, histV>>
  BY DEF HearSettings
<1>2. VoiceTypeOK /\ toConsole \in Seq(Settings) /\ events \in [Pages -> Seq(Settings)]
      /\ toConsole[Len(toConsole)] = settings
  BY <1>1 DEF VoiceInv, VoiceTypeOK, Follows
<1>3. /\ seen' \in Settings /\ toConsole' \in Seq(Settings)
      /\ toConsole' = <<>> => seen' = settings
      /\ toConsole' # <<>> => toConsole'[Len(toConsole')] = settings
  BY <1>1, <1>2, Heard
<1>4. TellPages(Head(toConsole)) \in Seq(Settings)
  BY <1>1, <1>3 DEF TellPages
<1>5. events' \in [Pages -> Seq(Settings)]
  BY <1>1, <1>2, <1>4, ConcatProperties
<1>6. VoiceTypeOK'
  BY <1>1, <1>2, <1>3, <1>5 DEF VoiceTypeOK, boundV, histV
<1> QED BY <1>1, <1>3, <1>6 DEF VoiceInv, Follows, NothingYet, TheRestStays, Laid, histV

LEMMA ObeyStep ==
  ASSUME VoiceInv, Obey
  PROVE  VoiceInv'
<1>1. /\ toSpeech # <<>> /\ obeyed' = Head(toSpeech) /\ toSpeech' = Tail(toSpeech)
      /\ UNCHANGED <<settings, toConsole, seen, pagesV, changes, boundV, histV>>
  BY DEF Obey
<1>2. VoiceTypeOK /\ toSpeech \in Seq(Settings) /\ toSpeech[Len(toSpeech)] = settings
  BY <1>1 DEF VoiceInv, VoiceTypeOK, Follows
<1>3. /\ obeyed' \in Settings /\ toSpeech' \in Seq(Settings)
      /\ toSpeech' = <<>> => obeyed' = settings
      /\ toSpeech' # <<>> => toSpeech'[Len(toSpeech')] = settings
  BY <1>1, <1>2, Heard
<1>4. obeyed' = settings => obeyed' = Laid(settings)
  BY <1>3, DefaultsAreSettings DEF Laid
<1>5. VoiceTypeOK'
  BY <1>1, <1>2, <1>3 DEF VoiceTypeOK, pagesV, boundV, histV
<1> QED BY <1>1, <1>3, <1>4, <1>5 DEF VoiceInv, Follows, NothingYet, TheRestStays, Laid, histV

LEMMA RestartStep ==
  ASSUME VoiceInv, RestartConsole \/ RestartSpeech
  PROVE  VoiceInv'
<1>1. /\ VoiceTypeOK /\ settings \in Settings \cup {NoSettings} /\ events \in [Pages -> Seq(Settings)]
      /\ upset \in 0..Upsets /\ Upsets \in Nat
  BY VoiceSettingsAssumption DEF VoiceInv, VoiceTypeOK, VoiceSettingsAssumption
<1>2. /\ Retained(settings) \in Seq(Settings)
      /\ Retained(settings) = <<>> => settings = NoSettings
      /\ Retained(settings) # <<>> => Retained(settings)[Len(Retained(settings))] = settings
  BY <1>1, RetainedAgain
<1>3. upset' \in 0..Upsets
  BY <1>1 DEF RestartConsole, RestartSpeech
<1>4. CASE RestartConsole
  <2>1. /\ seen' = NoSettings /\ toConsole' = Retained(settings)
        /\ events' = [p \in Pages |-> Append(events[p], Defaults)]
        /\ UNCHANGED <<settings, toSpeech, shown, volume, quiet, changes, obeyed, used, histV>>
    BY <1>4 DEF RestartConsole
  <2>2. events' \in [Pages -> Seq(Settings)]
    BY <1>1, <2>1, DefaultsAreSettings, AppendProperties
  <2>3. VoiceTypeOK'
    BY <1>1, <1>2, <1>3, <2>1, <2>2 DEF VoiceTypeOK, histV
  <2> QED BY <1>2, <2>1, <2>3 DEF VoiceInv, Follows, NothingYet, TheRestStays, Laid, histV
<1>5. CASE RestartSpeech
  <2>1. /\ obeyed' = Defaults /\ toSpeech' = Retained(settings)
        /\ UNCHANGED <<settings, toConsole, seen, pagesV, changes, used, histV>>
    BY <1>5 DEF RestartSpeech
  <2>2. VoiceTypeOK'
    BY <1>1, <1>2, <1>3, <2>1, DefaultsAreSettings DEF VoiceTypeOK, pagesV, histV
  <2> QED BY <1>2, <2>1, <2>2 DEF VoiceInv, Follows, NothingYet, TheRestStays, Laid, histV
<1> QED BY <1>4, <1>5

LEMMA LossStep ==
  ASSUME VoiceInv, NEW c \in changes, LoseChange(c)
  PROVE  VoiceInv'
<1>1. upset' \in 0..Upsets /\ changes' \subseteq [n : 1..Uses, change : Change] /\ unsent' \in BOOLEAN
  BY VoiceSettingsAssumption DEF VoiceInv, VoiceTypeOK, LoseChange, VoiceSettingsAssumption
<1>2. VoiceTypeOK' /\ UNCHANGED boardOf
  BY <1>1 DEF VoiceInv, VoiceTypeOK, LoseChange, boardV, pagesV, boardOf
<1> QED BY <1>2, OnThePage

LEMMA VoiceInvStep == VoiceInv /\ [VoiceNext]_voiceVars => VoiceInv'
<1> SUFFICES ASSUME VoiceInv, [VoiceNext]_voiceVars PROVE VoiceInv'
  OBVIOUS
<1>1. CASE VoiceActs
  BY <1>1, HearStep, ObeyStep, ChangeStep, DrawStep DEF VoiceActs
<1>2. CASE \E p \in Pages :
             \/ Toggle(p) \/ SaveHours(p) \/ ClearHours(p)
             \/ \E v \in Volumes : Slide(p, v)
             \/ \E h \in Hours : EditHours(p, h)
  BY <1>2, ControlStep
<1>3. CASE \E c \in changes : LoseChange(c)
  BY <1>3, LossStep
<1>4. CASE UNCHANGED voiceVars
  <2>1. VoiceTypeOK' /\ UNCHANGED boardOf
    BY <1>4 DEF VoiceInv, VoiceTypeOK, voiceVars, boardV, pagesV, boundV, histV, boardOf
  <2> QED BY <2>1, OnThePage
<1> QED BY <1>1, <1>2, <1>3, <1>4, RestartStep DEF VoiceNext

(* Heard is obeyed: what the board has, and that is what was last changed. *)
LEMMA VoiceInvImplies == VoiceInv => VoiceIsObeyed
<1> SUFFICES ASSUME VoiceInv PROVE VoiceIsObeyed
  OBVIOUS
<1>1. MutedIsMuted
  <2> SUFFICES ASSUME ~stale, ~last.listening, toSpeech = <<>> PROVE ~obeyed.listening
    BY DEF MutedIsMuted
  <2>1. obeyed = Laid(settings)
    BY DEF VoiceInv, Follows
  <2>2. settings = NoSettings => last = Defaults
    BY DEF VoiceInv, NothingYet
  <2>3. Defaults.listening = TRUE
    BY DEF Defaults
  <2>4. settings = last /\ settings # NoSettings
    BY <2>2, <2>3 DEF VoiceInv, TheRestStays
  <2> QED BY <2>1, <2>4 DEF Laid
<1> QED BY <1>1 DEF VoiceInv, VoiceIsObeyed

(* From whatever pages it is changed, and whichever service starts again:    *)
(* one setting changed leaves the others as they were last changed, and a    *)
(* microphone muted captures nothing once the speech service has heard of it *)
(* -- unless a change was taken before an earlier one was heard back         *)
(* (actions.py, speech/voice.py).                                            *)
THEOREM VoiceKept == VoiceSpec => []VoiceIsObeyed
<1> QED BY VoiceInitInv, VoiceInvStep, VoiceInvImplies, PTL DEF VoiceSpec
=============================================================================
