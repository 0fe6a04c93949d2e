------------------------- MODULE RobotAndTalk_proofs -------------------------
(***************************************************************************)
(* The robot keeps its word, a talk from a phone is true to the person,    *)
(* and a message sent to the room keeps its state, for any house, any      *)
(* number of orders, requests and messages, and any bound of their queues. *)
(*                                                                         *)
(* An errand holds one press of the TV's button at most, and a press takes *)
(* the place of the one before it (PressesFit, LastIsAsked), so what the   *)
(* television says is about the last.  What changes the robot unseen either*)
(* marks it changed or leaves steps to walk, and the tick publishes both.  *)
(*                                                                         *)
(* A talk is four parts that change nearly apart: the microphone, whose    *)
(* takes under way are one until two were asked for at once (RecorderInv); *)
(* the requests, which are not rephrased (PostsStay); the room, where what *)
(* is kept and what is answered says what was posted (Speaks); and the     *)
(* page, where a timer is of the request waited for unless it strayed.     *)
(*                                                                         *)
(* A message's answer is on the board only when the desk has it too, or    *)
(* has forgotten the message (Coherent): the board takes no answer back.   *)
(***************************************************************************)
EXTENDS RobotErrands, RemoteTalk, MessageHome, SequenceTheorems, WellFoundedInduction, NaturalsInduction,
        TLAPS

-----------------------------------------------------------------------------
(* The robot. *)

StepType == [phase : {"walking", "feeding", "cleaning", "pressing"}, to : Places, done : {"none", "fill", "clean", "press"}]

(* The steps of an errand: one press at most, and for it there is an order. *)
Presses(row) == {i \in DOMAIN row : row[i].done = "press"}
Row(row) ==
  /\ row \in Seq(StepType) /\ Len(row) <= 3
  /\ \A i, j \in Presses(row) : i = j

PressesFit ==
  /\ presses \in Nat /\ orders \in Nat /\ presses <= orders
  /\ Presses(steps) # {} => presses + 1 <= orders

(* What is waited for is the answer to the last press. *)
LastIsAsked == asked.id \in {0, presses} /\ said.press \in Nat

RobotInv ==
  /\ RobotTypeOK
  /\ Row(steps)
  /\ PressesFit
  /\ LastIsAsked
  /\ SaysWhatTheTvSaid
  /\ BoardIsNotMissed

-----------------------------------------------------------------------------
LEMMA Spots == Bowl \in Places /\ Bath \in Places /\ TvFront \in Places /\ Dock \in Places /\ Rooms \subseteq Places
BY DEF Places

LEMMA Levels == Full \in Nat /\ Low \in Nat /\ MaxOrders \in Nat
BY RobotAssumption DEF RobotAssumption

LEMMA AStep ==
  ASSUME NEW kind \in {"walking", "feeding", "cleaning", "pressing"}, NEW to \in Places,
         NEW done \in {"none", "fill", "clean", "press"}
  PROVE  Step(kind, to, done) \in StepType /\ Step(kind, to, done).done = done
BY DEF Step, StepType

(* A press in the middle is the only one. *)
LEMMA ThreeSteps ==
  ASSUME NEW a \in StepType, NEW b \in StepType, NEW c \in StepType, a.done # "press", c.done # "press"
  PROVE  /\ Row(<<a, b, c>>) /\ <<a, b, c>> # <<>>
         /\ Presses(<<a, b, c>>) # {} => b.done = "press"
<1> DEFINE row == <<a, b, c>>
<1>1. row \in Seq(StepType) /\ Len(row) = 3 /\ row # <<>>
  OBVIOUS
<1>2. DOMAIN row = 1..3 /\ row[1] = a /\ row[2] = b /\ row[3] = c
  OBVIOUS
<1>3. Presses(row) \subseteq {2} /\ (2 \in Presses(row) => b.done = "press")
  BY <1>2 DEF Presses
<1> QED BY <1>1, <1>3 DEF Row

LEMMA OneStep ==
  ASSUME NEW a \in StepType, a.done # "press"
  PROVE  Row(<<a>>) /\ <<a>> # <<>> /\ Presses(<<a>>) = {}
<1> DEFINE row == <<a>>
<1>1. row \in Seq(StepType) /\ Len(row) = 1 /\ row # <<>>
  OBVIOUS
<1>2. DOMAIN row = 1..1 /\ row[1] = a
  OBVIOUS
<1>3. Presses(row) = {}
  BY <1>2 DEF Presses
<1> QED BY <1>1, <1>3 DEF Row

LEMMA NoStep == Row(<<>>) /\ Presses(<<>>) = {} /\ Len(<<>>) = 0
<1>1. <<>> \in Seq(StepType) /\ Len(<<>>) = 0 /\ DOMAIN <<>> = {}
  OBVIOUS
<1> QED BY <1>1 DEF Row, Presses

(* To go somewhere, do something there, and go home. *)
LEMMA Trips ==
  ASSUME NEW spot \in Places, NEW kind \in {"feeding", "cleaning", "pressing"}, NEW done \in {"fill", "clean", "press"}
  PROVE  LET trip == <<Step("walking", spot, "none"), Step(kind, spot, done), Step("walking", Dock, "none")>>
         IN Row(trip) /\ trip # <<>>
<1> DEFINE a == Step("walking", spot, "none")
           b == Step(kind, spot, done)
           c == Step("walking", Dock, "none")
<1>1. a \in StepType /\ a.done = "none"
  BY AStep
<1>2. b \in StepType
  BY AStep
<1>3. c \in StepType /\ c.done = "none"
  BY AStep, Spots
<1> HIDE DEF a, b, c
<1>4. Row(<<a, b, c>>) /\ <<a, b, c>> # <<>>
  BY <1>1, <1>2, <1>3, ThreeSteps
<1> QED BY <1>4 DEF a, b, c

LEMMA Walks == \A to \in Places : Row(<<Step("walking", to, "none")>>) /\ <<Step("walking", to, "none")>> # <<>>
<1> SUFFICES ASSUME NEW to \in Places PROVE Row(<<Step("walking", to, "none")>>) /\ <<Step("walking", to, "none")>> # <<>>
  OBVIOUS
<1>1. Step("walking", to, "none") \in StepType /\ Step("walking", to, "none").done = "none"
  BY AStep
<1> QED BY <1>1, OneStep

(* Every errand is a row of steps. *)
LEMMA Plans ==
  ASSUME NEW errand \in Errands \cup {"return_to_dock"}, NEW room \in Places
  PROVE  Row(Plan(errand, room)) /\ Plan(errand, room) # <<>>
<1>1. CASE errand \in {"feed_the_dog", "clean_the_bathroom", "switch_on_tv"}
  BY <1>1, Spots, Trips DEF Plan
<1>2. CASE errand \in {"go_to", "return_to_dock"}
  BY <1>2, Spots, Walks DEF Plan
<1> QED BY <1>1, <1>2 DEF Errands

LEMMA NaturalOverdue == Row(steps) /\ overdue \in 0..Len(steps) => overdue \in Nat
BY DEF Row

(* The steps left are the end of the row. *)
LEMMA Left ==
  ASSUME Row(steps), overdue \in 0..Len(steps)
  PROVE  /\ Rest \in Seq(StepType) /\ Len(Rest) = Len(steps) - overdue
         /\ \A i \in DOMAIN Rest : i + overdue \in DOMAIN steps /\ Rest[i] = steps[i + overdue]
         /\ overdue = 0 => Rest = steps /\ Done = {}
         /\ Rest = <<>> <=> overdue = Len(steps)
<1>1. steps \in Seq(StepType) /\ Len(steps) \in Nat /\ overdue \in Nat /\ overdue <= Len(steps)
  BY DEF Row
<1>2. \A i \in (overdue + 1)..Len(steps) : steps[i] \in StepType
  BY <1>1
<1>3. /\ Rest \in Seq(StepType)
      /\ Len(Rest) = IF overdue + 1 <= Len(steps) THEN Len(steps) - (overdue + 1) + 1 ELSE 0
      /\ \A i \in 1..(Len(steps) - (overdue + 1) + 1) : Rest[i] = steps[(overdue + 1) + i - 1]
  BY <1>1, <1>2, SubSeqProperties DEF Rest
<1>4. Len(Rest) = Len(steps) - overdue
  BY <1>1, <1>3
<1>5. \A i \in DOMAIN Rest : i + overdue \in DOMAIN steps /\ Rest[i] = steps[i + overdue]
  BY <1>1, <1>3, <1>4
<1>6. overdue = 0 => Rest = steps
  BY <1>1, SubSeqFull DEF Rest
<1>7. overdue = 0 => Done = {}
  BY DEF Done
<1>8. Rest = <<>> <=> overdue = Len(steps)
  BY <1>1, <1>3, <1>4
<1> QED BY <1>3, <1>4, <1>5, <1>6, <1>7, <1>8

(* What advancing leaves is a row again, and a press that was done is not  *)
(* still to be done.                                                       *)
LEMMA LeftIsRow ==
  ASSUME Row(steps), overdue \in 0..Len(steps)
  PROVE  /\ Row(Rest)
         /\ Presses(Rest) # {} => Presses(steps) # {}
         /\ "press" \in Done => Presses(steps) # {} /\ Presses(Rest) = {}
<1>1. /\ Rest \in Seq(StepType) /\ Len(Rest) = Len(steps) - overdue
      /\ \A i \in DOMAIN Rest : i + overdue \in DOMAIN steps /\ Rest[i] = steps[i + overdue]
  BY Left
<1>2. /\ steps \in Seq(StepType) /\ Len(steps) \in Nat /\ Len(steps) <= 3 /\ overdue \in Nat /\ overdue <= Len(steps)
      /\ \A i, j \in Presses(steps) : i = j
  BY DEF Row
<1>3. DOMAIN Rest \subseteq Nat \ {0} /\ DOMAIN steps = 1..Len(steps)
  BY <1>1, <1>2
<1>4. \A i \in Presses(Rest) : i \in Nat \ {0} /\ i + overdue \in Presses(steps)
  BY <1>1, <1>3 DEF Presses
<1>5. \A i, j \in Presses(Rest) : i = j
  <2> SUFFICES ASSUME NEW i \in Presses(Rest), NEW j \in Presses(Rest) PROVE i = j
    OBVIOUS
  <2>1. i + overdue = j + overdue /\ i \in Nat /\ j \in Nat
    BY <1>2, <1>4
  <2> QED BY <1>2, <2>1
<1>6. "press" \in Done => \E i \in 1..overdue : i \in Presses(steps)
  BY <1>2, <1>3 DEF Done, Presses
<1>7. "press" \in Done => Presses(Rest) = {}
  <2> SUFFICES ASSUME "press" \in Done, NEW j \in Presses(Rest) PROVE FALSE
    OBVIOUS
  <2>1. PICK i \in 1..overdue : i \in Presses(steps)
    BY <1>6
  <2>2. i = j + overdue /\ j \in Nat \ {0}
    BY <1>2, <1>4, <2>1
  <2> QED BY <1>2, <2>1, <2>2
<1>8. Len(Rest) <= 3
  BY <1>1, <1>2
<1> QED BY <1>1, <1>4, <1>5, <1>6, <1>7, <1>8 DEF Row

-----------------------------------------------------------------------------
(* What advancing makes of the robot. *)
Answering == [id : 0..MaxOrders, late : BOOLEAN]

LEMMA Advancing ==
  ASSUME RobotInv
  PROVE  /\ Advanced.doing \in Errands \cup {"none", "return_to_dock"}
         /\ Advanced.doing = "none" <=> Rest = <<>>
         /\ Advanced.at \in Places \cup {Between}
         /\ Advanced.bowl \in {"empty", "full", "old"}
         /\ Advanced.presses \in Nat /\ presses <= Advanced.presses /\ Advanced.presses <= orders
         /\ Presses(Rest) # {} => Advanced.presses + 1 <= orders
         /\ Advanced.asked \in Answering /\ Advanced.asked.id \in {0, Advanced.presses}
         /\ Advanced.answers \subseteq 1..Advanced.presses
         /\ Advanced.said.press <= Advanced.presses /\ Advanced.said.press \in Nat
         /\ Advanced.said.of \in {"tv", "tv_refused"} => Advanced.said.press = Advanced.presses
         /\ Advanced.changed \in BOOLEAN
<1>1. /\ Row(steps) /\ overdue \in 0..Len(steps) /\ presses \in Nat /\ orders \in Nat /\ presses <= orders
      /\ orders <= MaxOrders /\ MaxOrders \in Nat
      /\ Presses(steps) # {} => presses + 1 <= orders
  BY Levels DEF RobotInv, RobotTypeOK, PressesFit
<1>2. Advanced.doing = (IF Rest = <<>> THEN "none" ELSE doing) /\ (steps # <<>> => doing # "none")
      /\ doing \in Errands \cup {"none", "return_to_dock"}
  BY DEF Advanced, Ends, RobotInv, RobotTypeOK
<1>3. Rest # <<>> => steps # <<>>
  BY <1>1, Left
<1>4. Advanced.at \in Places \cup {Between}
  <2>1. overdue > 0 => steps[overdue].to \in Places
    <3>1. overdue > 0 => overdue \in DOMAIN steps
      BY <1>1 DEF Row
    <3>2. \A i \in DOMAIN steps : steps[i] \in StepType
      BY <1>1 DEF Row
    <3>3. \A step \in StepType : step.to \in Places
      BY DEF StepType
    <3> QED BY <3>1, <3>2, <3>3
  <2>2. at \in Places \cup {Between}
    BY DEF RobotInv, RobotTypeOK
  <2> QED BY <2>1, <2>2 DEF Advanced
<1>5. /\ Advanced.bowl = (IF "fill" \in Done THEN "full" ELSE bowl)
      /\ Advanced.presses = (IF "press" \in Done THEN presses + 1 ELSE presses)
      /\ Advanced.asked = (IF "press" \in Done THEN [id |-> presses + 1, late |-> FALSE] ELSE asked)
      /\ Advanced.answers = (IF "press" \in Done THEN answers \cup {presses + 1} ELSE answers)
      /\ Advanced.said = (IF "press" \in Done THEN [of |-> "pressing", press |-> presses + 1]
                          ELSE IF "fill" \in Done THEN Says("fill") ELSE IF "clean" \in Done THEN Says("clean") ELSE said)
      /\ Advanced.changed = (changed \/ overdue > 0)
  BY DEF Advanced
<1>6. "press" \in Done => presses + 1 <= orders /\ Presses(Rest) = {}
  BY <1>1, LeftIsRow
<1>7. Presses(Rest) # {} => Presses(steps) # {}
  BY <1>1, LeftIsRow
<1>8. /\ asked \in Answering /\ asked.id \in {0, presses} /\ answers \subseteq 1..presses /\ bowl \in {"empty", "full", "old"}
      /\ said.press \in Nat /\ said.press <= presses
      /\ said.of \in {"tv", "tv_refused"} => said.press = presses
      /\ changed \in BOOLEAN
  BY DEF RobotInv, RobotTypeOK, LastIsAsked, SaysWhatTheTvSaid, Answering
<1>9. CASE "press" \in Done
  <2>1. /\ Advanced.presses = presses + 1 /\ Advanced.asked = [id |-> presses + 1, late |-> FALSE]
        /\ Advanced.answers = answers \cup {presses + 1} /\ Advanced.said = [of |-> "pressing", press |-> presses + 1]
    BY <1>5, <1>9
  <2>2. presses + 1 \in 0..MaxOrders /\ presses + 1 \in 1..(presses + 1) /\ answers \subseteq 1..(presses + 1)
    BY <1>1, <1>6, <1>8, <1>9
  <2>3. Advanced.asked \in Answering /\ Advanced.asked.id = presses + 1
    BY <2>1, <2>2 DEF Answering
  <2>4. Advanced.said.of = "pressing" /\ Advanced.said.press = presses + 1
    BY <2>1
  <2>5. Advanced.bowl \in {"empty", "full", "old"} /\ Advanced.changed \in BOOLEAN
    BY <1>5, <1>8
  <2>6. presses + 1 \in Nat /\ presses <= presses + 1 /\ presses + 1 <= presses + 1
    BY <1>1
  <2>7. /\ Advanced.presses \in Nat /\ presses <= Advanced.presses /\ Advanced.presses <= orders
        /\ Advanced.answers \subseteq 1..Advanced.presses
    BY <1>6, <1>9, <2>1, <2>2, <2>6
  <2> QED BY <1>2, <1>3, <1>4, <1>6, <1>9, <2>1, <2>3, <2>4, <2>5, <2>6, <2>7
<1>10. CASE "press" \notin Done
  <2>1. /\ Advanced.presses = presses /\ Advanced.asked = asked /\ Advanced.answers = answers
        /\ Advanced.said \in {Says("fill"), Says("clean"), said}
    BY <1>5, <1>10
  <2>2. Advanced.said = said \/ (Advanced.said.of \in {"fill", "clean"} /\ Advanced.said.press = 0)
    BY <2>1 DEF Says
  <2>3. Advanced.bowl \in {"empty", "full", "old"} /\ Advanced.changed \in BOOLEAN
    BY <1>5, <1>8
  <2>4. /\ Advanced.said.press \in Nat /\ Advanced.said.press <= Advanced.presses
        /\ Advanced.said.of \in {"tv", "tv_refused"} => Advanced.said.press = Advanced.presses
    BY <1>1, <1>8, <2>1, <2>2
  <2> QED BY <1>1, <1>2, <1>3, <1>4, <1>7, <1>8, <2>1, <2>3, <2>4
<1> QED BY <1>9, <1>10

(* A robot that has been advanced, and has something else to do or less. *)
LEMMA Advances ==
  ASSUME RobotInv,
         overdue' = 0, presses' = Advanced.presses, answers' = Advanced.answers,
         asked' \in {Advanced.asked, Nothing}, said' \in {Advanced.said, Says("no_answer")},
         bowl' \in {"empty", "full", "old"},
         orders' \in {orders, orders + 1}, orders' <= MaxOrders,
         Row(steps'), Presses(steps') # {} => Presses(Rest) # {} \/ orders' = orders + 1,
         doing' \in Errands \cup {"none", "return_to_dock"}, doing' = "none" <=> steps' = <<>>,
         at' \in Places \cup {Between}, battery' \in 0..Full, changed' \in BOOLEAN,
         shown'.battery \in 0..Full, BoardIsNotMissed'
  PROVE  RobotInv'
<1>1. /\ presses' \in Nat /\ presses' <= orders /\ (Presses(Rest) # {} => presses' + 1 <= orders)
      /\ answers' \subseteq 1..presses'
      /\ orders \in Nat
  BY Advancing DEF RobotInv, PressesFit
<1>2. PressesFit'
  BY <1>1 DEF PressesFit
<1>3. asked' \in Answering /\ asked'.id \in {0, presses'}
  <2>1. Nothing \in Answering /\ Nothing.id = 0
    BY Levels DEF Nothing, Answering
  <2> QED BY <2>1, Advancing
<1>4. said'.press \in Nat /\ said'.press <= presses' /\ (said'.of \in {"tv", "tv_refused"} => said'.press = presses')
  <2>1. Says("no_answer").of = "no_answer" /\ Says("no_answer").press = 0
    BY DEF Says
  <2> QED BY <1>1, <2>1, Advancing
<1>5. Len(steps') <= 3 /\ overdue' \in 0..Len(steps')
  BY DEF Row
<1>6. asked'.id <= presses'
  BY <1>1, <1>3
<1>7. RobotTypeOK'
  BY <1>1, <1>3, <1>4, <1>5, <1>6 DEF RobotTypeOK, Answering
<1> QED
  BY <1>2, <1>3, <1>4, <1>7 DEF RobotInv, LastIsAsked, SaysWhatTheTvSaid

LEMMA Shown == Values' = shown' /\ battery' \in 0..Full => shown'.battery \in 0..Full
BY DEF Values

(* What does not change what the board shows. *)
LEMMA SameValues ==
  ASSUME UNCHANGED <<steps, doing, at, battery, said>>, (bowl = "empty") <=> (bowl' = "empty")
  PROVE  Values' = Values
<1>1. Phase' = Phase
  BY DEF Phase
<1> QED BY <1>1 DEF Values

-----------------------------------------------------------------------------
LEMMA RobotInitInv == RobotInit => RobotInv
<1> SUFFICES ASSUME RobotInit PROVE RobotInv
  OBVIOUS
<1>1. /\ steps = <<>> /\ Row(steps) /\ Presses(steps) = {} /\ Len(steps) = 0
  BY NoStep DEF RobotInit
<1>2. asked \in Answering /\ asked.id = 0 /\ said.of = "none" /\ said.press = 0
  BY Levels DEF RobotInit, Nothing, Says, Answering
<1>3. battery \in 0..Full /\ shown = Values /\ shown.battery \in 0..Full
  BY Levels DEF RobotInit, Values
<1>4. RobotTypeOK
  BY <1>1, <1>2, <1>3, Spots, Levels DEF RobotInit, RobotTypeOK, Answering
<1> QED
  BY <1>1, <1>2, <1>3, <1>4
     DEF RobotInit, RobotInv, PressesFit, LastIsAsked, SaysWhatTheTvSaid, BoardIsNotMissed

(* The tick publishes what it changes, and what was changed before it. *)
LEMMA TickStep ==
  ASSUME RobotInv, Tick
  PROVE  RobotInv'
<1>1. /\ Row(steps) /\ overdue \in 0..Len(steps) /\ battery \in 0..Full /\ Full \in Nat
      /\ bowl \in {"empty", "full", "old"} /\ shown.battery \in 0..Full /\ orders <= MaxOrders
      /\ doing = "none" <=> steps = <<>>
  BY Levels DEF RobotInv, RobotTypeOK
<1>2. /\ battery' \in Charged /\ steps' = Rest /\ doing' = Advanced.doing /\ at' = Advanced.at
      /\ overdue' = 0 /\ presses' = Advanced.presses /\ answers' = Advanced.answers
      /\ asked' \in {Advanced.asked, Nothing} /\ said' \in {Advanced.said, Says("no_answer")}
      /\ bowl' = (IF Advanced.bowl = "old" THEN "empty" ELSE Advanced.bowl)
      /\ changed' = FALSE /\ orders' = orders
  BY DEF Tick
<1>3. battery' \in 0..Full
  BY <1>1, <1>2 DEF Charged
<1>4. Row(steps') /\ (doing' = "none" <=> steps' = <<>>) /\ doing' \in Errands \cup {"none", "return_to_dock"}
      /\ at' \in Places \cup {Between} /\ bowl' \in {"empty", "full", "old"}
  BY <1>1, <1>2, LeftIsRow, Advancing
<1>5. shown' = Values' \/ (shown' = shown /\ steps = <<>> /\ ~Advanced.changed /\ ~GivesUp /\ Advanced.bowl # "old" /\ battery' = battery)
  BY DEF Tick
<1>6. shown'.battery \in 0..Full
  BY <1>1, <1>3, <1>5, Shown
<1>7. BoardIsNotMissed'
  <2>1. CASE shown' = Values'
    BY <2>1 DEF BoardIsNotMissed
  <2>2. CASE shown' = shown /\ steps = <<>> /\ ~Advanced.changed /\ ~GivesUp /\ Advanced.bowl # "old" /\ battery' = battery
    <3>1. overdue = 0 /\ ~changed
      <4>1. overdue \in Nat /\ Advanced.changed = (changed \/ overdue > 0)
        BY <1>1, NaturalOverdue DEF Advanced
      <4>2. ~changed /\ ~(overdue > 0)
        BY <2>2, <4>1, Zenon
      <4> QED BY <4>1, <4>2
    <3>2. Rest = steps /\ Done = {}
      BY <1>1, <3>1, Left
    <3>3. shown = Values
      BY <2>2, <3>1 DEF RobotInv, BoardIsNotMissed
    <3>4. doing' = doing /\ at' = at /\ bowl' = bowl /\ said' = said
      <4>1. said' = Advanced.said
        BY <2>2 DEF Tick
      <4>2. Advanced.doing = "none" /\ Advanced.at = at /\ Advanced.bowl = bowl /\ Advanced.said = said
        BY <2>2, <3>1, <3>2 DEF Advanced, Ends
      <4> QED BY <1>1, <1>2, <2>2, <4>1, <4>2
    <3>5. Values' = Values
      BY <1>2, <2>2, <3>2, <3>4, SameValues
    <3> QED BY <2>2, <3>3, <3>5 DEF BoardIsNotMissed
  <2> QED BY <1>5, <2>1, <2>2
<1>8. orders' \in {orders, orders + 1} /\ orders' <= MaxOrders /\ changed' \in BOOLEAN
      /\ (Presses(steps') # {} => Presses(Rest) # {})
  BY <1>1, <1>2
<1> QED BY <1>2, <1>3, <1>4, <1>6, <1>7, <1>8, Advances

LEMMA CommandStep ==
  ASSUME RobotInv,
         \/ \E errand \in Errands, room \in Places : StartErrand(errand, room)
         \/ StopErrand \/ AskStatus
  PROVE  RobotInv'
<1>1. /\ Row(steps) /\ overdue \in 0..Len(steps) /\ battery \in 0..Full /\ orders \in Nat
      /\ shown.battery \in 0..Full /\ MaxOrders \in Nat /\ changed \in BOOLEAN
      /\ doing = "none" <=> steps = <<>>
  BY Levels DEF RobotInv, RobotTypeOK, PressesFit
<1>2. /\ overdue' = 0 /\ presses' = Advanced.presses /\ answers' = Advanced.answers
      /\ asked' = Advanced.asked /\ said' = Advanced.said /\ bowl' = Advanced.bowl
      /\ orders' = orders + 1 /\ orders < MaxOrders /\ battery' = battery /\ at' = Advanced.at
  BY DEF StartErrand, StopErrand, AskStatus, Works, Settles, Ordered
<1>3. /\ orders' \in {orders, orders + 1} /\ orders' <= MaxOrders /\ battery' \in 0..Full
      /\ at' \in Places \cup {Between} /\ bowl' \in {"empty", "full", "old"}
  BY <1>1, <1>2, Advancing
<1>4. ASSUME Row(steps'), doing' \in Errands \cup {"none", "return_to_dock"}, doing' = "none" <=> steps' = <<>>,
             changed' \in BOOLEAN, shown' = Values' \/ (shown' = shown /\ BoardIsNotMissed')
      PROVE  RobotInv'
  <2>1. shown'.battery \in 0..Full
    BY <1>1, <1>3, <1>4, Shown
  <2>2. BoardIsNotMissed'
    BY <1>4 DEF BoardIsNotMissed
  <2> QED BY <1>2, <1>3, <1>4, <2>1, <2>2, Advances
<1>5. Row(Rest) /\ Row(<<>>) /\ (Advanced.doing = "none" <=> Rest = <<>>)
      /\ Advanced.doing \in Errands \cup {"none", "return_to_dock"} /\ Advanced.changed \in BOOLEAN
  <2>1. Row(<<>>)
    BY DEF Row, Presses
  <2> QED BY <1>1, <2>1, LeftIsRow, Advancing
<1>6. CASE StopErrand
  BY <1>4, <1>5, <1>6 DEF StopErrand
<1>7. CASE AskStatus
  BY <1>4, <1>5, <1>7 DEF AskStatus
<1>8. ASSUME NEW errand \in Errands, NEW room \in Places, StartErrand(errand, room) PROVE RobotInv'
  <2>1. CASE Busy /\ steps' = Rest /\ doing' = Advanced.doing /\ changed' = Advanced.changed /\ shown' = shown
    <3>1. BoardIsNotMissed'
      BY <1>5, <2>1 DEF Busy, BoardIsNotMissed
    <3> QED BY <1>4, <1>5, <2>1, <3>1
  <2>2. CASE \E to \in Places, e \in Errands \cup {"return_to_dock"} :
               Begin(e, to) /\ (shown' = Values' \/ shown' = shown)
    <3>1. PICK to \in Places, e \in Errands \cup {"return_to_dock"} :
            Begin(e, to) /\ (shown' = Values' \/ shown' = shown)
      BY <2>2
    <3>2. steps' = Plan(e, to) /\ doing' = e /\ changed' = TRUE
      BY <3>1 DEF Begin
    <3>3. Row(steps') /\ steps' # <<>> /\ e # "none"
      BY <3>2, Plans DEF Errands
    <3> QED BY <1>4, <3>1, <3>2, <3>3 DEF BoardIsNotMissed
  <2>3. CASE ~Busy /\ steps' = Rest /\ doing' = "none" /\ changed' = Advanced.changed /\ shown' = shown
    <3>1. Rest = <<>>
      BY <1>5, <2>3 DEF Busy
    <3>2. CASE Advanced.changed
      BY <1>4, <1>5, <2>3, <3>1, <3>2 DEF BoardIsNotMissed
    <3>3. CASE ~Advanced.changed
      <4>1. overdue = 0 /\ ~changed
        <5>1. overdue \in Nat /\ Advanced.changed = (changed \/ overdue > 0)
          BY <1>1, NaturalOverdue DEF Advanced
        <5>2. ~changed /\ ~(overdue > 0)
          BY <3>3, <5>1, Zenon
        <5> QED BY <5>1, <5>2
      <4>2. Rest = steps /\ Done = {} /\ steps = <<>>
        BY <1>1, <3>1, <4>1, Left
      <4>3. shown = Values
        BY <4>1, <4>2 DEF RobotInv, BoardIsNotMissed
      <4>4. Advanced.at = at /\ Advanced.bowl = bowl /\ Advanced.said = said
        BY <4>1, <4>2 DEF Advanced
      <4>5. Values' = Values
        BY <1>1, <1>2, <2>3, <4>2, <4>4, SameValues
      <4> QED BY <1>4, <1>5, <2>3, <3>1, <4>3, <4>5
    <3> QED BY <1>5, <3>2, <3>3
  <2> QED BY <1>8, <2>1, <2>2, <2>3, Spots DEF StartErrand
<1> QED BY <1>6, <1>7, <1>8

(* The order to return does not look at what was finished unnoticed. *)
LEMMA ReturnStep ==
  ASSUME RobotInv, ReturnToDock
  PROVE  RobotInv'
<1>1. /\ overdue' = 0 /\ orders' = orders + 1 /\ orders < MaxOrders /\ shown' = Values'
      /\ UNCHANGED <<at, battery, bowl, asked, said, answers, presses>>
  BY DEF ReturnToDock, Ordered
<1>2. /\ Row(steps) /\ orders \in Nat /\ MaxOrders \in Nat /\ presses \in Nat /\ presses <= orders
  BY Levels DEF RobotInv, PressesFit
<1>3. /\ Row(steps') /\ (doing' = "none" <=> steps' = <<>>)
      /\ doing' \in Errands \cup {"none", "return_to_dock"} /\ changed' \in BOOLEAN
  <2>1. CASE UNCHANGED <<steps, doing, changed>>
    BY <1>2, <2>1 DEF RobotInv, RobotTypeOK
  <2>2. CASE Begin("return_to_dock", Dock)
    BY <2>2, Plans, Spots DEF Begin
  <2> QED BY <2>1, <2>2 DEF ReturnToDock
<1>4. PressesFit'
  BY <1>1, <1>2 DEF PressesFit
<1>5. battery' \in 0..Full /\ shown'.battery \in 0..Full
  BY <1>1, Shown DEF RobotInv, RobotTypeOK
<1>6. Len(steps') <= 3 /\ overdue' \in 0..Len(steps') /\ orders' <= MaxOrders
  BY <1>1, <1>2, <1>3 DEF Row
<1>7. RobotTypeOK'
  BY <1>1, <1>3, <1>5, <1>6 DEF RobotInv, RobotTypeOK
<1> QED
  BY <1>1, <1>3, <1>4, <1>7 DEF RobotInv, LastIsAsked, SaysWhatTheTvSaid, BoardIsNotMissed

LEMMA TvStep ==
  ASSUME RobotInv, NEW press \in answers, OnResult(press) \/ AnswerIsLost(press)
  PROVE  RobotInv'
<1>1. /\ answers' \subseteq answers
      /\ UNCHANGED <<steps, overdue, doing, at, battery, bowl, shown, presses, orders>>
  BY DEF OnResult, AnswerIsLost
<1>2. press \in 1..presses /\ presses \in Nat
  BY DEF RobotInv, RobotTypeOK, PressesFit
<1>3. CASE UNCHANGED <<asked, changed, said>>
  <2>1. Values' = Values
    BY <1>1, <1>3, SameValues
  <2> QED BY <1>1, <1>3, <2>1 DEF RobotInv, RobotTypeOK, PressesFit, LastIsAsked, SaysWhatTheTvSaid, BoardIsNotMissed
<1>4. CASE Mine(press) /\ asked' = Nothing /\ changed' = TRUE
           /\ \E of \in {"tv", "tv_refused"} : said' = [of |-> of, press |-> press]
  <2>1. press = presses
    BY <1>2, <1>4 DEF Mine, RobotInv, LastIsAsked
  <2>2. asked' \in Answering /\ asked'.id = 0
    BY <1>4, Levels DEF Nothing, Answering
  <2>3. said'.press = presses /\ said'.press \in Nat /\ said'.press <= presses /\ 0 <= presses
    BY <1>2, <1>4, <2>1
  <2> QED BY <1>1, <1>4, <2>2, <2>3
          DEF RobotInv, RobotTypeOK, Answering, PressesFit, LastIsAsked, SaysWhatTheTvSaid, BoardIsNotMissed
<1> QED BY <1>3, <1>4 DEF OnResult, AnswerIsLost, ToldAtTheTick

LEMMA TimeStep ==
  ASSUME RobotInv, StepTimePasses \/ AnswerIsLate \/ BowlIsEmptied \/ UNCHANGED robotVars
  PROVE  RobotInv'
<1>1. /\ UNCHANGED <<steps, doing, at, battery, said, changed, shown, answers, presses, orders>>
      /\ bowl' = bowl \/ (bowl = "full" /\ bowl' = "old")
  BY DEF StepTimePasses, AnswerIsLate, BowlIsEmptied, robotVars
<1>2. Values' = Values
  BY <1>1, SameValues
<1>3. overdue' \in 0..Len(steps)
  <2>1. overdue \in 0..Len(steps) /\ Len(steps) \in Nat
    BY DEF RobotInv, RobotTypeOK, Row
  <2> QED BY <2>1 DEF StepTimePasses, AnswerIsLate, BowlIsEmptied, robotVars
<1>4. asked' \in Answering /\ asked'.id = asked.id
  <2>1. asked \in Answering
    BY DEF RobotInv, RobotTypeOK, Answering
  <2>2. [asked EXCEPT !.late = TRUE] \in Answering /\ [asked EXCEPT !.late = TRUE].id = asked.id
    BY <2>1 DEF Answering
  <2> QED BY <2>1, <2>2 DEF StepTimePasses, AnswerIsLate, BowlIsEmptied, robotVars
<1> QED
  BY <1>1, <1>2, <1>3, <1>4
     DEF RobotInv, RobotTypeOK, Answering, PressesFit, LastIsAsked, SaysWhatTheTvSaid, BoardIsNotMissed

LEMMA RobotInvStep == RobotInv /\ [RobotNext]_robotVars => RobotInv'
<1>1. \A errand \in Errands \ {"go_to"} : errand \in Errands
  OBVIOUS
<1> QED
  BY <1>1, TickStep, CommandStep, ReturnStep, TvStep, TimeStep, Spots DEF RobotNext, Errands

(* A button that is not greyed out: a busy robot shows what it does. *)
LEMMA RobotInvImplies == RobotInv => RobotKeepsItsWord
<1> SUFFICES ASSUME RobotInv PROVE RobotKeepsItsWord
  OBVIOUS
<1>1. RobotButtonsWork
  <2> SUFFICES ASSUME shown = Values, NEW command \in Offered(shown)
               PROVE  /\ command \in Errands => ~Busy
                      /\ command = "stop" => steps # <<>>
    BY DEF RobotButtonsWork
  <2>1. shown.doing = doing
    BY DEF Values
  <2>2. doing = "none" <=> steps = <<>>
    BY DEF RobotInv, RobotTypeOK
  <2>3. doing = "none" => ~Busy
    <3>1. Advanced.doing \in {"none", doing}
      BY DEF Advanced, Ends
    <3> QED BY <3>1 DEF Busy
  <2> QED BY <2>1, <2>2, <2>3 DEF Offered, Errands
<1> QED BY <1>1 DEF RobotInv, RobotKeepsItsWord

(* Whatever it is ordered and however late it notices: the robot tells of   *)
(* the television only what was answered to the last press of its button,   *)
(* its board shows it as it is or is about to, and a button that is offered *)
(* asks for what it would do (devices/robot/__init__.py, RobotRemote.tsx).  *)
THEOREM RobotKept == RobotSpec => []RobotKeepsItsWord
<1> QED BY RobotInitInv, RobotInvStep, RobotInvImplies, PTL DEF RobotSpec

-----------------------------------------------------------------------------
(* Talking from a phone. *)

LEMMA LeastOne ==
  ASSUME NEW I, I \subseteq Nat, I # {}
  PROVE  Min(I) \in I
<1> DEFINE less == OpToRel(<, Nat)
<1>1. \E i \in I : \A j \in I : <<j, i>> \notin less
  BY NatLessThanWellFounded, WFMin
<1>2. \A i, j \in Nat : j < i => <<j, i>> \in less
  BY DEF OpToRel
<1> HIDE DEF less
<1>3. PICK i \in I : \A j \in I : <<j, i>> \notin less
  BY <1>1
<1>4. i \in Nat /\ \A j \in I : j \in Nat /\ ~(j < i)
  BY <1>2, <1>3
<1>5. \A j \in I : i <= j
  BY <1>4
<1> QED BY <1>5 DEF Min

-----------------------------------------------------------------------------
(* The microphone. *)

(* Takes of the mounted component that are under way.                      *)
Live == {t \in Takes : t \notin orphans /\ mic[t] \in {"asking", "open", "stopping"}}

RecorderInv ==
  /\ RecorderTypeOK
  /\ \A t \in orphans : mic[t] # "new"
  /\ current # None => mic[current] = "open" /\ current \notin orphans
  /\ ~overlapped =>
       /\ \A t, u \in Live : t = u
       /\ \A t \in Live : mic[t] = "open" => recording /\ current = t
       /\ \A t \in Live : mic[t] = "stopping" => recording

LEMMA TakeFacts == None \notin Takes /\ Takes \subseteq Nat
BY RecorderAssumption DEF Takes

LEMMA RecorderStarts ==
  ASSUME NEW n, RecorderInit(n)
  PROVE  RecorderInv
BY DEF RecorderInit, RecorderInv, RecorderTypeOK, MicState, Live

LEMMA StopStep ==
  ASSUME RecorderInv, recording, Stop
  PROVE  RecorderInv'
<1>1. CASE current = None
  BY <1>1, TakeFacts DEF Stop, RecorderInv, RecorderTypeOK, MicState, Live
<1>2. CASE current # None
  <2>1. current \in Takes /\ mic[current] = "open" /\ current \notin orphans
    BY <1>2 DEF RecorderInv, RecorderTypeOK
  <2>2. mic' = [mic EXCEPT ![current] = "stopping"] /\ current' = None /\ held' = FALSE /\ UNCHANGED <<recording, orphans, overlapped>>
    BY <1>2 DEF Stop
  <2>3. RecorderTypeOK'
    BY <2>1, <2>2 DEF RecorderInv, RecorderTypeOK, MicState
  <2>4. /\ mic'[current] = "stopping" /\ \A t \in Takes : t # current => mic'[t] = mic[t]
        /\ Live' = Live
    BY <2>1, <2>2 DEF RecorderInv, RecorderTypeOK, Live
  <2>5. \A t \in orphans' : mic'[t] # "new"
    BY <2>2, <2>3, <2>4 DEF RecorderInv, RecorderTypeOK
  <2>6. ASSUME ~overlapped'
        PROVE  /\ \A t, u \in Live' : t = u
               /\ \A t \in Live' : mic'[t] = "open" => recording' /\ current' = t
               /\ \A t \in Live' : mic'[t] = "stopping" => recording'
    <3>1. current \in Live
      BY <2>1 DEF Live
    <3> QED BY <2>2, <2>4, <2>6, <3>1 DEF RecorderInv
  <2> QED BY <2>2, <2>3, <2>5, <2>6 DEF RecorderInv
<1> QED BY <1>1, <1>2

LEMMA AskStep ==
  ASSUME RecorderInv, ~recording, Ask
  PROVE  RecorderInv'
<1> DEFINE fresh == {t \in Takes : mic[t] = "new"}
           m == Min(fresh)
<1>1. fresh # {} /\ mic' = [mic EXCEPT ![m] = "asking"] /\ held' = TRUE
      /\ overlapped' = (overlapped \/ \E t \in Takes \ orphans : mic[t] = "asking")
      /\ UNCHANGED <<recording, current, orphans>>
  BY DEF Ask
<1>2. m \in Takes /\ mic[m] = "new"
  BY <1>1, TakeFacts, LeastOne
<1> HIDE DEF m, fresh
<1>3. RecorderTypeOK'
  BY <1>1, <1>2 DEF RecorderInv, RecorderTypeOK, MicState
<1>4. /\ mic'[m] = "asking" /\ \A t \in Takes : t # m => mic'[t] = mic[t]
      /\ m \notin orphans /\ m # current
  BY <1>1, <1>2, TakeFacts DEF RecorderInv, RecorderTypeOK
<1>5. /\ \A t \in orphans' : mic'[t] # "new"
      /\ current' # None => mic'[current'] = "open" /\ current' \notin orphans'
  BY <1>1, <1>2, <1>3, <1>4 DEF RecorderInv, RecorderTypeOK
<1>6. ASSUME ~overlapped' PROVE Live' = {m}
  <2>1. ~overlapped /\ \A t \in Takes : t \notin orphans => mic[t] # "asking"
    BY <1>1, <1>6
  <2>2. Live = {}
    BY <2>1 DEF RecorderInv, Live
  <2>3. \A t \in Takes : t \in Live' <=> t = m \/ t \in Live
    BY <1>1, <1>2, <1>4 DEF Live
  <2> QED BY <1>2, <2>2, <2>3 DEF Live
<1> QED BY <1>3, <1>4, <1>5, <1>6 DEF RecorderInv

LEMMA GrantStep ==
  ASSUME RecorderInv, NEW t \in Takes, Granted(t)
  PROVE  RecorderInv'
<1>1. /\ mic[t] = "asking" /\ mic' = [mic EXCEPT ![t] = "open"]
      /\ UNCHANGED <<held, orphans, overlapped>>
      /\ t \in orphans => recording' = recording /\ current' = current
      /\ t \notin orphans => recording' = TRUE /\ current' = t
  BY DEF Granted
<1>2. RecorderTypeOK'
  BY <1>1 DEF RecorderInv, RecorderTypeOK, MicState
<1>3. /\ mic'[t] = "open" /\ \A u \in Takes : u # t => mic'[u] = mic[u]
  BY <1>1 DEF RecorderInv, RecorderTypeOK
<1>4. Live' = Live
  BY <1>1, <1>3 DEF Live
<1>5. /\ \A u \in orphans' : mic'[u] # "new"
      /\ current' # None => mic'[current'] = "open" /\ current' \notin orphans'
  BY <1>1, <1>2, <1>3 DEF RecorderInv, RecorderTypeOK
<1>6. \A u \in Live : u \in Takes /\ u \notin orphans
  BY DEF Live
<1>7. t \notin orphans => t \in Live
  BY <1>1 DEF Live
<1>8. ~overlapped' =>
       /\ \A x, u \in Live' : x = u
       /\ \A u \in Live' : mic'[u] = "open" => recording' /\ current' = u
       /\ \A u \in Live' : mic'[u] = "stopping" => recording'
  BY <1>1, <1>3, <1>4, <1>6, <1>7 DEF RecorderInv
<1> QED BY <1>2, <1>5, <1>8 DEF RecorderInv

LEMMA EndStep ==
  ASSUME RecorderInv, NEW t \in Takes, Denied(t) \/ Stopped(t)
  PROVE  RecorderInv'
<1>1. /\ mic[t] \in {"asking", "stopping"} /\ mic' = [mic EXCEPT ![t] = "closed"]
      /\ UNCHANGED <<held, current, orphans, overlapped>>
      /\ recording' \in BOOLEAN
      /\ recording' = recording \/ (t \notin orphans /\ mic[t] = "stopping")
  BY DEF Denied, Stopped, RecorderInv, RecorderTypeOK
<1>2. RecorderTypeOK'
  BY <1>1 DEF RecorderInv, RecorderTypeOK, MicState
<1>3. /\ mic'[t] = "closed" /\ \A u \in Takes : u # t => mic'[u] = mic[u]
  BY <1>1 DEF RecorderInv, RecorderTypeOK
<1>4. Live' = Live \ {t}
  BY <1>1, <1>3 DEF Live
<1>5. /\ \A u \in orphans' : mic'[u] # "new"
      /\ current' # None => mic'[current'] = "open" /\ current' \notin orphans'
  BY <1>1, <1>2, <1>3 DEF RecorderInv, RecorderTypeOK
<1>6. \A u \in Live : u \in Takes /\ u \notin orphans
  BY DEF Live
<1>7. t \notin orphans => t \in Live
  BY <1>1 DEF Live
<1>8. ~overlapped' =>
       /\ \A x, u \in Live' : x = u
       /\ \A u \in Live' : mic'[u] = "open" => recording' /\ current' = u
       /\ \A u \in Live' : mic'[u] = "stopping" => recording'
  BY <1>1, <1>3, <1>4, <1>6, <1>7 DEF RecorderInv
<1> QED BY <1>2, <1>5, <1>8 DEF RecorderInv

LEMMA RemountStep ==
  ASSUME RecorderInv, Remount
  PROVE  RecorderInv'
BY TakeFacts DEF RecorderInv, Remount, RecorderTypeOK, Live, MicState

LEMMA ReleaseStep ==
  ASSUME RecorderInv, NEW long, ReleaseButton(long)
  PROVE  RecorderInv'
<1>1. CASE recording /\ held /\ long
  BY <1>1, StopStep DEF ReleaseButton
<1>2. CASE ~(recording /\ held /\ long)
  <2>1. held' = FALSE /\ UNCHANGED <<mic, recording, current, orphans, overlapped>>
    BY <1>2 DEF ReleaseButton
  <2>2. RecorderTypeOK'
    BY <2>1 DEF RecorderInv, RecorderTypeOK
  <2>3. Live' = Live
    BY <2>1 DEF Live
  <2> QED BY <2>1, <2>2, <2>3 DEF RecorderInv
<1> QED BY <1>1, <1>2

LEMMA PressStep ==
  ASSUME RecorderInv, NEW mayStart, PressButton(mayStart)
  PROVE  RecorderInv'
BY StopStep, AskStep DEF PressButton

LEMMA RecorderRests == RecorderInv /\ UNCHANGED recorderVars => RecorderInv'
BY DEF RecorderInv, recorderVars, RecorderTypeOK, Live

LEMMA RecorderShows == RecorderInv => RecorderTypeOK /\ MicrophoneIsShown
BY DEF RecorderInv, MicrophoneIsShown, Live

-----------------------------------------------------------------------------
(* The requests: where each is, and what it says. *)

PostType == [at : PostState, words : Words \cup {None}, spoken : BOOLEAN, ours : BOOLEAN]

PostsInv ==
  /\ posts \in [Asks -> PostType]
  /\ \A a \in Asks : posts[a].at \in {"sent", "accepted"} => posts[a].words \in Words

(* What has been sent stays sent and is not rephrased.                     *)
PostsStay ==
  \A a \in Asks : posts[a].at # "new" => posts'[a].at # "new" /\ posts'[a].words = posts[a].words

LEMMA AskFacts == None \notin Asks /\ Other \notin Asks /\ Other # None /\ Asks \subseteq Nat
BY TalkAssumption, RecorderAssumption DEF Asks, Other

LEMMA PostStep ==
  ASSUME PostsInv, Fresh # {}, NEW words \in Words, NEW spoken \in BOOLEAN, NEW ours \in BOOLEAN,
         Post(words, spoken, ours)
  PROVE  PostsInv' /\ PostsStay
<1> DEFINE m == Min(Fresh)
<1>1. m \in Asks /\ posts[m].at = "new"
  <2>1. Fresh \subseteq Nat
    BY AskFacts DEF Fresh
  <2>2. m \in Fresh
    BY <2>1, LeastOne
  <2> QED BY <2>2 DEF Fresh
<1>2. posts' = [posts EXCEPT ![m] = [at |-> "sent", words |-> words, spoken |-> spoken, ours |-> ours]]
  BY DEF Post
<1> HIDE DEF m
<1>3. [at |-> "sent", words |-> words, spoken |-> spoken, ours |-> ours] \in PostType
  BY DEF PostType, PostState
<1>4. posts' \in [Asks -> PostType]
  BY <1>2, <1>3 DEF PostsInv
<1>5. /\ posts'[m].at = "sent" /\ posts'[m].words = words
      /\ \A a \in Asks : a # m => posts'[a] = posts[a]
  BY <1>1, <1>2 DEF PostsInv
<1> QED BY <1>1, <1>4, <1>5 DEF PostsInv, PostsStay

LEMMA MoveStep ==
  ASSUME PostsInv, NEW a \in Asks, NEW next \in {"accepted", "refused", "over"},
         posts[a].at \in {"sent", "accepted", "refused"}, next = "accepted" => posts[a].at = "sent",
         posts' = [posts EXCEPT ![a].at = next]
  PROVE  PostsInv' /\ PostsStay
<1>1. posts[a] \in PostType
  BY DEF PostsInv
<1>2. /\ posts'[a] = [posts[a] EXCEPT !.at = next]
      /\ \A b \in Asks : b # a => posts'[b] = posts[b]
  BY DEF PostsInv
<1>3. posts'[a] \in PostType /\ posts'[a].at = next /\ posts'[a].words = posts[a].words
  BY <1>1, <1>2 DEF PostType, PostState
<1>4. posts' \in [Asks -> PostType]
  BY <1>2, <1>3 DEF PostsInv
<1> QED BY <1>2, <1>3, <1>4 DEF PostsInv, PostsStay

LEMMA LeaveStep ==
  ASSUME PostsInv, Leave
  PROVE  PostsInv' /\ PostsStay
<1>1. posts' = [a \in Asks |-> [posts[a] EXCEPT !.ours = @ /\ posts[a].at \in {"new", "over"}]]
  BY DEF Leave
<1>2. ASSUME NEW a \in Asks
      PROVE  posts'[a] \in PostType /\ posts'[a].at = posts[a].at /\ posts'[a].words = posts[a].words
  <2>1. posts[a] \in PostType
    BY DEF PostsInv
  <2>2. posts'[a] = [posts[a] EXCEPT !.ours = posts[a].ours /\ posts[a].at \in {"new", "over"}]
    BY <1>1
  <2>3. (posts[a].ours /\ posts[a].at \in {"new", "over"}) \in BOOLEAN
    BY <2>1 DEF PostType
  <2> QED BY <2>1, <2>2, <2>3 DEF PostType
<1>3. posts' \in [Asks -> PostType]
  BY <1>1, <1>2
<1> QED BY <1>2, <1>3 DEF PostsInv, PostsStay

LEMMA PostsRest == PostsInv /\ posts' = posts => PostsInv' /\ PostsStay
BY DEF PostsInv, PostsStay

-----------------------------------------------------------------------------
(* The console and the reasoning service. *)

Asked == [words : Words, id : Asks \cup {Other}]

(* A request that is kept, and a reply on its way, say what was posted.    *)
Speaks(e) == e.id # Other => posts[e.id].at # "new" /\ posts[e.id].words = e.words

RoomType ==
  /\ expected \in Seq(Asked) /\ Len(expected) <= RemoteKept
  /\ pending \in Seq(Words) /\ Len(pending) <= QueueCap
  /\ wire \in Seq(Asked)

RoomInv ==
  /\ RoomType
  /\ \A i \in DOMAIN expected : Speaks(expected[i])
  /\ \A i \in DOMAIN wire : Speaks(wire[i])

LEMMA Shorter ==
  ASSUME NEW S, NEW list \in Seq(S), list # <<>>
  PROVE  /\ Tail(list) \in Seq(S) /\ Head(list) \in S /\ Head(list) = list[1]
         /\ Len(Tail(list)) = Len(list) - 1 /\ Len(list) >= 1
         /\ \A i \in DOMAIN Tail(list) : i + 1 \in DOMAIN list /\ Tail(list)[i] = list[i + 1]
<1>1. Len(list) \in Nat /\ DOMAIN list = 1..Len(list) /\ Len(list) >= 1
  BY EmptySeq, LenProperties
<1>2. /\ Tail(list) \in Seq(S) /\ Head(list) \in S /\ Head(list) = list[1]
      /\ Len(Tail(list)) = Len(list) - 1
      /\ \A i \in 1 .. Len(Tail(list)) : Tail(list)[i] = list[i + 1]
  BY HeadTailProperties
<1>3. DOMAIN Tail(list) = 1..Len(list) - 1
  BY <1>2, LenProperties
<1> QED BY <1>1, <1>2, <1>3

LEMMA Longer ==
  ASSUME NEW S, NEW list \in Seq(S), NEW e \in S
  PROVE  /\ Append(list, e) \in Seq(S) /\ Len(Append(list, e)) = Len(list) + 1
         /\ DOMAIN Append(list, e) = 1..Len(list) + 1 /\ DOMAIN list = 1..Len(list) /\ Len(list) \in Nat
         /\ \A i \in DOMAIN list : Append(list, e)[i] = list[i]
         /\ Append(list, e)[Len(list) + 1] = e
<1>1. Len(list) \in Nat /\ DOMAIN list = 1..Len(list)
  BY LenProperties
<1>2. /\ Append(list, e) \in Seq(S) /\ Len(Append(list, e)) = Len(list) + 1
      /\ \A i \in 1 .. Len(list) : Append(list, e)[i] = list[i]
      /\ Append(list, e)[Len(list) + 1] = e
  BY AppendProperties
<1>3. DOMAIN Append(list, e) = 1..Len(list) + 1
  BY <1>2, LenProperties
<1> QED BY <1>1, <1>2, <1>3

LEMMA Without ==
  ASSUME NEW S, NEW list \in Seq(S), NEW i \in DOMAIN list
  PROVE  /\ RemoveAt(list, i) \in Seq(S) /\ Len(RemoveAt(list, i)) = Len(list) - 1
         /\ \A j \in DOMAIN RemoveAt(list, i) : \E k \in DOMAIN list : RemoveAt(list, i)[j] = list[k]
<1>1. Len(list) \in Nat /\ DOMAIN list = 1..Len(list) /\ i \in 1..Len(list)
  BY LenProperties
<1> DEFINE a == SubSeq(list, 1, i - 1)
           b == SubSeq(list, i + 1, Len(list))
<1>2. /\ a \in Seq(S) /\ Len(a) = i - 1
      /\ \A j \in 1..i - 1 : a[j] = list[j]
  BY <1>1, SubSeqProperties
<1>3. /\ b \in Seq(S) /\ Len(b) = Len(list) - i
      /\ \A j \in 1..Len(list) - i : b[j] = list[i + j]
  BY <1>1, SubSeqProperties
<1> HIDE DEF a, b
<1>4. /\ a \o b \in Seq(S) /\ Len(a \o b) = Len(list) - 1
      /\ \A j \in 1..Len(list) - 1 : (a \o b)[j] = IF j <= i - 1 THEN a[j] ELSE b[j - (i - 1)]
  <2>1. Len(a) \in Nat /\ Len(b) \in Nat /\ Len(a) + Len(b) = Len(list) - 1
    BY <1>1, <1>2, <1>3
  <2>2. /\ a \o b \in Seq(S) /\ Len(a \o b) = Len(a) + Len(b)
        /\ \A j \in 1 .. Len(a) + Len(b) : (a \o b)[j] = IF j <= Len(a) THEN a[j] ELSE b[j - Len(a)]
    BY <1>2, <1>3, ConcatProperties
  <2> QED BY <2>1, <2>2, <1>2
<1>5. ASSUME NEW j \in 1..Len(list) - 1
      PROVE  \E k \in DOMAIN list : (a \o b)[j] = list[k]
  <2>1. CASE j <= i - 1
    <3>1. (a \o b)[j] = list[j] /\ j \in DOMAIN list
      BY <1>1, <1>2, <1>4, <2>1
    <3> QED BY <3>1
  <2>2. CASE ~(j <= i - 1)
    <3>1. j - (i - 1) \in 1..Len(list) - i /\ i + (j - (i - 1)) = j + 1 /\ j + 1 \in DOMAIN list
      BY <1>1, <2>2
    <3>2. (a \o b)[j] = b[j - (i - 1)]
      BY <1>4, <2>2
    <3>3. (a \o b)[j] = list[j + 1]
      BY <1>3, <3>1, <3>2
    <3> QED BY <3>1, <3>3
  <2> QED BY <2>1, <2>2
<1>6. RemoveAt(list, i) = a \o b
  BY DEF RemoveAt, a, b
<1>7. DOMAIN (a \o b) = 1..Len(list) - 1
  BY <1>4, LenProperties
<1> QED BY <1>4, <1>5, <1>6, <1>7

LEMMA ExpectFacts ==
  ASSUME NEW requests \in Seq(Asked), Len(requests) <= RemoteKept, NEW words \in Words,
         NEW id \in Asks \cup {Other}
  PROVE  /\ Expect(requests, words, id) \in Seq(Asked)
         /\ Len(Expect(requests, words, id)) <= RemoteKept
         /\ \A j \in DOMAIN Expect(requests, words, id) :
              \/ Expect(requests, words, id)[j] = [words |-> words, id |-> id]
              \/ \E k \in DOMAIN requests : Expect(requests, words, id)[j] = requests[k]
<1> DEFINE entry == [words |-> words, id |-> id]
           listed == IF \E e \in ToSet(requests) : e.words = words
                       THEN [i \in DOMAIN requests |-> IF requests[i].words = words THEN entry ELSE requests[i]]
                       ELSE Append(requests, entry)
           Known(e) == e = entry \/ \E k \in DOMAIN requests : e = requests[k]
<1>1. entry \in Asked
  BY DEF Asked
<1>2. Len(requests) \in Nat /\ DOMAIN requests = 1..Len(requests)
      /\ \A i \in DOMAIN requests : requests[i] \in Asked
  BY LenProperties
<1>3. Expect(requests, words, id) = IF Len(listed) > RemoteKept THEN Tail(listed) ELSE listed
  BY DEF Expect
<1>4. listed \in Seq(Asked) /\ Len(listed) <= RemoteKept + 1 /\ \A j \in DOMAIN listed : Known(listed[j])
  <2>1. CASE \E e \in ToSet(requests) : e.words = words
    <3> DEFINE At(i) == IF requests[i].words = words THEN entry ELSE requests[i]
    <3>1. listed = [i \in 1..Len(requests) |-> At(i)]
      BY <1>2, <2>1
    <3>2. \A i \in 1..Len(requests) : At(i) \in Asked /\ Known(At(i))
      BY <1>1, <1>2
    <3>3. DOMAIN listed = 1..Len(requests) /\ \A j \in DOMAIN listed : listed[j] = At(j)
      BY <3>1
    <3> HIDE DEF entry, listed, At, Known
    <3>4. [i \in 1..Len(requests) |-> At(i)] \in Seq(Asked)
      BY <1>2, <3>2, IsASeq
    <3>5. listed \in Seq(Asked)
      BY <3>1, <3>4
    <3>6. Len(listed) \in Nat /\ DOMAIN listed = 1..Len(listed)
      BY <3>5, LenProperties
    <3>7. Len(listed) = Len(requests)
      BY <1>2, <3>3, <3>6
    <3>8. RemoteKept \in Nat
      BY TalkAssumption
    <3> QED BY <1>2, <3>2, <3>3, <3>5, <3>7, <3>8
  <2>2. CASE ~\E e \in ToSet(requests) : e.words = words
    <3>1. listed = Append(requests, entry)
      BY <2>2
    <3> HIDE DEF entry, listed
    <3>2. /\ listed \in Seq(Asked) /\ Len(listed) = Len(requests) + 1
          /\ DOMAIN listed = 1..Len(requests) + 1
          /\ \A i \in DOMAIN requests : listed[i] = requests[i]
          /\ listed[Len(requests) + 1] = entry
      BY <1>1, <3>1, Longer
    <3>3. \A j \in DOMAIN listed : j \in DOMAIN requests \/ j = Len(requests) + 1
      BY <1>2, <3>2
    <3>4. RemoteKept \in Nat
      BY TalkAssumption
    <3> QED BY <1>2, <3>2, <3>3, <3>4
  <2> QED BY <2>1, <2>2
<1> HIDE DEF listed
<1>5. RemoteKept \in Nat \ {0} /\ Len(listed) \in Nat /\ DOMAIN listed = 1..Len(listed)
  BY <1>4, TalkAssumption, LenProperties
<1>6. CASE Len(listed) > RemoteKept
  <2>1. listed # <<>>
    BY <1>5, <1>6
  <2>2. /\ Tail(listed) \in Seq(Asked) /\ Len(Tail(listed)) = Len(listed) - 1
        /\ \A i \in DOMAIN Tail(listed) : i + 1 \in DOMAIN listed /\ Tail(listed)[i] = listed[i + 1]
    BY <1>4, <2>1, Shorter
  <2>3. Expect(requests, words, id) = Tail(listed)
    BY <1>3, <1>6
  <2>4. \A i \in DOMAIN Tail(listed) : Known(Tail(listed)[i])
    BY <1>4, <2>2
  <2> QED BY <1>4, <1>5, <2>2, <2>3, <2>4
<1>7. CASE ~(Len(listed) > RemoteKept)
  BY <1>3, <1>4, <1>5, <1>7
<1> QED BY <1>6, <1>7

LEMMA EnqueueFacts ==
  ASSUME NEW list \in Seq(Words), Len(list) <= QueueCap, NEW words \in Words
  PROVE  Enqueue(list, words) \in Seq(Words) /\ Len(Enqueue(list, words)) <= QueueCap
<1>1. QueueCap \in Nat \ {0} /\ Len(list) \in Nat
  BY TalkAssumption, LenProperties
<1>2. CASE Len(list) = QueueCap
  <2>1. list # <<>>
    BY <1>1, <1>2
  <2>2. Tail(list) \in Seq(Words) /\ Len(Tail(list)) = Len(list) - 1
    BY <2>1, Shorter
  <2>3. Append(Tail(list), words) \in Seq(Words) /\ Len(Append(Tail(list), words)) = Len(Tail(list)) + 1
    BY <2>2, Longer
  <2> QED BY <1>1, <1>2, <2>2, <2>3 DEF Enqueue
<1>3. CASE Len(list) # QueueCap
  <2>1. Append(list, words) \in Seq(Words) /\ Len(Append(list, words)) = Len(list) + 1
    BY Longer
  <2> QED BY <1>1, <1>3, <2>1 DEF Enqueue
<1> QED BY <1>2, <1>3

(* Nothing said of a request ages: what was posted stays as it was.        *)
LEMMA StillSpeaks ==
  ASSUME PostsStay, NEW e \in Asked, Speaks(e)
  PROVE  Speaks(e)'
BY DEF PostsStay, Speaks, Asked

LEMMA RoomRests ==
  ASSUME RoomInv, PostsStay, UNCHANGED roomVars
  PROVE  RoomInv'
<1>0. expected' = expected /\ pending' = pending /\ wire' = wire
  BY DEF roomVars
<1>1. RoomType'
  BY <1>0 DEF RoomInv, RoomType
<1>2. /\ \A i \in DOMAIN expected : expected[i] \in Asked
      /\ \A i \in DOMAIN wire : wire[i] \in Asked
  BY LenProperties DEF RoomInv, RoomType
<1>3. ASSUME NEW i \in DOMAIN expected'
      PROVE  Speaks(expected[i])'
  BY <1>0, <1>2 DEF RoomInv, PostsStay, Speaks, Asked
<1>4. ASSUME NEW i \in DOMAIN wire'
      PROVE  Speaks(wire[i])'
  BY <1>0, <1>2 DEF RoomInv, PostsStay, Speaks, Asked
<1> QED BY <1>1, <1>3, <1>4 DEF RoomInv

LEMMA SayStep ==
  ASSUME RoomInv, PostsStay, NEW words \in Words, NEW id \in Asks \cup {Other}, Say(words, id), UNCHANGED wire,
         id # Other => posts'[id].at # "new" /\ posts'[id].words = words
  PROVE  RoomInv'
<1>1. /\ expected' \in Seq(Asked) /\ Len(expected') <= RemoteKept
      /\ \A j \in DOMAIN expected' : \/ expected'[j] = [words |-> words, id |-> id]
                                   \/ \E k \in DOMAIN expected : expected'[j] = expected[k]
  BY ExpectFacts DEF Say, RoomInv, RoomType
<1>2. pending' \in Seq(Words) /\ Len(pending') <= QueueCap
  BY EnqueueFacts DEF Say, RoomInv, RoomType
<1>3. RoomType'
  BY <1>1, <1>2 DEF RoomInv, RoomType
<1>4. /\ \A i \in DOMAIN expected : expected[i] \in Asked
      /\ \A i \in DOMAIN wire : wire[i] \in Asked
  BY LenProperties DEF RoomInv, RoomType
<1>5. \A i \in DOMAIN wire' : Speaks(wire[i])'
  BY <1>4 DEF RoomInv, PostsStay, Speaks, Asked
<1>6. ASSUME NEW j \in DOMAIN expected'
      PROVE  Speaks(expected[j])'
  <2>1. CASE expected'[j] = [words |-> words, id |-> id]
    BY <2>1 DEF Speaks
  <2>2. CASE \E k \in DOMAIN expected : expected'[j] = expected[k]
    BY <1>4, <2>2 DEF RoomInv, PostsStay, Speaks, Asked
  <2> QED BY <1>1, <2>1, <2>2
<1> QED BY <1>3, <1>5, <1>6 DEF RoomInv

LEMMA AnswerStep ==
  ASSUME RoomInv, Answer
  PROVE  RoomInv'
<1>1. posts' = posts /\ pending # <<>> /\ pending' = Tail(pending)
  BY DEF Answer
<1>2. pending' \in Seq(Words) /\ Len(pending') <= QueueCap
  <2>1. Tail(pending) \in Seq(Words) /\ Len(Tail(pending)) = Len(pending) - 1 /\ Len(pending) \in Nat
    BY <1>1, Shorter, LenProperties DEF RoomInv, RoomType
  <2> QED BY <1>1, <2>1, TalkAssumption DEF RoomInv, RoomType
<1>3. CASE UNCHANGED <<expected, wire>>
  BY <1>1, <1>2, <1>3 DEF RoomInv, RoomType, Speaks
<1>4. ASSUME NEW i \in DOMAIN expected, expected' = RemoveAt(expected, i), wire' = Append(wire, expected[i])
      PROVE  RoomInv'
  <2>1. expected \in Seq(Asked) /\ wire \in Seq(Asked) /\ expected[i] \in Asked /\ Len(expected) \in Nat
    BY LenProperties DEF RoomInv, RoomType
  <2>2. /\ expected' \in Seq(Asked) /\ Len(expected') = Len(expected) - 1
        /\ \A j \in DOMAIN expected' : \E k \in DOMAIN expected : expected'[j] = expected[k]
    BY <1>4, <2>1, Without
  <2>3. /\ wire' \in Seq(Asked) /\ DOMAIN wire' = 1..Len(wire) + 1 /\ DOMAIN wire = 1..Len(wire)
        /\ Len(wire) \in Nat /\ wire'[Len(wire) + 1] = expected[i]
        /\ \A j \in DOMAIN wire : wire'[j] = wire[j]
    BY <1>4, <2>1, Longer
  <2>4. RoomType'
    BY <1>2, <2>1, <2>2, <2>3, TalkAssumption DEF RoomInv, RoomType
  <2>5. \A j \in DOMAIN expected' : Speaks(expected[j])'
    BY <1>1, <2>2 DEF RoomInv, Speaks
  <2>6. \A j \in DOMAIN wire' : j \in DOMAIN wire \/ j = Len(wire) + 1
    BY <2>3
  <2>7. \A j \in DOMAIN wire' : Speaks(wire[j])'
    BY <1>1, <2>3, <2>6 DEF RoomInv, Speaks
  <2> QED BY <2>4, <2>5, <2>7 DEF RoomInv
<1> QED BY <1>3, <1>4 DEF Answer

LEMMA HearStep ==
  ASSUME RoomInv, wire # <<>>, wire' = Tail(wire), UNCHANGED <<posts, expected, pending>>
  PROVE  RoomInv'
<1>1. /\ Tail(wire) \in Seq(Asked)
      /\ \A i \in DOMAIN Tail(wire) : i + 1 \in DOMAIN wire /\ Tail(wire)[i] = wire[i + 1]
  BY Shorter DEF RoomInv, RoomType
<1>2. RoomType'
  BY <1>1 DEF RoomInv, RoomType
<1>3. \A i \in DOMAIN wire' : Speaks(wire[i])'
  BY <1>1 DEF RoomInv, Speaks
<1>4. \A i \in DOMAIN expected' : Speaks(expected[i])'
  BY DEF RoomInv, Speaks
<1> QED BY <1>2, <1>3, <1>4 DEF RoomInv

-----------------------------------------------------------------------------
(* The page. *)

Exchange == [id : Asks, answer : Words \cup {None, "nothing"}]

PageType ==
  /\ phase \in {"idle", "sending", "thinking", "speaking"}
  /\ waiting \in Asks \cup {None} /\ timers \subseteq Asks
  /\ exchanges \in Seq(Exchange)
  /\ fetching \in Nat /\ playing \in BOOLEAN
  /\ extras \in 0..MaxExtras /\ stray \in BOOLEAN

(* An exchange is of a request that was posted, and matches it.            *)
Matches(e) == posts[e.id].at # "new" /\ e.answer \in {None, "nothing", posts[e.id].words}

PageInv ==
  /\ PageType
  /\ \A i \in DOMAIN exchanges : Matches(exchanges[i])
  /\ waiting # None => /\ exchanges # <<>>
                      /\ exchanges[Len(exchanges)].id = waiting
                      /\ exchanges[Len(exchanges)].answer = None
  /\ ~stray => timers \subseteq {waiting}

(* An answer on screen stays, or a stray timer is known of, or all go.     *)
AnswersRest ==
  \A i \in DOMAIN exchanges : exchanges[i].answer \in Words =>
    stray \/ exchanges' = <<>> \/ exchanges'[i] = exchanges[i]

LEMMA NotedFacts ==
  ASSUME NEW list \in Seq(Exchange), NEW answer \in Words \cup {None, "nothing"}
  PROVE  /\ Noted(list, answer) \in Seq(Exchange) /\ Len(Noted(list, answer)) = Len(list)
         /\ DOMAIN Noted(list, answer) = DOMAIN list /\ DOMAIN list = 1..Len(list) /\ Len(list) \in Nat
         /\ \A i \in DOMAIN list : i # Len(list) => Noted(list, answer)[i] = list[i]
         /\ list # <<>> => /\ Len(list) \in DOMAIN list
                          /\ Noted(list, answer)[Len(list)].id = list[Len(list)].id
                          /\ Noted(list, answer)[Len(list)].answer = answer
<1>1. Len(list) \in Nat /\ DOMAIN list = 1..Len(list) /\ \A i \in DOMAIN list : list[i] \in Exchange
  BY LenProperties
<1>2. CASE list = <<>>
  BY <1>1, <1>2 DEF Noted
<1>3. CASE list # <<>>
  <2>1. Len(list) \in 1..Len(list)
    BY <1>1, <1>3, EmptySeq
  <2> DEFINE last == [list[Len(list)] EXCEPT !.answer = answer]
  <2>2. last \in Exchange /\ last.id = list[Len(list)].id /\ last.answer = answer
    BY <1>1, <2>1 DEF Exchange
  <2>3. Noted(list, answer) = [list EXCEPT ![Len(list)] = last]
    BY <1>3 DEF Noted
  <2> HIDE DEF last
  <2>4. /\ Noted(list, answer) \in Seq(Exchange) /\ Len(Noted(list, answer)) = Len(list)
        /\ \A i \in 1..Len(list) : Noted(list, answer)[i] = IF i = Len(list) THEN last ELSE list[i]
    BY <2>1, <2>2, <2>3, ExceptSeq
  <2>5. DOMAIN Noted(list, answer) = 1..Len(list)
    BY <2>4, LenProperties
  <2> QED BY <1>1, <2>1, <2>2, <2>4, <2>5
<1> QED BY <1>2, <1>3

LEMMA PageRests ==
  ASSUME PageInv, PostsStay, UNCHANGED <<waiting, timers, exchanges, stray>>,
         phase' \in {"idle", "sending", "thinking", "speaking"}, fetching' \in Nat, playing' \in BOOLEAN,
         extras' \in 0..MaxExtras
  PROVE  PageInv' /\ AnswersRest
<1>1. PageType'
  BY DEF PageInv, PageType
<1>2. \A i \in DOMAIN exchanges : exchanges[i] \in Exchange
  BY LenProperties DEF PageInv, PageType
<1>3. \A i \in DOMAIN exchanges' : Matches(exchanges[i])'
  BY <1>2 DEF PageInv, Matches, PostsStay, Exchange
<1> QED BY <1>1, <1>3 DEF PageInv, AnswersRest

LEMMA PageStill ==
  ASSUME PageInv, PostsStay, UNCHANGED <<pageVars, extras, stray>>
  PROVE  PageInv' /\ AnswersRest
BY PageRests DEF PageInv, PageType, pageVars

LEMMA NoteStep ==
  ASSUME PageInv, posts' = posts, UNCHANGED <<extras, stray, playing>>,
         phase' \in {"idle", "sending", "thinking", "speaking"}, fetching' \in Nat, waiting' = None,
         NEW a \in Asks, a \in timers \/ waiting = a, timers' = timers \ {a},
         NEW answer \in Words \cup {None, "nothing"}, exchanges' = Noted(exchanges, answer),
         waiting = a \/ answer = "nothing",
         waiting = a => answer \in {"nothing", posts[a].words}
  PROVE  PageInv' /\ AnswersRest
<1>1. exchanges \in Seq(Exchange) /\ None \notin Words /\ \A i \in DOMAIN exchanges : exchanges[i] \in Exchange
  BY LenProperties, TalkAssumption DEF PageInv, PageType
<1>2. /\ exchanges' \in Seq(Exchange) /\ Len(exchanges') = Len(exchanges)
      /\ DOMAIN exchanges' = DOMAIN exchanges /\ DOMAIN exchanges = 1..Len(exchanges) /\ Len(exchanges) \in Nat
      /\ \A i \in DOMAIN exchanges : i # Len(exchanges) => exchanges'[i] = exchanges[i]
      /\ exchanges # <<>> => /\ Len(exchanges) \in DOMAIN exchanges
                            /\ exchanges'[Len(exchanges)].id = exchanges[Len(exchanges)].id
                            /\ exchanges'[Len(exchanges)].answer = answer
  BY <1>1, NotedFacts
<1>3. PageType'
  BY <1>2 DEF PageInv, PageType
<1>4. ASSUME NEW i \in DOMAIN exchanges'
      PROVE  Matches(exchanges[i])'
  <2>1. CASE i # Len(exchanges)
    BY <1>2, <2>1 DEF PageInv, Matches
  <2>2. CASE i = Len(exchanges)
    <3>1. exchanges # <<>>
      BY <1>1, <1>2, <2>2, EmptySeq
    <3>2. exchanges'[i].id = exchanges[i].id /\ exchanges'[i].answer = answer /\ Matches(exchanges[i])
      BY <1>2, <2>2, <3>1 DEF PageInv
    <3>3. waiting = a => a = exchanges[i].id
      BY <2>2, AskFacts DEF PageInv
    <3>4. answer \in {None, "nothing", posts[exchanges[i].id].words}
      <4>1. CASE answer = "nothing"
        BY <4>1
      <4>2. CASE answer # "nothing"
        <5>1. waiting = a
          BY <4>2
        <5> QED BY <3>3, <4>2, <5>1
      <4> QED BY <4>1, <4>2
    <3> QED BY <3>2, <3>4 DEF Matches
  <2> QED BY <2>1, <2>2
<1>5. ~stray' => timers' \subseteq {waiting'}
  BY DEF PageInv
<1>6. ASSUME NEW i \in DOMAIN exchanges, exchanges[i].answer \in Words, ~stray, exchanges'[i] # exchanges[i]
      PROVE  FALSE
  <2>1. i = Len(exchanges)
    BY <1>2, <1>6
  <2>2. waiting = a
    BY <1>6, AskFacts DEF PageInv
  <2> QED BY <1>1, <1>6, <2>1, <2>2, AskFacts DEF PageInv
<1>7. AnswersRest
  BY <1>6 DEF AnswersRest
<1> QED BY <1>3, <1>4, <1>5, <1>7 DEF PageInv

LEMMA ListStep ==
  ASSUME PageInv, PostsStay, NEW a \in Asks, posts[a].at # "new", UNCHANGED <<extras, fetching, playing>>,
         exchanges' = Listed(exchanges, a), phase' = "thinking", waiting' = a, timers' = timers \cup {a},
         stray' = (stray \/ timers # {})
  PROVE  PageInv' /\ AnswersRest
<1> DEFINE e == [id |-> a, answer |-> None]
<1>0. e \in Exchange
  BY DEF Exchange
<1>1. exchanges \in Seq(Exchange) /\ e \in Exchange /\ \A i \in DOMAIN exchanges : exchanges[i] \in Exchange
  BY <1>0, LenProperties DEF PageInv, PageType
<1>2. exchanges' = Append(exchanges, e) /\ e.id = a /\ e.answer = None
  BY DEF Listed
<1> HIDE DEF e
<1>3. /\ exchanges' \in Seq(Exchange) /\ Len(exchanges') = Len(exchanges) + 1
      /\ DOMAIN exchanges' = 1..Len(exchanges) + 1 /\ DOMAIN exchanges = 1..Len(exchanges)
      /\ Len(exchanges) \in Nat
      /\ \A i \in DOMAIN exchanges : exchanges'[i] = exchanges[i]
      /\ exchanges'[Len(exchanges) + 1] = e
  BY <1>1, <1>2, Longer
<1>4. PageType'
  <2>1. stray' \in BOOLEAN
    BY DEF PageInv, PageType
  <2> QED BY <1>3, <2>1 DEF PageInv, PageType
<1>5. ASSUME NEW i \in DOMAIN exchanges'
      PROVE  Matches(exchanges[i])'
  <2>1. CASE i \in DOMAIN exchanges
    BY <1>1, <1>3, <2>1 DEF PageInv, Matches, PostsStay, Exchange
  <2>2. CASE i \notin DOMAIN exchanges
    <3>1. exchanges'[i] = e
      BY <1>3, <2>2
    <3> QED BY <1>2, <3>1 DEF Matches, PostsStay
  <2> QED BY <2>1, <2>2
<1>6. exchanges' # <<>> /\ exchanges'[Len(exchanges')] = e
  BY <1>3
<1>7. ~stray' => timers' \subseteq {waiting'}
  OBVIOUS
<1>8. AnswersRest
  BY <1>3 DEF AnswersRest
<1> QED BY <1>2, <1>4, <1>5, <1>6, <1>7, <1>8 DEF PageInv

LEMMA LeavePage ==
  ASSUME PageInv, Leave
  PROVE  PageInv' /\ AnswersRest
<1>1. /\ phase' = "idle" /\ waiting' = None /\ timers' = {} /\ exchanges' = <<>>
      /\ fetching' = 0 /\ playing' = FALSE /\ extras > 0 /\ extras' = extras - 1 /\ stray' = stray
  BY DEF Leave
<1>2. extras' \in 0..MaxExtras
  BY <1>1, TalkAssumption DEF PageInv, PageType
<1>3. PageType'
  BY <1>1, <1>2, EmptySeq DEF PageInv, PageType
<1>4. DOMAIN exchanges' = {}
  BY <1>1
<1> QED BY <1>1, <1>3, <1>4 DEF PageInv, AnswersRest

-----------------------------------------------------------------------------
TalkInv == RecorderInv /\ PostsInv /\ RoomInv /\ PageInv

TalkStep == TalkInv' /\ AnswersRest

LEMMA TalkRests ==
  ASSUME PostsInv, RoomInv, PageInv, UNCHANGED talkVars
  PROVE  PostsInv' /\ RoomInv' /\ PageInv' /\ AnswersRest
<1>1. posts' = posts /\ UNCHANGED roomVars /\ UNCHANGED <<pageVars, extras, stray>>
  BY DEF talkVars
<1>2. PostsInv' /\ PostsStay
  BY <1>1, PostsRest
<1>3. RoomInv'
  BY <1>1, <1>2, RoomRests
<1>4. PageInv' /\ AnswersRest
  BY <1>1, <1>2, PageStill
<1> QED BY <1>2, <1>3, <1>4

LEMMA TalkStarts == Init => TalkInv
<1> SUFFICES ASSUME Init PROVE TalkInv
  OBVIOUS
<1> PICK b \in Budgets :
      /\ RecorderInit(b.takes)
      /\ phase = "idle" /\ waiting = None /\ timers = {} /\ exchanges = <<>>
      /\ fetching = 0 /\ playing = FALSE
      /\ posts = [a \in Asks |-> Request(IF a <= b.asks THEN "new" ELSE "over")]
      /\ expected = <<>> /\ pending = <<>> /\ wire = <<>>
      /\ extras = b.extras /\ stray = FALSE
  BY DEF Init
<1>1. RecorderInv
  BY RecorderStarts
<1>2. PostsInv
  BY DEF PostsInv, PostType, PostState, Request
<1>3. RoomInv
  <2>1. DOMAIN expected = {} /\ DOMAIN wire = {} /\ Len(expected) = 0 /\ Len(pending) = 0
    OBVIOUS
  <2> QED BY <2>1, EmptySeq, TalkAssumption DEF RoomInv, RoomType
<1>4. PageInv
  <2>1. extras \in 0..MaxExtras
    BY TalkAssumption
  <2>2. DOMAIN exchanges = {}
    OBVIOUS
  <2> QED BY <2>1, <2>2, EmptySeq DEF PageInv, PageType
<1> QED BY <1>1, <1>2, <1>3, <1>4 DEF TalkInv

LEMMA PersonSteps ==
  ASSUME TalkInv, Person
  PROVE  TalkStep
<1>0. RecorderInv /\ PostsInv /\ RoomInv /\ PageInv
  BY DEF TalkInv
<1>1. CASE Press
  <2>1. RecorderInv'
    <3>1. PressButton(phase \in {"idle", "speaking"})
      BY <1>1 DEF Press
    <3> QED BY <1>0, <3>1, PressStep
  <2>2. /\ UNCHANGED <<waiting, timers, exchanges, fetching, posts, roomVars, extras, stray>>
        /\ \/ playing' = FALSE /\ phase' = "idle"
           \/ UNCHANGED <<playing, phase>>
    BY <1>1 DEF Press
  <2>3. PostsInv' /\ PostsStay
    BY <1>0, <2>2, PostsRest
  <2>4. RoomInv'
    BY <1>0, <2>2, <2>3, RoomRests
  <2>5. PageInv' /\ AnswersRest
    <3>1. phase' \in {"idle", "sending", "thinking", "speaking"} /\ playing' \in BOOLEAN
      BY <1>0, <2>2 DEF PageInv, PageType
    <3>2. fetching' \in Nat /\ extras' \in 0..MaxExtras
      BY <1>0, <2>2 DEF PageInv, PageType
    <3> QED BY <1>0, <2>2, <2>3, <3>1, <3>2, PageRests
  <2> QED BY <2>1, <2>3, <2>4, <2>5 DEF TalkInv, TalkStep
<1>2. CASE Release
  <2>1. RecorderInv' /\ UNCHANGED talkVars
    BY <1>0, <1>2, ReleaseStep DEF Release
  <2> QED BY <1>0, <2>1, TalkRests DEF TalkStep, TalkInv
<1>3. CASE Replay
  <2>1. /\ UNCHANGED <<recorderVars, phase, waiting, timers, exchanges, playing, posts, roomVars, stray>>
        /\ extras > 0 /\ extras' = extras - 1 /\ fetching' = fetching + 1
    BY <1>3 DEF Replay
  <2>2. RecorderInv'
    BY <1>0, <2>1, RecorderRests
  <2>3. PostsInv' /\ PostsStay
    BY <1>0, <2>1, PostsRest
  <2>4. RoomInv'
    BY <1>0, <2>1, <2>3, RoomRests
  <2>5. PageInv' /\ AnswersRest
    <3>1. phase' \in {"idle", "sending", "thinking", "speaking"} /\ playing' \in BOOLEAN
      BY <1>0, <2>1 DEF PageInv, PageType
    <3>2. fetching' \in Nat /\ extras' \in 0..MaxExtras
      BY <1>0, <2>1, TalkAssumption DEF PageInv, PageType
    <3> QED BY <1>0, <2>1, <2>3, <3>1, <3>2, PageRests
  <2> QED BY <2>2, <2>3, <2>4, <2>5 DEF TalkInv, TalkStep
<1>4. CASE Leave
  <2>1. UNCHANGED roomVars /\ Remount
    BY <1>4 DEF Leave
  <2>2. RecorderInv'
    BY <1>0, <2>1, RemountStep
  <2>3. PostsInv' /\ PostsStay
    BY <1>0, <1>4, LeaveStep
  <2>4. RoomInv'
    BY <1>0, <2>1, <2>3, RoomRests
  <2>5. PageInv' /\ AnswersRest
    BY <1>0, <1>4, LeavePage
  <2> QED BY <2>2, <2>3, <2>4, <2>5 DEF TalkInv, TalkStep
<1>5. ASSUME NEW w \in Words, Type(w)
      PROVE  TalkStep
  <2>1. Fresh # {} /\ Post(w, FALSE, TRUE) /\ UNCHANGED <<recorderVars, pageVars, roomVars, extras, stray>>
    BY <1>5 DEF Type
  <2>2. RecorderInv'
    BY <1>0, <2>1, RecorderRests
  <2>3. PostsInv' /\ PostsStay
    BY <1>0, <2>1, PostStep
  <2>4. RoomInv'
    BY <1>0, <2>1, <2>3, RoomRests
  <2>5. PageInv' /\ AnswersRest
    BY <1>0, <2>1, <2>3, PageStill
  <2> QED BY <2>2, <2>3, <2>4, <2>5 DEF TalkInv, TalkStep
<1>6. ASSUME NEW w \in Words, OtherSays(w)
      PROVE  TalkStep
  <2>1. /\ extras > 0 /\ extras' = extras - 1 /\ Say(w, Other)
        /\ UNCHANGED <<recorderVars, pageVars, posts, wire, stray>>
    BY <1>6 DEF OtherSays
  <2>2. RecorderInv'
    BY <1>0, <2>1, RecorderRests
  <2>3. PostsInv' /\ PostsStay
    BY <1>0, <2>1, PostsRest
  <2>4. RoomInv'
    BY <1>0, <2>1, <2>3, SayStep
  <2>5. PageInv' /\ AnswersRest
    <3>1. phase' \in {"idle", "sending", "thinking", "speaking"} /\ playing' \in BOOLEAN
          /\ UNCHANGED <<waiting, timers, exchanges, stray>>
      BY <1>0, <2>1 DEF PageInv, PageType, pageVars
    <3>2. fetching' \in Nat /\ extras' \in 0..MaxExtras
      BY <1>0, <2>1, TalkAssumption DEF PageInv, PageType, pageVars
    <3> QED BY <1>0, <2>1, <2>3, <3>1, <3>2, PageRests
  <2> QED BY <2>2, <2>3, <2>4, <2>5 DEF TalkInv, TalkStep
<1> QED BY <1>1, <1>2, <1>3, <1>4, <1>5, <1>6 DEF Person

LEMMA CallbackSteps ==
  ASSUME TalkInv, Callbacks
  PROVE  TalkStep
<1>0. RecorderInv /\ PostsInv /\ RoomInv /\ PageInv
  BY DEF TalkInv
<1>1. ASSUME wire # <<>>
      PROVE  Head(wire) \in Asked /\ Speaks(Head(wire))
  <2>1. wire \in Seq(Asked)
    BY <1>0 DEF RoomInv, RoomType
  <2>2. Head(wire) \in Asked /\ Head(wire) = wire[1] /\ 1 \in DOMAIN wire
    <3>1. Head(wire) \in Asked /\ Head(wire) = wire[1] /\ Len(wire) >= 1
      BY <1>1, <2>1, Shorter
    <3> QED BY <2>1, <3>1, LenProperties
  <2> QED BY <1>0, <2>2 DEF RoomInv
<1>2. CASE OnReply
  <2> DEFINE a == Head(wire).id
             words == Head(wire).words
  <2>1. wire # <<>> /\ wire' = Tail(wire) /\ UNCHANGED <<recorderVars, posts, expected, pending, extras, stray>>
    BY <1>2 DEF OnReply
  <2>2. RecorderInv'
    BY <1>0, <2>1, RecorderRests
  <2>3. PostsInv' /\ PostsStay
    BY <1>0, <2>1, PostsRest
  <2>4. RoomInv'
    BY <1>0, <2>1, HearStep
  <2>5. CASE UNCHANGED pageVars
    BY <1>0, <2>1, <2>2, <2>3, <2>4, <2>5, PageStill DEF TalkInv, TalkStep
  <2>6. CASE ~UNCHANGED pageVars
    <3>1. a \in Asks \cup {Other} /\ words \in Words /\ (a # Other => posts[a].words = words)
      BY <1>1, <2>1 DEF Asked, Speaks
    <3>2. /\ Ours(a) /\ waiting' = None /\ timers' = timers \ {a} /\ exchanges' = Noted(exchanges, words)
          /\ \/ fetching' = fetching + 1 /\ UNCHANGED phase
             \/ phase' = "idle" /\ UNCHANGED fetching
          /\ UNCHANGED playing
      BY <1>2, <2>6 DEF OnReply, Cleared
    <3> HIDE DEF a, words
    <3>3. waiting = a /\ a \in Asks
      BY <1>0, <3>1, <3>2, AskFacts DEF Ours, PageInv, PageType
    <3>4. phase' \in {"idle", "sending", "thinking", "speaking"} /\ fetching' \in Nat
      BY <1>0, <3>2 DEF PageInv, PageType
    <3>5. posts' = posts /\ UNCHANGED <<extras, stray, playing>> /\ (waiting = a => words \in {"nothing", posts[a].words})
      BY <2>1, <3>1, <3>2, <3>3, AskFacts
    <3>6. PageInv' /\ AnswersRest
      BY <1>0, <3>1, <3>2, <3>3, <3>4, <3>5, NoteStep
    <3> QED BY <2>2, <2>3, <2>4, <3>6 DEF TalkInv, TalkStep
  <2> QED BY <2>5, <2>6
<1>3. CASE LoseReply
  <2>1. /\ wire # <<>> /\ wire' = Tail(wire)
        /\ UNCHANGED <<recorderVars, pageVars, posts, expected, pending, extras, stray>>
    BY <1>3 DEF LoseReply
  <2>2. RecorderInv'
    BY <1>0, <2>1, RecorderRests
  <2>3. PostsInv' /\ PostsStay
    BY <1>0, <2>1, PostsRest
  <2>4. RoomInv'
    BY <1>0, <2>1, HearStep
  <2>5. PageInv' /\ AnswersRest
    BY <1>0, <2>1, <2>3, PageStill
  <2> QED BY <2>2, <2>3, <2>4, <2>5 DEF TalkInv, TalkStep
<1>4. ASSUME /\ UNCHANGED <<recorderVars, waiting, timers, exchanges, posts, roomVars, extras, stray>>
             /\ phase' \in {"idle", "speaking"} /\ fetching' \in Nat /\ playing' \in BOOLEAN
      PROVE  TalkStep
  <2>1. RecorderInv'
    BY <1>0, <1>4, RecorderRests
  <2>2. PostsInv' /\ PostsStay
    BY <1>0, <1>4, PostsRest
  <2>3. RoomInv'
    BY <1>0, <1>4, <2>2, RoomRests
  <2>4. PageInv' /\ AnswersRest
    <3>1. extras' \in 0..MaxExtras /\ phase' \in {"idle", "sending", "thinking", "speaking"}
      BY <1>0, <1>4 DEF PageInv, PageType
    <3> QED BY <1>0, <1>4, <2>2, <3>1, PageRests
  <2> QED BY <2>1, <2>2, <2>3, <2>4 DEF TalkInv, TalkStep
<1>5. CASE Speak
  <2>1. fetching' \in Nat
    <3>1. fetching \in Nat /\ fetching > 0 /\ fetching' = fetching - 1
      BY <1>0, <1>5 DEF Speak, PageInv, PageType
    <3> QED BY <3>1
  <2>2. phase' \in {"idle", "speaking"} /\ playing' \in BOOLEAN
    BY <1>0, <1>5 DEF Speak, PageInv, PageType
  <2> QED BY <1>4, <1>5, <2>1, <2>2 DEF Speak
<1>6. CASE OnEnded
  <2>1. fetching' \in Nat /\ phase' \in {"idle", "speaking"} /\ playing' \in BOOLEAN
    BY <1>0, <1>6 DEF OnEnded, PageInv, PageType
  <2> QED BY <1>4, <1>6, <2>1 DEF OnEnded
<1>7. ASSUME NEW t \in Takes, Permit(t)
      PROVE  TalkStep
  <2>1. RecorderInv' /\ UNCHANGED talkVars
    BY <1>0, <1>7, GrantStep, EndStep DEF Permit
  <2> QED BY <1>0, <2>1, TalkRests DEF TalkStep, TalkInv
<1>8. ASSUME NEW t \in Takes, Send(t)
      PROVE  TalkStep
  <2>1. /\ Fresh # {} /\ Stopped(t) /\ phase' \in {phase, "sending"}
        /\ UNCHANGED <<waiting, timers, exchanges, fetching, playing, roomVars, extras, stray>>
    BY <1>8 DEF Send
  <2>2. PICK words \in Words : Post(words, TRUE, t \notin orphans)
    BY <1>8 DEF Send
  <2>3. RecorderInv'
    BY <1>0, <2>1, EndStep
  <2>4. PostsInv' /\ PostsStay
    <3>1. (t \notin orphans) \in BOOLEAN
      OBVIOUS
    <3> QED BY <1>0, <2>1, <2>2, <3>1, PostStep
  <2>5. RoomInv'
    BY <1>0, <2>1, <2>4, RoomRests
  <2>6. PageInv' /\ AnswersRest
    <3>1. /\ phase' \in {"idle", "sending", "thinking", "speaking"} /\ playing' \in BOOLEAN
          /\ fetching' \in Nat /\ extras' \in 0..MaxExtras
      BY <1>0, <2>1 DEF PageInv, PageType
    <3> QED BY <1>0, <2>1, <2>4, <3>1, PageRests
  <2> QED BY <2>3, <2>4, <2>5, <2>6 DEF TalkInv, TalkStep
<1>9. ASSUME NEW a \in Asks, OnResponse(a)
      PROVE  TalkStep
  <2>1. /\ posts[a].at \in {"accepted", "refused"} /\ posts' = [posts EXCEPT ![a].at = "over"]
        /\ UNCHANGED <<recorderVars, fetching, playing, roomVars, extras>>
    BY <1>9 DEF OnResponse
  <2>2. RecorderInv'
    BY <1>0, <2>1, RecorderRests
  <2>3. PostsInv' /\ PostsStay
    <3>1. "over" \in {"accepted", "refused", "over"} /\ posts[a].at \in {"sent", "accepted", "refused"}
      BY <2>1
    <3> QED BY <1>0, <2>1, <3>1, MoveStep
  <2>4. RoomInv'
    BY <1>0, <2>1, <2>3, RoomRests
  <2>5. PageInv' /\ AnswersRest
    <3>1. CASE posts[a].ours /\ posts[a].at = "accepted"
      <4>1. /\ exchanges' = Listed(exchanges, a) /\ phase' = "thinking" /\ waiting' = a
            /\ timers' = timers \cup {a} /\ stray' = (stray \/ timers # {})
        BY <1>9, <3>1 DEF OnResponse
      <4> QED BY <1>0, <2>1, <2>3, <4>1, ListStep
    <3>2. CASE ~(posts[a].ours /\ posts[a].at = "accepted")
      <4>1. phase' \in {"idle", phase} /\ UNCHANGED <<exchanges, waiting, timers, stray>>
        BY <1>9, <3>2 DEF OnResponse
      <4>2. /\ phase' \in {"idle", "sending", "thinking", "speaking"} /\ playing' \in BOOLEAN
            /\ fetching' \in Nat /\ extras' \in 0..MaxExtras
        BY <1>0, <2>1, <4>1 DEF PageInv, PageType
      <4> QED BY <1>0, <2>3, <4>1, <4>2, PageRests
    <3> QED BY <3>1, <3>2
  <2> QED BY <2>2, <2>3, <2>4, <2>5 DEF TalkInv, TalkStep
<1>10. ASSUME NEW a \in Asks, GiveUp(a)
       PROVE  TalkStep
  <2>1. /\ a \in timers /\ timers' = timers \ {a} /\ waiting' = None /\ exchanges' = Noted(exchanges, "nothing")
        /\ phase' = "idle" /\ UNCHANGED <<recorderVars, fetching, playing, posts, roomVars, extras, stray>>
    BY <1>10 DEF GiveUp
  <2>2. RecorderInv'
    BY <1>0, <2>1, RecorderRests
  <2>3. PostsInv' /\ PostsStay
    BY <1>0, <2>1, PostsRest
  <2>4. RoomInv'
    BY <1>0, <2>1, <2>3, RoomRests
  <2>5. fetching' \in Nat
    BY <1>0, <2>1 DEF PageInv, PageType
  <2>6. PageInv' /\ AnswersRest
    BY <1>0, <2>1, <2>5, NoteStep
  <2> QED BY <2>2, <2>3, <2>4, <2>6 DEF TalkInv, TalkStep
<1> QED BY <1>2, <1>3, <1>5, <1>6, <1>7, <1>8, <1>9, <1>10 DEF Callbacks

LEMMA RoomSteps ==
  ASSUME TalkInv, Room
  PROVE  TalkStep
<1>0. RecorderInv /\ PostsInv /\ RoomInv /\ PageInv
  BY DEF TalkInv
<1>1. CASE Answer
  <2>1. UNCHANGED <<recorderVars, pageVars, posts, extras, stray>>
    BY <1>1 DEF Answer
  <2>2. RecorderInv'
    BY <1>0, <2>1, RecorderRests
  <2>3. PostsInv' /\ PostsStay
    BY <1>0, <2>1, PostsRest
  <2>4. RoomInv'
    BY <1>0, <1>1, AnswerStep
  <2>5. PageInv' /\ AnswersRest
    BY <1>0, <2>1, <2>3, PageStill
  <2> QED BY <2>2, <2>3, <2>4, <2>5 DEF TalkInv, TalkStep
<1>2. ASSUME NEW a \in Asks, PostTalk(a)
      PROVE  TalkStep
  <2>1. posts[a].at = "sent" /\ UNCHANGED <<recorderVars, pageVars, wire, extras, stray>>
    BY <1>2 DEF PostTalk
  <2>2. RecorderInv'
    BY <1>0, <2>1, RecorderRests
  <2>3. PICK next \in {"accepted", "refused"} :
          /\ posts' = [posts EXCEPT ![a].at = next]
          /\ \/ Say(posts[a].words, a)
             \/ UNCHANGED <<expected, pending>>
    BY <1>2 DEF PostTalk
  <2>4. PostsInv' /\ PostsStay
    BY <1>0, <2>1, <2>3, MoveStep
  <2>5. posts[a].words \in Words /\ posts'[a].at # "new" /\ posts'[a].words = posts[a].words
    BY <1>0, <2>1, <2>4 DEF PostsInv, PostsStay
  <2>6. RoomInv'
    <3>1. CASE Say(posts[a].words, a)
      BY <1>0, <2>1, <2>4, <2>5, <3>1, SayStep
    <3>2. CASE UNCHANGED <<expected, pending>>
      BY <1>0, <2>1, <2>4, <3>2, RoomRests DEF roomVars
    <3> QED BY <2>3, <3>1, <3>2
  <2>7. PageInv' /\ AnswersRest
    BY <1>0, <2>1, <2>4, PageStill
  <2> QED BY <2>2, <2>4, <2>6, <2>7 DEF TalkInv, TalkStep
<1> QED BY <1>1, <1>2 DEF Room

LEMMA TalkSteps == TalkInv /\ [Next]_vars => TalkStep
<1>1. ASSUME TalkInv, UNCHANGED vars PROVE TalkStep
  <2>1. UNCHANGED recorderVars /\ UNCHANGED talkVars
    BY <1>1 DEF vars
  <2> QED BY <1>1, <2>1, RecorderRests, TalkRests DEF TalkInv, TalkStep
<1> QED BY <1>1, PersonSteps, CallbackSteps, RoomSteps DEF Next

LEMMA TalkShows == TalkInv => TypeOK /\ MicrophoneIsShown /\ AnswersMatch /\ WaitsForTheLast
<1> SUFFICES ASSUME TalkInv PROVE TypeOK /\ MicrophoneIsShown /\ AnswersMatch /\ WaitsForTheLast
  OBVIOUS
<1>0. RecorderInv /\ PostsInv /\ RoomInv /\ PageInv
  BY DEF TalkInv
<1>1. RecorderTypeOK /\ MicrophoneIsShown
  BY <1>0, RecorderShows
<1>2. TypeOK
  BY <1>0, <1>1 DEF TypeOK, PostsInv, PostType, RoomInv, RoomType, Asked, PageInv, PageType, Exchange
<1>3. AnswersMatch
  BY <1>0 DEF AnswersMatch, PageInv, Matches
<1>4. WaitsForTheLast
  BY <1>0 DEF WaitsForTheLast, PageInv, Last
<1> QED BY <1>1, <1>2, <1>3, <1>4

(* Whatever is pressed, said, answered, lost or timed out, on however many  *)
(* visits to the page: an open microphone is shown, the answer beside a     *)
(* question is an answer to it, what is waited for is the last that was     *)
(* asked, and an answer that was shown is not taken back (useRecorder.ts,   *)
(* useRemoteTalk.ts, console state.py, reasoning utterance.py).             *)
THEOREM TalkKept == Spec => TalkIsTrue
<1>1. Init => TalkInv
  BY TalkStarts
<1>2. TalkInv /\ [Next]_vars => TalkInv'
  BY TalkSteps DEF TalkStep
<1>3. TalkInv => TypeOK /\ MicrophoneIsShown /\ AnswersMatch /\ WaitsForTheLast
  BY TalkShows
<1>4. TalkInv /\ [Next]_vars =>
        [\A i \in DOMAIN exchanges : exchanges[i].answer \in Words =>
            stray \/ exchanges' = <<>> \/ exchanges'[i] = exchanges[i]]_vars
  BY TalkSteps DEF TalkStep, AnswersRest
<1> QED BY <1>1, <1>2, <1>3, <1>4, PTL DEF Spec, TalkIsTrue, AnswerStays

-----------------------------------------------------------------------------
(* A message to the room. *)

OneEach(records) == \A i, j \in DOMAIN records : records[i].m = records[j].m => i = j

(* An answer on the board is in the desk's record, if it has one.          *)
Coherent ==
  \A m \in Message :
    status[m] # Nobody /\ status[m].replied /\ m \notin forgotten /\ Knows(desk, m) => Answered(desk, m)

(* The message being sent is new to its page.                              *)
SentBefore ==
  /\ sending = "posted" => count < MaxMessages
  /\ sending \in {"kept", "pruned"} => count > 0 /\ count \notin ToSet(sent)
  /\ \A i \in DOMAIN sent : sent[i] <= count

(* Nothing is known of a message that has not been sent.                   *)
Numbered ==
  /\ \A m \in Message : m > count => status[m] = Nobody
  /\ \A m \in Message : Knows(desk, m) => m <= count
  /\ \A r \in recalled : r.m <= count
  /\ \A i \in DOMAIN handovers : handovers[i] <= count

HomeInv == HomeTypeOK /\ OneEach(desk) /\ StillAnswered /\ Coherent /\ SentBefore /\ Numbered

(* What ReplyStays asks of one step. *)
ReplyStep ==
  \A m \in Message : status[m] # Nobody /\ status[m].replied =>
    status'[m] = Nobody \/ status'[m].replied \/ m \in forgotten'

LEMMA Numbers ==
  /\ MaxMessages \in Nat /\ MaxReplays \in Nat /\ MaxRestarts \in Nat
  /\ MaxKept \in Nat \ {0} /\ VoiceCap \in Nat \ {0} /\ SentKept \in Nat \ {0}
  /\ Nobody \notin Message
BY HomeAssumption DEF Message

(* Records by their place. *)
LEMMA InRecords ==
  ASSUME NEW d \in Seq(Record), NEW m
  PROVE  /\ DOMAIN d = 1..Len(d) /\ Len(d) \in Nat
         /\ \A i \in DOMAIN d : d[i] \in Record /\ d[i].m \in Message /\ d[i].replied \in BOOLEAN
         /\ Knows(d, m) <=> \E i \in DOMAIN d : d[i].m = m
         /\ Answered(d, m) <=> \E i \in DOMAIN d : d[i].m = m /\ d[i].replied
<1>1. /\ DOMAIN d = 1..Len(d) /\ Len(d) \in Nat
      /\ \A i \in DOMAIN d : d[i] \in Record
  BY LenProperties, ElementOfSeq
<1>2. \A i \in DOMAIN d : d[i].m \in Message /\ d[i].replied \in BOOLEAN /\ d[i] = [m |-> d[i].m, replied |-> d[i].replied]
  BY <1>1 DEF Record
<1>3. Knows(d, m) <=> \E i \in DOMAIN d : d[i].m = m
  BY DEF Knows, ToSet
<1>4. Answered(d, m) <=> \E i \in DOMAIN d : d[i] = [m |-> m, replied |-> TRUE]
  BY DEF Answered, ToSet
<1>5. \A i \in DOMAIN d : d[i] = [m |-> m, replied |-> TRUE] <=> d[i].m = m /\ d[i].replied
  BY <1>2
<1> QED BY <1>1, <1>2, <1>3, <1>4, <1>5

LEMMA Joined ==
  ASSUME NEW S, NEW s \in Seq(S), NEW x \in S, NEW t, t = Append(s, x)
  PROVE  /\ t \in Seq(S) /\ Len(t) = Len(s) + 1 /\ DOMAIN t = 1..(Len(s) + 1)
         /\ \A i \in 1..Len(s) : t[i] = s[i]
         /\ t[Len(s) + 1] = x
BY AppendProperties, LenProperties

LEMMA WithoutFirst ==
  ASSUME NEW S, NEW s \in Seq(S), s # <<>>, NEW t, t = Tail(s)
  PROVE  /\ t \in Seq(S) /\ Len(t) = Len(s) - 1 /\ DOMAIN t = 1..(Len(s) - 1)
         /\ \A i \in 1..(Len(s) - 1) : t[i] = s[i + 1]
         /\ Head(s) \in S
BY HeadTailProperties, LenProperties

LEMMA Remembers ==
  ASSUME NEW d \in Seq(Record), Len(d) <= MaxKept, OneEach(d),
         NEW m \in Message, NEW b \in BOOLEAN, NEW e, e = OnStatus(d, m, b)
  PROVE  /\ e \in Seq(Record) /\ Len(e) <= MaxKept /\ OneEach(e)
         /\ Knows(d, m) => e = d
         /\ \A n \in Message : Knows(e, n) =>
              \/ Knows(d, n) /\ (Answered(d, n) => Answered(e, n))
              \/ n = m /\ ~Knows(d, m) /\ (b => Answered(e, n))
<1>1. CASE Knows(d, m)
  BY <1>1 DEF OnStatus
<1>2. CASE ~Knows(d, m)
  <2> DEFINE x == [m |-> m, replied |-> b]
  <2> DEFINE more == Append(d, x)
  <2>1. x \in Record /\ x.m = m /\ x.replied = b
    BY DEF Record
  <2>2. e = IF Len(more) > MaxKept THEN Tail(more) ELSE more
    BY <1>2 DEF OnStatus, Remember
  <2> HIDE DEF x
  <2>3. /\ more \in Seq(Record) /\ Len(more) = Len(d) + 1 /\ DOMAIN more = 1..(Len(d) + 1)
        /\ \A i \in 1..Len(d) : more[i] = d[i]
        /\ more[Len(d) + 1] = x
    BY <2>1, Joined
  <2> HIDE DEF more
  <2>4. DOMAIN d = 1..Len(d) /\ Len(d) \in Nat /\ \A i \in DOMAIN d : d[i].m # m
    BY <1>2, InRecords
  <2>5. OneEach(more)
    BY <2>1, <2>3, <2>4 DEF OneEach
  <2>6. \E k \in {0, 1} : /\ e \in Seq(Record) /\ Len(e) = Len(more) - k /\ Len(e) <= MaxKept
                          /\ DOMAIN e = 1..(Len(more) - k) /\ \A i \in DOMAIN e : e[i] = more[i + k]
    <3>1. CASE Len(more) > MaxKept
      <4>1. e = Tail(more) /\ more # <<>>
        BY <2>2, <2>3, <2>4, <3>1
      <4>2. /\ e \in Seq(Record) /\ Len(e) = Len(more) - 1 /\ DOMAIN e = 1..(Len(more) - 1)
            /\ \A i \in 1..(Len(more) - 1) : e[i] = more[i + 1]
        BY <2>3, <4>1, WithoutFirst
      <4>3. Len(e) <= MaxKept
        BY <2>3, <2>4, <4>2, Numbers
      <4> QED BY <4>2, <4>3
    <3>2. CASE ~(Len(more) > MaxKept)
      <4>1. e = more
        BY <2>2, <3>2
      <4>2. Len(e) <= MaxKept
        BY <2>3, <2>4, <3>2, <4>1, Numbers
      <4>3. DOMAIN e = 1..(Len(more) - 0) /\ Len(e) = Len(more) - 0 /\ \A i \in DOMAIN e : e[i] = more[i + 0]
        BY <2>3, <2>4, <4>1
      <4> QED BY <2>3, <4>1, <4>2, <4>3
    <3> QED BY <3>1, <3>2
  <2>7. PICK k \in {0, 1} : /\ e \in Seq(Record) /\ Len(e) = Len(more) - k /\ Len(e) <= MaxKept
                            /\ DOMAIN e = 1..(Len(more) - k) /\ \A i \in DOMAIN e : e[i] = more[i + k]
    BY <2>6
  <2>8. \A i \in DOMAIN e : i \in Nat /\ i + k \in DOMAIN more
    BY <2>3, <2>4, <2>7
  <2>9. OneEach(e)
    BY <2>5, <2>7, <2>8 DEF OneEach
  <2>10. ASSUME NEW n \in Message, Knows(e, n)
         PROVE  \/ Knows(d, n) /\ (Answered(d, n) => Answered(e, n))
                \/ n = m /\ ~Knows(d, m) /\ (b => Answered(e, n))
    <3>1. PICK i \in DOMAIN e : e[i].m = n
      BY <2>7, <2>10, InRecords
    <3>2. i + k \in DOMAIN more /\ e[i] = more[i + k]
      BY <2>7, <2>8
    <3>3. CASE i + k = Len(d) + 1
      <4>1. e[i] = x
        BY <2>3, <3>2, <3>3
      <4>2. n = m /\ (b => e[i].replied)
        BY <2>1, <3>1, <4>1
      <4> QED BY <1>2, <2>7, <3>1, <4>2, InRecords
    <3>4. CASE i + k # Len(d) + 1
      <4>1. i + k \in DOMAIN d /\ e[i] = d[i + k]
        BY <2>3, <2>4, <3>2, <3>4
      <4>2. Knows(d, n)
        BY <3>1, <4>1, InRecords
      <4>3. ASSUME Answered(d, n) PROVE Answered(e, n)
        <5>1. PICK j \in DOMAIN d : d[j].m = n /\ d[j].replied
          BY <4>3, InRecords
        <5>2. j = i + k
          BY <3>1, <4>1, <5>1 DEF OneEach
        <5> QED BY <2>7, <3>1, <4>1, <5>1, <5>2, InRecords
      <4> QED BY <4>2, <4>3
    <3> QED BY <3>3, <3>4
  <2> QED BY <1>2, <2>7, <2>9, <2>10
<1> QED BY <1>1, <1>2

LEMMA Tells ==
  ASSUME status \in [Message -> Status \cup {Nobody}], NEW d \in Seq(Record), NEW m \in Message,
         NEW state \in {"sent", "playing", "played", "replied", "failed"}, Tell(d, m, state)
  PROVE  /\ status' \in [Message -> Status \cup {Nobody}]
         /\ \A n \in Message : n # m \/ ~Knows(d, m) => status'[n] = status[n]
         /\ Knows(d, m) => status'[m] = [state |-> state, replied |-> Answered(d, m)]
         /\ Knows(d, m) => status'[m].state = state /\ status'[m].replied = Answered(d, m)
<1> DEFINE r == [state |-> state, replied |-> Answered(d, m)]
<1>1. Answered(d, m) \in BOOLEAN
  BY DEF Answered
<1>2. r \in Status /\ r.state = state /\ r.replied = Answered(d, m)
  BY <1>1 DEF Status
<1> HIDE DEF r
<1>3. status' = IF Knows(d, m) THEN [status EXCEPT ![m] = r] ELSE status
  BY DEF Tell, r
<1> QED BY <1>2, <1>3 DEF r

LEMMA HomeStarts == HomeInit => HomeInv
<1> SUFFICES ASSUME HomeInit PROVE HomeInv
  OBVIOUS
<1>1. /\ DOMAIN <<>> = {} /\ Len(<<>>) = 0 /\ \A S : <<>> \in Seq(S)
  BY EmptySeq
<1>2. /\ sent = <<>> /\ handovers = <<>> /\ desk = <<>> /\ queue = <<>>
      /\ status = [m \in Message |-> Nobody] /\ count = 0 /\ sending = "no"
      /\ files = {} /\ recalled = {} /\ missed = {} /\ forgotten = {}
      /\ awake = TRUE /\ onAir = Nobody /\ window = Nobody
      /\ replays = MaxReplays /\ restarts = MaxRestarts
  BY DEF HomeInit
<1>3. HomeTypeOK
  BY <1>1, <1>2, Numbers DEF HomeTypeOK, IsInjective
<1>4. OneEach(desk)
  BY <1>1, <1>2 DEF OneEach
<1>5. StillAnswered /\ Coherent
  BY <1>2 DEF StillAnswered, Coherent
<1>6. SentBefore
  BY <1>1, <1>2 DEF SentBefore
<1>7. Numbered
  <2>1. \A m : ~Knows(desk, m)
    BY <1>1, <1>2 DEF Knows, ToSet
  <2> QED BY <1>1, <1>2, <2>1 DEF Numbered
<1> QED BY <1>3, <1>4, <1>5, <1>6, <1>7 DEF HomeInv

LEMMA RemembersNow ==
  ASSUME HomeInv, NEW m \in Message, NEW b \in BOOLEAN, desk' = OnStatus(desk, m, b)
  PROVE  /\ desk' \in Seq(Record) /\ Len(desk') <= MaxKept /\ OneEach(desk')
         /\ Knows(desk, m) => desk' = desk
         /\ \A n \in Message : Knows(desk', n) =>
              \/ Knows(desk, n) /\ (Answered(desk, n) => Answered(desk', n))
              \/ n = m /\ ~Knows(desk, m) /\ (b => Answered(desk', n))
<1> DEFINE e == desk'
<1>1. desk \in Seq(Record) /\ Len(desk) <= MaxKept /\ OneEach(desk)
  BY DEF HomeInv, HomeTypeOK
<1>2. e = OnStatus(desk, m, b)
  OBVIOUS
<1> HIDE DEF e
<1>3. /\ e \in Seq(Record) /\ Len(e) <= MaxKept /\ OneEach(e)
      /\ Knows(desk, m) => e = desk
      /\ \A n \in Message : Knows(e, n) =>
           \/ Knows(desk, n) /\ (Answered(desk, n) => Answered(e, n))
           \/ n = m /\ ~Knows(desk, m) /\ (b => Answered(e, n))
  BY <1>1, <1>2, Remembers
<1> QED BY <1>3 DEF e

-----------------------------------------------------------------------------
(* A step that leaves the desk and every status as it is.                  *)
LEMMA Untold ==
  ASSUME HomeInv, UNCHANGED <<status, desk, forgotten>>, HomeTypeOK', SentBefore', Numbered'
  PROVE  HomeInv' /\ ReplyStep
BY DEF HomeInv, OneEach, StillAnswered, Coherent, Knows, Answered, ReplyStep

(* The counters and the rest, where the step does not touch them.          *)
LEMMA Evictions == Evicted \subseteq Message
BY DEF Evicted

LEMMA Kept ==
  ASSUME HomeInv, Keep
  PROVE  HomeInv' /\ ReplyStep
<1> DEFINE m == count + 1
           s == [state |-> "sent", replied |-> FALSE]
<1>1. HomeTypeOK /\ OneEach(desk) /\ StillAnswered /\ Coherent /\ SentBefore /\ Numbered
  BY DEF HomeInv
<1>2. /\ sending = "posted" /\ sending' = "kept" /\ count' = m /\ files' = files \cup {m}
      /\ status' = [status EXCEPT ![m] = s]
      /\ desk' = IF awake THEN OnStatus(desk, m, FALSE) ELSE desk
      /\ handovers' = IF awake THEN Append(handovers, m) ELSE handovers
      /\ missed' = IF awake THEN (missed \ {m}) \cup Evicted ELSE missed \cup {m}
      /\ UNCHANGED <<sent, awake, recalled, queue, onAir, window, replays, restarts, forgotten>>
  BY DEF Keep, HandOver, budgets
<1>3. count \in Nat /\ m \in Message /\ m > 0 /\ count <= MaxMessages /\ m <= MaxMessages
  BY <1>1, <1>2, Numbers DEF HomeTypeOK, SentBefore, Message
<1>4. s \in Status /\ s.replied = FALSE /\ s.state = "sent"
  BY DEF Status
<1>5. /\ desk' \in Seq(Record) /\ Len(desk') <= MaxKept /\ OneEach(desk')
      /\ \A n \in Message : n # m /\ Knows(desk', n) =>
           Knows(desk, n) /\ (Answered(desk, n) => Answered(desk', n))
  <2>1. desk \in Seq(Record) /\ Len(desk) <= MaxKept
    BY <1>1 DEF HomeTypeOK
  <2>2. CASE awake
    <3>1. desk' = OnStatus(desk, m, FALSE) /\ m \in Message
      BY <1>2, <1>3, <2>2
    <3> HIDE DEF m
    <3> QED BY <3>1, RemembersNow
  <2>3. CASE ~awake
    BY <1>1, <1>2, <2>1, <2>3
  <2> QED BY <2>2, <2>3
<1> HIDE DEF m, s
<1>6. /\ status' \in [Message -> Status \cup {Nobody}] /\ status'[m] = s
      /\ \A n \in Message : n # m => status'[n] = status[n]
  BY <1>1, <1>2, <1>3, <1>4 DEF HomeTypeOK
<1>7. handovers' \in Seq(Message)
  BY <1>1, <1>2, <1>3, AppendProperties DEF HomeTypeOK
<1>8. missed' \subseteq Message
  BY <1>1, <1>2, <1>3, Evictions DEF HomeTypeOK
<1>9. count' \in 0..MaxMessages /\ files' \subseteq 1..count'
  BY <1>1, <1>2, <1>3 DEF HomeTypeOK, m
<1>10. HomeTypeOK'
  BY <1>1, <1>2, <1>5, <1>6, <1>7, <1>8, <1>9 DEF HomeTypeOK
<1>11. StillAnswered' /\ ReplyStep
  <2>1. status[m] = Nobody
    BY <1>1, <1>3 DEF Numbered, m
  <2>2. \A n \in Message : n = m \/ status'[n] = status[n]
    BY <1>6
  <2>3. StillAnswered'
    BY <1>1, <1>4, <1>6, <2>2 DEF StillAnswered
  <2>4. ReplyStep
    BY <2>1, <2>2 DEF ReplyStep
  <2> QED BY <2>3, <2>4
<1>12. Coherent'
  BY <1>1, <1>2, <1>4, <1>5, <1>6 DEF Coherent
<1>13. SentBefore'
  <2>1. \A i \in DOMAIN sent : sent[i] \in Nat /\ sent[i] <= count
    <3>1. sent \in Seq(Message) /\ \A i \in DOMAIN sent : sent[i] \in Message
      BY <1>1, ElementOfSeq, LenProperties DEF HomeTypeOK
    <3> QED BY <1>1, <3>1 DEF SentBefore, Message
  <2>2. count' \notin ToSet(sent)
    BY <1>2, <1>3, <2>1 DEF ToSet, m
  <2> QED BY <1>2, <1>3, <2>1, <2>2 DEF SentBefore, m
<1>14. Numbered'
  <2>1. \A n \in Message : n > count' => n > count /\ n # m
    BY <1>2, <1>3 DEF m, Message
  <2>2. \A n \in Message : n > count' => status'[n] = Nobody
    BY <1>1, <1>6, <2>1 DEF Numbered
  <2>3. \A n \in Message : Knows(desk', n) => n <= count'
    <3>1. \A n \in Message : n \in Nat /\ (n = m => n <= count') /\ (n <= count => n <= count')
      BY <1>2, <1>3 DEF m, Message
    <3> QED BY <1>1, <1>5, <3>1 DEF Numbered
  <2>4. \A q \in recalled' : q.m <= count'
    <3>1. \A q \in recalled : q.m \in Nat
      BY <1>1 DEF HomeTypeOK, Record, Message
    <3> QED BY <1>1, <1>2, <1>3, <3>1 DEF Numbered, m
  <2>5. \A i \in DOMAIN handovers' : handovers'[i] <= count'
    <3>0. handovers \in Seq(Message) /\ \A i \in DOMAIN handovers : handovers[i] \in Message
      BY <1>1, ElementOfSeq, LenProperties DEF HomeTypeOK
    <3>1. handovers \in Seq(Message) /\ \A i \in DOMAIN handovers : handovers[i] \in Nat
      BY <3>0 DEF Message
    <3>2. CASE awake
      <4>1. /\ DOMAIN handovers' = 1..(Len(handovers) + 1) /\ DOMAIN handovers = 1..Len(handovers)
            /\ \A i \in 1..Len(handovers) : handovers'[i] = handovers[i]
            /\ handovers'[Len(handovers) + 1] = m /\ Len(handovers) \in Nat
        BY <1>2, <1>3, <3>1, <3>2, Joined, LenProperties
      <4>2. \A i \in DOMAIN handovers' : i \in DOMAIN handovers \/ i = Len(handovers) + 1
        BY <4>1
      <4> QED BY <1>1, <1>2, <1>3, <3>1, <4>1, <4>2 DEF Numbered, m
    <3> QED BY <1>1, <1>2, <1>3, <3>1, <3>2 DEF Numbered, m
  <2> QED BY <2>2, <2>3, <2>4, <2>5 DEF Numbered
<1> QED BY <1>1, <1>5, <1>10, <1>11, <1>12, <1>13, <1>14 DEF HomeInv

(* What waits in a sequence of messages is a message. *)
LEMMA Waiting ==
  ASSUME NEW q \in Seq(Message)
  PROVE  /\ DOMAIN q = 1..Len(q) /\ Len(q) \in Nat /\ \A i \in DOMAIN q : q[i] \in Message /\ q[i] \in Nat
         /\ ToSet(q) \subseteq Message
<1>1. DOMAIN q = 1..Len(q) /\ Len(q) \in Nat /\ \A i \in DOMAIN q : q[i] \in Message
  BY ElementOfSeq, LenProperties
<1>2. \A x \in Message : x \in Nat
  BY DEF Message
<1> QED BY <1>1, <1>2 DEF ToSet

LEMMA AtThePage ==
  ASSUME HomeInv, PressSend \/ OnRefused \/ OnSent \/ \E m \in Message : PlayAgain(m)
  PROVE  HomeInv' /\ ReplyStep
<1>1. HomeTypeOK /\ SentBefore /\ Numbered
  BY DEF HomeInv
<1>2. CASE PressSend
  <2>1. HomeTypeOK' /\ Numbered' /\ SentBefore'
    BY <1>1, <1>2 DEF PressSend, HomeTypeOK, Numbered, SentBefore, speech, budgets, Knows
  <2> QED BY <1>2, <2>1, Untold DEF PressSend, speech
<1>3. CASE OnRefused
  <2>1. HomeTypeOK' /\ Numbered' /\ SentBefore'
    BY <1>1, <1>3 DEF OnRefused, HomeTypeOK, Numbered, SentBefore, speech, budgets, Knows
  <2> QED BY <1>3, <2>1, Untold DEF OnRefused, speech
<1>4. CASE OnSent
  <2> DEFINE next == Append(sent, count)
  <2>1. /\ sending = "pruned" /\ sending' = "no" /\ sent' = IF Len(next) > SentKept THEN Tail(next) ELSE next
        /\ UNCHANGED <<count, files, status, handovers, speech, budgets, missed, forgotten>>
    BY <1>4 DEF OnSent
  <2>2. sent \in Seq(Message) /\ Len(sent) <= SentKept /\ IsInjective(sent) /\ count \in 0..MaxMessages
    BY <1>1 DEF HomeTypeOK
  <2>3. count \in Message /\ count \notin ToSet(sent) /\ \A i \in DOMAIN sent : sent[i] <= count
    BY <1>1, <2>1, <2>2, Numbers DEF SentBefore, Message
  <2>4. /\ next \in Seq(Message) /\ Len(next) = Len(sent) + 1 /\ DOMAIN next = 1..(Len(sent) + 1)
        /\ \A i \in 1..Len(sent) : next[i] = sent[i]
        /\ next[Len(sent) + 1] = count
    BY <2>2, <2>3, Joined
  <2>5. DOMAIN sent = 1..Len(sent) /\ Len(sent) \in Nat
    BY <2>2, Waiting
  <2> HIDE DEF next
  <2>6. \A i, j \in DOMAIN next : next[i] = next[j] => i = j
    <3>1. \A i \in DOMAIN next : i \in DOMAIN sent \/ i = Len(sent) + 1
      BY <2>4, <2>5
    <3>2. \A i, j \in DOMAIN sent : sent[i] = sent[j] => i = j
      BY <2>2 DEF IsInjective
    <3>3. \A i \in DOMAIN sent : sent[i] # count
      BY <2>3 DEF ToSet
    <3> QED BY <2>4, <2>5, <3>1, <3>2, <3>3
  <2>7. \A i \in DOMAIN next : next[i] <= count
    BY <2>2, <2>3, <2>4, <2>5
  <2>8. /\ sent' \in Seq(Message) /\ Len(sent') <= SentKept /\ IsInjective(sent')
        /\ \A i \in DOMAIN sent' : sent'[i] <= count
    <3>1. CASE Len(next) > SentKept
      <4>0. sent' = Tail(next) /\ next # <<>>
        BY <2>1, <2>4, <2>5, <3>1
      <4>1. /\ sent' \in Seq(Message) /\ Len(sent') = Len(next) - 1 /\ DOMAIN sent' = 1..(Len(next) - 1)
            /\ \A i \in 1..(Len(next) - 1) : sent'[i] = next[i + 1]
        BY <2>4, <4>0, WithoutFirst
      <4>2. \A i \in DOMAIN sent' : i \in Nat /\ i + 1 \in DOMAIN next
        BY <2>4, <2>5, <4>1
      <4>3. IsInjective(sent')
        BY <2>6, <4>1, <4>2 DEF IsInjective
      <4>4. Len(sent') <= SentKept
        BY <2>2, <2>4, <2>5, <4>1
      <4> QED BY <2>7, <4>1, <4>2, <4>3, <4>4
    <3>2. CASE ~(Len(next) > SentKept)
      <4>1. sent' = next
        BY <2>1, <3>2
      <4>2. IsInjective(sent')
        BY <2>6, <4>1 DEF IsInjective
      <4>3. Len(sent') <= SentKept
        BY <2>4, <2>5, <3>2, <4>1, Numbers
      <4> QED BY <2>4, <2>7, <4>1, <4>2, <4>3
    <3> QED BY <3>1, <3>2
  <2>9. HomeTypeOK' /\ Numbered'
    BY <1>1, <2>1, <2>8 DEF HomeTypeOK, Numbered, speech, budgets, Knows
  <2>10. SentBefore'
    BY <2>1, <2>8 DEF SentBefore
  <2> QED BY <2>1, <2>9, <2>10, Untold DEF speech
<1>5. ASSUME NEW m \in Message, PlayAgain(m) PROVE HomeInv' /\ ReplyStep
  <2>1. /\ m \in files /\ replays > 0 /\ replays' = replays - 1
        /\ UNCHANGED <<sending, sent, count, files, status, awake, desk, recalled, queue, onAir, window, restarts, forgotten>>
        /\ handovers' = IF awake THEN Append(handovers, m) ELSE handovers
        /\ missed' = IF awake THEN (missed \ {m}) \cup Evicted ELSE missed \cup {m}
    BY <1>5 DEF PlayAgain, HandOver, home, speech
  <2>2. handovers \in Seq(Message) /\ m <= count /\ count \in Nat
    BY <1>1, <2>1 DEF HomeTypeOK
  <2>3. missed' \subseteq Message /\ replays' \in 0..MaxReplays
    BY <1>1, <1>5, <2>1, Evictions, Numbers DEF HomeTypeOK
  <2>4. handovers' \in Seq(Message) /\ \A i \in DOMAIN handovers' : handovers'[i] <= count
    <3>1. CASE awake
      <4>1. /\ handovers' \in Seq(Message) /\ DOMAIN handovers' = 1..(Len(handovers) + 1) 
            /\ \A i \in 1..Len(handovers) : handovers'[i] = handovers[i]
            /\ handovers'[Len(handovers) + 1] = m
        BY <2>1, <2>2, <3>1, Joined
      <4>2. DOMAIN handovers = 1..Len(handovers) /\ Len(handovers) \in Nat
        BY <2>2, Waiting
      <4>3. \A i \in DOMAIN handovers' : i \in DOMAIN handovers \/ i = Len(handovers) + 1
        BY <4>1, <4>2
      <4> QED BY <1>1, <2>2, <4>1, <4>2, <4>3 DEF Numbered
    <3> QED BY <1>1, <2>1, <2>2, <3>1 DEF Numbered
  <2>5. HomeTypeOK' /\ Numbered' /\ SentBefore'
    BY <1>1, <2>1, <2>3, <2>4 DEF HomeTypeOK, Numbered, SentBefore, Knows
  <2> QED BY <2>1, <2>5, Untold
<1> QED BY <1>2, <1>3, <1>4, <1>5

LEMMA Pruned ==
  ASSUME HomeInv, Prune
  PROVE  HomeInv' /\ ReplyStep
<1>1. HomeTypeOK /\ OneEach(desk) /\ StillAnswered /\ Coherent /\ SentBefore /\ Numbered
  BY DEF HomeInv
<1>2. PICK gone : /\ files' = files \ gone
                  /\ status' = [m \in Message |-> IF m \in gone THEN Nobody ELSE status[m]]
  BY DEF Prune
<1>3. /\ sending = "kept" /\ sending' = "pruned"
      /\ UNCHANGED <<sent, count, handovers, awake, desk, recalled, queue, onAir, window, replays, restarts, missed, forgotten>>
  BY DEF Prune, speech, budgets
<1>4. status' \in [Message -> Status \cup {Nobody}] /\ \A m \in Message : status'[m] \in {Nobody, status[m]}
  BY <1>1, <1>2 DEF HomeTypeOK
<1>5. HomeTypeOK' /\ SentBefore'
  BY <1>1, <1>2, <1>3, <1>4 DEF HomeTypeOK, SentBefore
<1>6. \A m : (Knows(desk', m) <=> Knows(desk, m)) /\ (Answered(desk', m) <=> Answered(desk, m))
  BY <1>3
<1>7. StillAnswered' /\ ReplyStep
  BY <1>1, <1>3, <1>4 DEF StillAnswered, ReplyStep
<1>8. Coherent' /\ Numbered'
  BY <1>1, <1>3, <1>4, <1>6 DEF Coherent, Numbered
<1> QED BY <1>1, <1>3, <1>5, <1>7, <1>8 DEF HomeInv

(* A desk that has heard of a message, and one state of it that is told.   *)
LEMMA Heard ==
  ASSUME HomeInv, NEW m \in Message, m <= count, NEW b \in BOOLEAN, desk' = OnStatus(desk, m, b),
         UNCHANGED <<status, count>>,
         \A n \in forgotten : status[n] # Nobody /\ status[n].replied => n \in forgotten',
         ~Knows(desk, m) /\ ~b /\ status[m] # Nobody /\ status[m].replied => m \in forgotten'
  PROVE  /\ desk' \in Seq(Record) /\ Len(desk') <= MaxKept /\ OneEach(desk')
         /\ Coherent' /\ \A n \in Message : Knows(desk', n) => n <= count
<1>1. /\ desk' \in Seq(Record) /\ Len(desk') <= MaxKept /\ OneEach(desk')
      /\ \A n \in Message : Knows(desk', n) =>
           \/ Knows(desk, n) /\ (Answered(desk, n) => Answered(desk', n))
           \/ n = m /\ ~Knows(desk, m) /\ (b => Answered(desk', n))
  BY RemembersNow
<1>2. Coherent /\ Numbered
  BY DEF HomeInv
<1>3. ASSUME NEW n \in Message, status[n] # Nobody, status[n].replied, n \notin forgotten', Knows(desk', n)
      PROVE  Answered(desk', n)
  <2>1. CASE Knows(desk, n) /\ (Answered(desk, n) => Answered(desk', n))
    BY <1>2, <1>3, <2>1 DEF Coherent
  <2>2. CASE n = m /\ ~Knows(desk, m) /\ (b => Answered(desk', n))
    BY <1>3, <2>2
  <2> QED BY <1>1, <1>3, <2>1, <2>2
<1>4. Coherent'
  BY <1>3 DEF Coherent
<1> QED BY <1>1, <1>2, <1>4 DEF Numbered

LEMMA Recalled ==
  ASSUME HomeInv, NEW r \in Record, Recall(r)
  PROVE  HomeInv' /\ ReplyStep
<1>1. HomeTypeOK /\ OneEach(desk) /\ StillAnswered /\ Coherent /\ SentBefore /\ Numbered
  BY DEF HomeInv
<1>2. /\ r \in recalled /\ recalled' = recalled \ {r} /\ desk' = OnStatus(desk, r.m, r.replied)
      /\ missed' = missed \cup Evicted
      /\ forgotten' = IF ~Knows(desk, r.m) /\ ~r.replied /\ status[r.m] # Nobody /\ status[r.m].replied
                        THEN forgotten \cup {r.m} ELSE forgotten
      /\ UNCHANGED <<sending, sent, count, files, status, handovers, awake, queue, onAir, window, replays, restarts>>
  BY DEF Recall, home, budgets
<1>3. r.m \in Message /\ r.replied \in BOOLEAN /\ r.m <= count
  BY <1>1, <1>2 DEF Record, Numbered
<1>4. forgotten \subseteq forgotten' /\ forgotten' \subseteq Message
  BY <1>1, <1>2, <1>3 DEF HomeTypeOK
<1>5. /\ desk' \in Seq(Record) /\ Len(desk') <= MaxKept /\ OneEach(desk')
      /\ Coherent' /\ \A n \in Message : Knows(desk', n) => n <= count
  BY <1>2, <1>3, <1>4, Heard
<1>6. missed' \subseteq Message
  BY <1>1, <1>2, Evictions DEF HomeTypeOK
<1>7. HomeTypeOK' /\ SentBefore' /\ StillAnswered' /\ ReplyStep
  BY <1>1, <1>2, <1>4, <1>5, <1>6 DEF HomeTypeOK, SentBefore, StillAnswered, ReplyStep
<1>8. Numbered'
  BY <1>1, <1>2, <1>5 DEF Numbered
<1> QED BY <1>5, <1>7, <1>8 DEF HomeInv

(* A state told of a message the desk knows.                               *)
LEMMA Told ==
  ASSUME HomeInv, NEW m \in Message, NEW state \in {"sent", "playing", "played", "replied", "failed"},
         Tell(desk, m, state), state = "played" => ~Answered(desk, m),
         UNCHANGED <<desk, count, forgotten>>
  PROVE  /\ status' \in [Message -> Status \cup {Nobody}]
         /\ StillAnswered' /\ Coherent' /\ ReplyStep
         /\ \A n \in Message : n > count => status'[n] = Nobody
<1>1. HomeTypeOK /\ StillAnswered /\ Coherent /\ Numbered
  BY DEF HomeInv
<1>2. /\ status' \in [Message -> Status \cup {Nobody}]
      /\ \A n \in Message : n # m \/ ~Knows(desk, m) => status'[n] = status[n]
      /\ Knows(desk, m) => status'[m].state = state /\ status'[m].replied = Answered(desk, m)
  BY <1>1, Tells DEF HomeTypeOK
<1>3. \A n : (Knows(desk', n) <=> Knows(desk, n)) /\ (Answered(desk', n) <=> Answered(desk, n))
  OBVIOUS
<1>4. StillAnswered'
  BY <1>1, <1>2 DEF StillAnswered
<1>5. Coherent'
  BY <1>1, <1>2, <1>3 DEF Coherent
<1>6. ReplyStep
  BY <1>1, <1>2 DEF Coherent, ReplyStep
<1>7. \A n \in Message : n > count => status'[n] = Nobody
  <2> SUFFICES ASSUME NEW n \in Message, n > count PROVE status'[n] = Nobody
    OBVIOUS
  <2>1. count \in Nat /\ n \in Nat
    BY <1>1 DEF HomeTypeOK, Message
  <2>2. ~Knows(desk, n)
    BY <1>1, <2>1 DEF Numbered
  <2> QED BY <1>1, <1>2, <2>2 DEF Numbered
<1> QED BY <1>2, <1>4, <1>5, <1>6, <1>7

LEMMA Plays ==
  ASSUME HomeInv, StartPlaying \/ EndPlaying
  PROVE  HomeInv' /\ ReplyStep
<1>1. HomeTypeOK /\ OneEach(desk) /\ SentBefore /\ Numbered
  BY DEF HomeInv
<1>2. /\ queue' \in Seq(Message) /\ Len(queue') <= VoiceCap
      /\ onAir' \in Message \cup {Nobody} /\ window' \in Message \cup {Nobody}
      /\ UNCHANGED <<sending, sent, count, files, handovers, awake, desk, recalled, replays, restarts, missed, forgotten>>
  <2>1. CASE StartPlaying
    <3>1. queue \in Seq(Message) /\ queue # <<>> /\ queue' = Tail(queue) /\ Len(queue) \in Nat
      BY <1>1, <2>1, Waiting DEF HomeTypeOK, StartPlaying
    <3>2. queue' \in Seq(Message) /\ Len(queue') = Len(queue) - 1 /\ Head(queue) \in Message
      BY <3>1, WithoutFirst
    <3>3. Len(queue') <= VoiceCap
      BY <1>1, <3>1, <3>2, Numbers DEF HomeTypeOK
    <3> QED BY <1>1, <2>1, <3>2, <3>3 DEF StartPlaying, home, budgets, HomeTypeOK
  <2>2. CASE EndPlaying
    BY <1>1, <2>2 DEF EndPlaying, home, budgets, HomeTypeOK
  <2> QED BY <2>1, <2>2
<1>3. /\ status' \in [Message -> Status \cup {Nobody}]
      /\ StillAnswered' /\ Coherent' /\ ReplyStep
      /\ \A n \in Message : n > count => status'[n] = Nobody
  <2>1. CASE StartPlaying
    <3>1. Head(queue) \in Message
      BY <1>1, <2>1, WithoutFirst DEF HomeTypeOK, StartPlaying
    <3>2. Tell(desk, Head(queue), "playing")
      BY <2>1 DEF StartPlaying
    <3> QED BY <1>2, <3>1, <3>2, Told
  <2>2. CASE EndPlaying
    <3>1. onAir \in Message
      BY <1>1, <2>2 DEF HomeTypeOK, EndPlaying
    <3>2. Tell(desk, onAir, AfterPlaying(onAir))
      BY <2>2 DEF EndPlaying
    <3>3. AfterPlaying(onAir) \in {"played", "replied"} /\ (AfterPlaying(onAir) = "played" => ~Answered(desk, onAir))
      BY DEF AfterPlaying
    <3> QED BY <1>2, <3>1, <3>2, <3>3, Told
  <2> QED BY <2>1, <2>2
<1>4. HomeTypeOK' /\ SentBefore'
  BY <1>1, <1>2, <1>3 DEF HomeTypeOK, SentBefore
<1>5. \A n : Knows(desk', n) <=> Knows(desk, n)
  BY <1>2
<1>6. Numbered'
  BY <1>1, <1>2, <1>3, <1>5 DEF Numbered
<1> QED BY <1>1, <1>2, <1>3, <1>4, <1>6 DEF HomeInv

(* The answer is noted in the record, and told.                            *)
LEMMA Replies ==
  ASSUME HomeInv, Reply
  PROVE  HomeInv' /\ ReplyStep
<1>1. HomeTypeOK /\ OneEach(desk) /\ StillAnswered /\ Coherent /\ SentBefore /\ Numbered
  BY DEF HomeInv
<1>2. /\ window \in Message /\ window' = Nobody
      /\ UNCHANGED <<sending, sent, count, files, handovers, awake, recalled, queue, onAir, replays, restarts, missed, forgotten>>
  BY <1>1 DEF Reply, home, budgets, HomeTypeOK
<1>3. CASE UNCHANGED <<desk, status>>
  <2>1. HomeTypeOK' /\ SentBefore'
    BY <1>1, <1>2, <1>3 DEF HomeTypeOK, SentBefore
  <2>2. \A n : Knows(desk', n) <=> Knows(desk, n)
    BY <1>3
  <2>3. Numbered'
    BY <1>1, <1>2, <1>3, <2>2 DEF Numbered
  <2> QED BY <1>2, <1>3, <2>1, <2>3, Untold
<1>4. CASE /\ desk' = [i \in DOMAIN desk |-> [desk[i] EXCEPT !.replied = @ \/ desk[i].m = window]]
           /\ Tell(desk', window, "replied")
  <2> DEFINE e == [i \in DOMAIN desk |-> [desk[i] EXCEPT !.replied = @ \/ desk[i].m = window]]
  <2>1. desk \in Seq(Record) /\ Len(desk) <= MaxKept /\ DOMAIN desk = 1..Len(desk) /\ Len(desk) \in Nat
    BY <1>1, InRecords DEF HomeTypeOK
  <2>2. \A i \in DOMAIN desk : desk[i] \in Record /\ desk[i].replied \in BOOLEAN
    BY <2>1, InRecords
  <2>3. /\ DOMAIN e = 1..Len(desk)
        /\ \A i \in 1..Len(desk) : e[i] \in Record /\ e[i].m = desk[i].m /\ (desk[i].replied => e[i].replied)
    BY <2>1, <2>2 DEF Record
  <2>4. e \in Seq(Record) /\ Len(e) = Len(desk)
    <3>1. e = [i \in 1..Len(desk) |-> e[i]]
      BY <2>1
    <3> HIDE DEF e
    <3>2. e \in Seq(Record)
      BY <2>1, <2>3, <3>1, IsASeq
    <3> QED BY <2>1, <2>3, <3>2, LenProperties
  <2>5. desk' = e
    BY <1>4
  <2> HIDE DEF e
  <2>6. OneEach(e)
    BY <1>1, <2>1, <2>3 DEF OneEach
  <2>7. ASSUME NEW n
        PROVE  (Knows(e, n) <=> Knows(desk, n)) /\ (Answered(desk, n) => Answered(e, n))
    <3>1. /\ Knows(e, n) <=> \E i \in DOMAIN e : e[i].m = n
          /\ Answered(e, n) <=> \E i \in DOMAIN e : e[i].m = n /\ e[i].replied
      BY <2>4, InRecords
    <3>2. /\ Knows(desk, n) <=> \E i \in DOMAIN desk : desk[i].m = n
          /\ Answered(desk, n) <=> \E i \in DOMAIN desk : desk[i].m = n /\ desk[i].replied
      BY <2>1, InRecords
    <3> QED BY <2>1, <2>3, <3>1, <3>2
  <2>8. PICK d \in Seq(Record) : d = e
    BY <2>4
  <2>9. Tell(d, window, "replied")
    BY <1>4, <2>5, <2>8
  <2>10. /\ status' \in [Message -> Status \cup {Nobody}]
         /\ \A n \in Message : n # window \/ ~Knows(d, window) => status'[n] = status[n]
         /\ Knows(d, window) => status'[window].state = "replied" /\ status'[window].replied = Answered(d, window)
    BY <1>1, <1>2, <2>9, Tells DEF HomeTypeOK
  <2>11. HomeTypeOK' /\ SentBefore' /\ OneEach(desk')
    BY <1>1, <1>2, <2>1, <2>4, <2>5, <2>6, <2>10 DEF HomeTypeOK, SentBefore
  <2>12. StillAnswered'
    BY <1>1, <1>2, <2>10 DEF StillAnswered
  <2>13. Coherent' /\ ReplyStep
    BY <1>1, <1>2, <2>5, <2>7, <2>8, <2>10 DEF Coherent, ReplyStep
  <2>14. Numbered'
    <3>1. \A n \in Message : n > count => ~(n <= count)
      BY <1>1 DEF HomeTypeOK, Message
    <3> QED BY <1>1, <1>2, <2>5, <2>7, <2>8, <2>10, <3>1 DEF Numbered
  <2> QED BY <2>11, <2>12, <2>13, <2>14 DEF HomeInv
<1> QED BY <1>3, <1>4 DEF Reply

(* A handover: the message joins the queue, or is told to have failed.     *)
LEMMA Incoming ==
  ASSUME HomeInv, OnIncoming
  PROVE  HomeInv' /\ ReplyStep
<1> DEFINE m == Head(handovers)
           full == Len(queue) = VoiceCap
<1>1. HomeTypeOK /\ OneEach(desk) /\ StillAnswered /\ Coherent /\ SentBefore /\ Numbered
  BY DEF HomeInv
<1>2. /\ handovers # <<>> /\ handovers' = Tail(handovers)
      /\ desk' = OnStatus(desk, m, FALSE)
      /\ forgotten' = IF ~Knows(desk, m) /\ status[m] # Nobody /\ status[m].replied
                        THEN forgotten \cup {m} ELSE forgotten
      /\ UNCHANGED <<sending, sent, count, files, awake, recalled, onAir, window, replays, restarts>>
  BY DEF OnIncoming, home, budgets
<1>3. \/ /\ queue' = Append(IF full THEN Tail(queue) ELSE queue, m)
         /\ missed' = missed \cup Evicted \cup (IF full THEN {Head(queue)} ELSE {})
         /\ UNCHANGED status
      \/ Tell(desk', m, "failed") /\ missed' = missed \cup Evicted /\ UNCHANGED queue
  BY DEF OnIncoming
<1>4. handovers \in Seq(Message) /\ queue \in Seq(Message) /\ Len(queue) <= VoiceCap
  BY <1>1 DEF HomeTypeOK
<1>5. /\ handovers' \in Seq(Message) /\ m \in Message /\ m <= count
      /\ \A i \in DOMAIN handovers' : handovers'[i] <= count
  <2>1. /\ handovers' \in Seq(Message) /\ DOMAIN handovers' = 1..(Len(handovers) - 1)
        /\ \A i \in 1..(Len(handovers) - 1) : handovers'[i] = handovers[i + 1]
        /\ m \in Message
    BY <1>2, <1>4, WithoutFirst
  <2>2. DOMAIN handovers = 1..Len(handovers) /\ Len(handovers) \in Nat \ {0} /\ m = handovers[1]
    BY <1>2, <1>4, EmptySeq, LenProperties
  <2>3. \A i \in DOMAIN handovers' : i + 1 \in DOMAIN handovers /\ handovers'[i] = handovers[i + 1]
    BY <2>1, <2>2
  <2>4. 1 \in DOMAIN handovers
    BY <2>2
  <2> QED BY <1>1, <2>1, <2>2, <2>3, <2>4 DEF Numbered
<1> HIDE DEF m
<1>6. forgotten \subseteq forgotten' /\ forgotten' \subseteq Message
  BY <1>1, <1>2, <1>5 DEF HomeTypeOK
<1>7. /\ desk' \in Seq(Record) /\ Len(desk') <= MaxKept /\ OneEach(desk')
      /\ Knows(desk, m) => desk' = desk
      /\ \A n \in Message : Knows(desk', n) =>
           \/ Knows(desk, n) /\ (Answered(desk, n) => Answered(desk', n))
           \/ n = m /\ ~Knows(desk, m)
  <2> DEFINE b == FALSE
  <2>1. b \in BOOLEAN /\ desk' = OnStatus(desk, m, b)
    BY <1>2
  <2> HIDE DEF b
  <2> QED BY <1>5, <2>1, RemembersNow
<1>8. Evicted \subseteq Message
  BY Evictions
<1>9. /\ queue' \in Seq(Message) /\ Len(queue') <= VoiceCap /\ missed' \subseteq Message
  <2>1. CASE /\ queue' = Append(IF full THEN Tail(queue) ELSE queue, m)
             /\ missed' = missed \cup Evicted \cup (IF full THEN {Head(queue)} ELSE {})
    <3> DEFINE q == IF full THEN Tail(queue) ELSE queue
    <3>1. Len(queue) \in Nat /\ VoiceCap \in Nat \ {0}
      BY <1>4, Waiting, Numbers
    <3>2. q \in Seq(Message) /\ Len(q) < VoiceCap /\ Len(q) \in Nat /\ (full => Head(queue) \in Message)
      <4>1. CASE full
        <5>1. queue # <<>>
          BY <3>1, <4>1, EmptySeq
        <5>2. Tail(queue) \in Seq(Message) /\ Len(Tail(queue)) = Len(queue) - 1 /\ Head(queue) \in Message
          BY <1>4, <5>1, HeadTailProperties
        <5> QED BY <3>1, <4>1, <5>2
      <4>2. CASE ~full
        BY <1>4, <3>1, <4>2
      <4> QED BY <4>1, <4>2
    <3>3. queue' = Append(q, m) /\ missed' = missed \cup Evicted \cup (IF full THEN {Head(queue)} ELSE {})
      BY <2>1
    <3> HIDE DEF q, full
    <3>4. queue' \in Seq(Message) /\ Len(queue') = Len(q) + 1
      BY <1>5, <3>2, <3>3, AppendProperties
    <3>5. missed' \subseteq Message
      BY <1>1, <1>8, <3>2, <3>3 DEF HomeTypeOK
    <3> QED BY <3>1, <3>2, <3>4, <3>5
  <2>2. CASE queue' = queue /\ missed' = missed \cup Evicted
    BY <1>1, <1>4, <1>8, <2>2 DEF HomeTypeOK
  <2> QED BY <1>3, <2>1, <2>2
<1>10. /\ status' \in [Message -> Status \cup {Nobody}]
       /\ \A n \in Message : n # m => status'[n] = status[n]
       /\ \/ status' = status
          \/ status'[m].state = "failed" /\ status'[m].replied = Answered(desk', m)
  <2>1. CASE status' = status
    BY <1>1, <2>1 DEF HomeTypeOK
  <2>2. CASE Tell(desk', m, "failed")
    <3>1. PICK d \in Seq(Record) : d = desk'
      BY <1>7
    <3>2. Tell(d, m, "failed")
      BY <2>2, <3>1
    <3>3. /\ status' \in [Message -> Status \cup {Nobody}]
          /\ \A n \in Message : n # m \/ ~Knows(d, m) => status'[n] = status[n]
          /\ Knows(d, m) => status'[m].state = "failed" /\ status'[m].replied = Answered(d, m)
      BY <1>1, <1>5, <3>2, Tells DEF HomeTypeOK
    <3>4. ~Knows(d, m) => status' = status
      BY <3>2 DEF Tell
    <3> QED BY <3>1, <3>3, <3>4
  <2> QED BY <1>3, <2>1, <2>2
<1>11. HomeTypeOK' /\ SentBefore'
  BY <1>1, <1>2, <1>5, <1>6, <1>7, <1>9, <1>10 DEF HomeTypeOK, SentBefore
<1>12. StillAnswered'
  BY <1>1, <1>10 DEF StillAnswered
<1>13. ASSUME NEW n \in Message, status[n] # Nobody, status[n].replied, n \notin forgotten', Knows(desk', n)
       PROVE  Answered(desk', n)
  BY <1>1, <1>2, <1>6, <1>7, <1>13 DEF Coherent
<1>14. Coherent'
  BY <1>10, <1>13 DEF Coherent
<1>15. ReplyStep
  <2> SUFFICES ASSUME NEW n \in Message, status[n] # Nobody, status[n].replied
               PROVE  status'[n] = Nobody \/ status'[n].replied \/ n \in forgotten'
    BY DEF ReplyStep
  <2>1. CASE status'[n] = status[n]
    BY <2>1
  <2>2. CASE n = m /\ status'[m].replied = Answered(desk', m)
    <3>1. CASE Knows(desk, m) /\ m \notin forgotten'
      <4>1. Answered(desk, m)
        BY <1>1, <1>6, <2>2, <3>1 DEF Coherent
      <4> QED BY <1>7, <2>2, <3>1, <4>1
    <3>2. CASE ~Knows(desk, m)
      BY <1>2, <2>2, <3>2
    <3> QED BY <2>2, <3>1, <3>2
  <2> QED BY <1>10, <2>1, <2>2
<1>16. Numbered'
  <2>1. count \in Nat /\ \A n \in Message : n \in Nat
    BY <1>1 DEF HomeTypeOK, Message
  <2>2. \A n \in Message : n > count => status'[n] = Nobody
    BY <1>1, <1>5, <1>10, <2>1 DEF Numbered
  <2>3. \A n \in Message : Knows(desk', n) => n <= count
    BY <1>1, <1>5, <1>7 DEF Numbered
  <2> QED BY <1>1, <1>2, <1>5, <2>2, <2>3 DEF Numbered
<1> QED BY <1>7, <1>11, <1>12, <1>14, <1>15, <1>16 DEF HomeInv

LEMMA Restarts ==
  ASSUME HomeInv, Die \/ Wake
  PROVE  HomeInv' /\ ReplyStep
<1>1. HomeTypeOK /\ OneEach(desk) /\ StillAnswered /\ Coherent /\ SentBefore /\ Numbered
  BY DEF HomeInv
<1>2. CASE Die
  <2>1. /\ DOMAIN <<>> = {} /\ Len(<<>>) = 0 /\ \A S : <<>> \in Seq(S)
    BY EmptySeq
  <2>2. /\ desk' = <<>> /\ recalled' = {} /\ queue' = <<>> /\ onAir' = Nobody /\ window' = Nobody /\ handovers' = <<>>
        /\ awake' = FALSE /\ restarts > 0 /\ restarts' = restarts - 1
        /\ missed' = missed \cup ToSet(handovers) \cup ToSet(queue) \cup ({onAir} \ {Nobody})
        /\ UNCHANGED <<sending, sent, count, files, status, replays, forgotten>>
    BY <1>2 DEF Die, home
  <2>3. missed' \subseteq Message /\ restarts' \in 0..MaxRestarts
    <3>1. ToSet(handovers) \subseteq Message /\ ToSet(queue) \subseteq Message
      BY <1>1, Waiting DEF HomeTypeOK
    <3> QED BY <1>1, <2>2, <3>1, Numbers DEF HomeTypeOK
  <2>4. \A n : ~Knows(desk', n)
    BY <2>1, <2>2 DEF Knows, ToSet
  <2>5. HomeTypeOK' /\ SentBefore' /\ OneEach(desk')
    <3>1. /\ desk' \in Seq(Record) /\ Len(desk') <= MaxKept /\ handovers' \in Seq(Message)
          /\ queue' \in Seq(Message) /\ Len(queue') <= VoiceCap
      BY <2>1, <2>2, Numbers
    <3>2. HomeTypeOK'
      BY <1>1, <2>2, <2>3, <3>1 DEF HomeTypeOK
    <3> QED BY <1>1, <2>1, <2>2, <3>2 DEF SentBefore, OneEach
  <2>6. StillAnswered' /\ ReplyStep /\ Coherent'
    BY <1>1, <2>2, <2>4 DEF StillAnswered, ReplyStep, Coherent
  <2>7. Numbered'
    BY <1>1, <2>1, <2>2, <2>4 DEF Numbered
  <2> QED BY <2>5, <2>6, <2>7 DEF HomeInv
<1>3. CASE Wake
  <2>1. /\ awake' = TRUE
        /\ recalled' = {[m |-> m, replied |-> status[m].replied] : m \in {n \in Message : status[n] # Nobody}}
        /\ UNCHANGED <<sending, sent, count, files, status, handovers, desk, queue, onAir, window, replays, restarts, missed, forgotten>>
    BY <1>3 DEF Wake, home, budgets
  <2>2. \A n \in Message : status[n] # Nobody => n <= count /\ status[n].replied \in BOOLEAN
    <3>1. count \in Nat /\ \A n \in Message : n \in Nat
      BY <1>1 DEF HomeTypeOK, Message
    <3> QED BY <1>1, <3>1 DEF Numbered, HomeTypeOK, Status
  <2>3. recalled' \subseteq Record /\ \A q \in recalled' : q.m <= count
    BY <2>1, <2>2 DEF Record
  <2>4. HomeTypeOK' /\ SentBefore'
    BY <1>1, <2>1, <2>3 DEF HomeTypeOK, SentBefore
  <2>5. \A n : Knows(desk', n) <=> Knows(desk, n)
    BY <2>1
  <2>6. Numbered'
    BY <1>1, <2>1, <2>3, <2>5 DEF Numbered
  <2> QED BY <2>1, <2>4, <2>6, Untold
<1> QED BY <1>2, <1>3

LEMMA HomeStep == HomeInv /\ [HomeNext]_homeVars => HomeInv' /\ ReplyStep
<1> SUFFICES ASSUME HomeInv, [HomeNext]_homeVars PROVE HomeInv' /\ ReplyStep
  OBVIOUS
<1>1. CASE UNCHANGED homeVars
  <2>1. HomeTypeOK' /\ SentBefore' /\ Numbered'
    BY <1>1 DEF homeVars, home, speech, budgets, HomeInv, HomeTypeOK, SentBefore, Numbered, Knows
  <2> QED BY <1>1, <2>1, Untold DEF homeVars, speech
<1> QED BY <1>1, Kept, AtThePage, Pruned, Recalled, Plays, Replies, Incoming, Restarts
        DEF HomeNext, AwayAndConsole, InTheRoom

(* However messages are sent, played, answered, replayed and put away, and  *)
(* however often the speech service restarts: one that was answered is      *)
(* never shown as merely played, and an answer the sender was shown is not  *)
(* lost (speech/messages.py, console/messages.py, useMessageHome.ts).       *)
THEOREM MessageKept == HomeSpec => MessageKeepsItsWord
<1>1. HomeInv => HomeTypeOK /\ StillAnswered
  BY DEF HomeInv
<1>2. HomeSpec => []HomeInv
  BY HomeStarts, HomeStep, PTL DEF HomeSpec
<1>3. HomeInv /\ [HomeNext]_homeVars =>
        [\A m \in Message : status[m] # Nobody /\ status[m].replied =>
           status'[m] = Nobody \/ status'[m].replied \/ m \in forgotten']_homeVars
  BY HomeStep DEF ReplyStep
<1>4. HomeSpec => ReplyStays
  BY <1>2, <1>3, PTL DEF HomeSpec, ReplyStays
<1> QED BY <1>1, <1>2, <1>4, PTL DEF MessageKeepsItsWord
=============================================================================
